------------------------- MODULE UniswapV3Strategy --------------------------
(***************************************************************************)
(* UniswapV3ConverterStrategy: the life of PairState - fuse, tick range,   *)
(* tracked liquidity, withdrawDone - under the operator's calls, the       *)
(* calls of the splitter, the vault and TetuConverter, and a moving        *)
(* market.  The pool's own record of the strategy's positions is kept      *)
(* beside the strategy's, so that the two can disagree.                    *)
(*                                                                         *)
(* Amounts are classes (below, at, above a threshold); a debt is open when *)
(* it is at least DUST_AMOUNT_TOKENS.  What the converter, the swaps and   *)
(* the splitter do to amounts is a choice over their possible outcomes.    *)
(* A call that reverts is a step that cannot be taken.  The accounting     *)
(* fields of _csbs are the state of module ConverterAccounting.            *)
(***************************************************************************)
EXTENDS PairFuse, PairRange, Sequences

CONSTANTS
  Ticks,                 \* ticks the pool may move through
  Prices,                \* oracle prices of the pair
  PoolPriceAt,           \* price in the pool at each tick
  IsStablePool,
  TickSpacing, TickRange, RebalanceTickRange,
  InitThresholds,        \* fuse thresholds given to init
  ThresholdChoices,      \* thresholds the operator may set
  ManualStatuses,        \* statuses the operator may set by hand
  Balances,              \* classes of token amounts
  LiquidationThreshold,
  MaxLiquidity           \* bound on the liquidity of a position

Ranges == {CalcTickRange(t, TickRange, TickSpacing) : t \in Ticks}

\* What init demands, and what the deployments respect beyond that
\* (RebalanceTickRange between one spacing and half the range).
ASSUME TickAssumption ==
  /\ TickSpacing \in Nat \ {0} /\ TickRange \in Nat /\ RebalanceTickRange \in Nat
  /\ TickRange % TickSpacing = 0
  /\ TickRange # 0 => TickSpacing <= RebalanceTickRange /\ RebalanceTickRange <= TickRange
  /\ Ticks \subseteq Int /\ Ticks # {}

ASSUME MarketAssumption ==
  /\ Prices \subseteq Nat
  /\ PoolPriceAt \in [Ticks -> Nat]
  /\ IsStablePool \in BOOLEAN

ASSUME OperatorAssumption ==
  /\ InitThresholds \in Thresholds
  /\ ThresholdChoices \subseteq Thresholds
  /\ ManualStatuses \subseteq FuseStatus

ASSUME AmountAssumption ==
  /\ Balances \subseteq Nat
  /\ LiquidationThreshold \in Nat \ {0}
  /\ MaxLiquidity \in Nat

VARIABLES
  tick, price,                          \* the market
  fuseStatus, thresholds,               \* pair.fuseAB
  range,                                \* pair.lowerTick, pair.upperTick
  totalLiquidity,                       \* pair.totalLiquidity
  position,                             \* liquidity the pool holds for the strategy, per range
  debts,                                \* open debts in TetuConverter, by direction
  withdrawDone,                         \* pair.withdrawDone
  lastRebalanceNoSwap                   \* pair.lastRebalanceNoSwap: 0, or 1 for a timestamp

market == <<tick, price>>
pair == <<fuseStatus, thresholds, range, totalLiquidity, withdrawDone, lastRebalanceNoSwap>>
vars == <<market, pair, position, debts>>

Direct == "direct"          \* underlying is the collateral
Reverse == "reverse"        \* underlying is borrowed
Directions == {Direct, Reverse}
Opposite(d) == IF d = Direct THEN Reverse ELSE Direct

PlanSwapRepay == "PLAN_SWAP_REPAY"
PlanRepaySwapRepay == "PLAN_REPAY_SWAP_REPAY"
PlanSwapOnly == "PLAN_SWAP_ONLY"
Plans == {PlanSwapRepay, PlanRepaySwapRepay, PlanSwapOnly}

FuseIsOn == IsFuseTriggeredOn(fuseStatus)

(***************************************************************************)
(* needStrategyRebalance                                                   *)
(***************************************************************************)
NewFuseStatus == NeedChangeFuseStatus(fuseStatus, thresholds, price, PoolPriceAt[tick])

NeedPool == NeedPoolRebalance(tick, range, TickSpacing, RebalanceTickRange)

NeedRebalance ==
  IF IsStablePool
  THEN NewFuseStatus # fuseStatus \/ (~IsFuseTriggeredOn(NewFuseStatus) /\ NeedPool)
  ELSE NeedPool

(***************************************************************************)
(* The depositor: enter and exit on the position at the current range.     *)
(***************************************************************************)
Mint(pos, r, n) == [pos EXCEPT ![r] = @ + n]
Burn(pos, r, n) == [pos EXCEPT ![r] = @ - n]

\* enter returns totalLiquidityNew, which stays 0 when no amount of the second token is given
DepositorEnter(pos, r, liquidity, amounts) ==
  IF amounts[2] > 0
  THEN \E n \in 1..(MaxLiquidity - liquidity) :
         position' = Mint(pos, r, n) /\ totalLiquidity' = liquidity + n
  ELSE position' = pos /\ totalLiquidity' = 0

DepositorExit(n) ==
  /\ totalLiquidity >= n
  /\ position' = Burn(position, range, n)
  /\ totalLiquidity' = totalLiquidity - n

\* getTokenAmountsPair: the balances, or nothing when one is below the threshold
TokenAmountsPair(a, b) ==
  IF a < LiquidationThreshold \/ b < LiquidationThreshold THEN <<>> ELSE <<a, b>>

(***************************************************************************)
(* rebalanceNoSwaps and withdrawByAggStep are _rebalanceBefore, the work,  *)
(* _rebalanceAfter.  _rebalanceBefore leaves the pool whenever the tracked *)
(* liquidity is not zero.                                                  *)
(***************************************************************************)
PositionBeforeKept == position     \* mutant: the pool is not left

PositionBefore == IF totalLiquidity # 0 THEN Burn(position, range, totalLiquidity) ELSE position

\* Mutants: the fuse is not looked at, or looked at before its update
RebalanceAfterAnyFuse(pos, amounts) ==
  IF Len(amounts) = 2
  THEN DepositorEnter(pos, range', 0, amounts)
  ELSE position' = pos /\ totalLiquidity' = 0

RebalanceAfterOldFuse(pos, amounts) ==
  IF Len(amounts) = 2 /\ ~FuseIsOn
  THEN DepositorEnter(pos, range', 0, amounts)
  ELSE position' = pos /\ totalLiquidity' = 0

RebalanceAfter(pos, amounts) ==
  IF Len(amounts) = 2 /\ ~IsFuseTriggeredOn(fuseStatus')
  THEN DepositorEnter(pos, range', 0, amounts)
  ELSE position' = pos /\ totalLiquidity' = 0

\* rebalanceNoSwaps when a rebalance is needed: the fuse is updated, the
\* debts are rebalanced to the proportions of the new range, and what is
\* then on balance is offered to the pool
RebalanceNeeded ==
  /\ NeedRebalance
  /\ fuseStatus' = IF IsStablePool THEN NewFuseStatus ELSE fuseStatus
  /\ withdrawDone' = IF fuseStatus' # fuseStatus THEN 0 ELSE withdrawDone
  /\ range' = CalcNewTickRange(tick, range, TickSpacing)
  /\ debts' \in SUBSET Directions
  /\ \E a, b \in Balances : RebalanceAfter(PositionBefore, TokenAmountsPair(a, b))

\* rebalanceNoSwaps(false) when none is needed: tokenAmounts stays empty
RebalanceNotNeeded ==
  /\ ~NeedRebalance
  /\ UNCHANGED <<fuseStatus, withdrawDone, range, debts>>
  /\ RebalanceAfter(PositionBefore, <<>>)

RebalanceNoSwaps(checkNeedRebalance) ==
  /\ RebalanceNeeded \/ (~checkNeedRebalance /\ RebalanceNotNeeded)
  /\ lastRebalanceNoSwap' = 1
  /\ UNCHANGED <<market, thresholds>>

(***************************************************************************)
(* One iteration of the withdraw plan (PairBasedStrategyLib._withdrawStep) *)
(***************************************************************************)
\* Mutant: the direct debt is forgotten
SwapLeftoversReverseOnly(plan) == plan = PlanSwapOnly \/ Reverse \notin debts

\* buildIterationPlan gives no index to repay: the last iteration
SwapLeftovers(plan) == plan = PlanSwapOnly \/ debts = {}

\* The reverse debt is repaid first
DebtToRepay == IF Reverse \in debts THEN Reverse ELSE Direct

\* Debts that a step of the plan can leave.  Swapping leftovers may move the
\* proportions of the pool, and is then followed by a borrow in a direction
\* whose opposite is closed.  SWAP_REPAY repays all or part of one debt.
\* REPAY_SWAP_REPAY may end with a borrow in the other direction.
DebtsAfterStep(plan, usePoolProportions) ==
  IF SwapLeftovers(plan)
  THEN IF usePoolProportions /\ plan # PlanRepaySwapRepay
       THEN {debts} \cup {debts \cup {d} : d \in {x \in Directions : Opposite(x) \notin debts}}
       ELSE {debts}
  ELSE LET repaid == {debts, debts \ {DebtToRepay}}
       IN  IF plan = PlanSwapRepay THEN repaid
           ELSE repaid \cup {ds \cup {Opposite(DebtToRepay)} : ds \in repaid}

EntryAllowed(entryToPool, completed) == entryToPool = 1 \/ (entryToPool = 2 /\ completed)

WithdrawByAggStep(plan, usePoolProportions, entryToPool) ==
  LET completed == SwapLeftovers(plan)
      entry == EntryAllowed(entryToPool, completed)
  IN  /\ debts' \in DebtsAfterStep(plan, usePoolProportions)
      /\ range' = IF entry THEN CalcNewTickRange(tick, range, TickSpacing) ELSE range
      /\ withdrawDone' = IF completed /\ FuseIsOn THEN 1 ELSE withdrawDone
      /\ lastRebalanceNoSwap' = 0
      /\ UNCHANGED <<market, fuseStatus, thresholds>>
      /\ \E a, b \in Balances :
           RebalanceAfter(PositionBefore, IF entry THEN TokenAmountsPair(a, b) ELSE <<>>)

(***************************************************************************)
(* Deposits, withdrawals and payments                                      *)
(***************************************************************************)
\* _makeRequestedAmount: leave part of the position, repay some debts
MakeRequestedAmount ==
  /\ \E n \in 0..totalLiquidity : DepositorExit(n)
  /\ debts' \in SUBSET debts

\* _withdrawUniversal, behind _beforeWithdraw
WithdrawUniversal == ~NeedRebalance /\ MakeRequestedAmount

\* The deposit of _depositToPoolUniversal, behind _beforeDeposit; borrowing
\* may change the debts, and a zero amount keeps the strategy out of the pool
EnterPool ==
  /\ ~NeedRebalance
  /\ debts' \in SUBSET Directions
  /\ \E a, b \in Balances :
       IF a = 0 \/ b = 0
       THEN UNCHANGED <<position, totalLiquidity>>
       ELSE DepositorEnter(position, range, totalLiquidity, <<a, b>>)

\* Amounts too small to deposit, or a profit taken from the pool for the insurance
DepositToPoolUniversal ==
  \/ EnterPool
  \/ WithdrawUniversal
  \/ UNCHANGED <<position, totalLiquidity, debts>>

Others == <<market, fuseStatus, thresholds, range, withdrawDone, lastRebalanceNoSwap>>

\* investAll -> _depositToPool
Deposit ==
  /\ IF FuseIsOn THEN UNCHANGED <<position, totalLiquidity, debts>> ELSE DepositToPoolUniversal
  /\ UNCHANGED Others

\* withdrawToSplitter, withdrawAllToSplitter
Withdraw == WithdrawUniversal /\ UNCHANGED Others

\* doHardWork: _preHardWork, then _depositToPoolUniversal
HardWork ==
  /\ ~NeedRebalance /\ ~FuseIsOn
  /\ DepositToPoolUniversal
  /\ UNCHANGED Others

\* requirePayAmountBack, called by TetuConverter: no _beforeWithdraw here
RequirePayAmountBack == MakeRequestedAmount /\ UNCHANGED Others

\* emergencyExit -> _depositorEmergencyExit
EmergencyExit ==
  /\ DepositorExit(totalLiquidity)
  /\ UNCHANGED <<Others, debts>>

(***************************************************************************)
(* Manual settings of the operator                                         *)
(***************************************************************************)
SetFuseStatus(status) ==
  /\ fuseStatus' = status
  /\ UNCHANGED <<market, thresholds, range, totalLiquidity, withdrawDone, lastRebalanceNoSwap, position, debts>>

SetFuseThresholds(values) ==
  /\ ValidThresholds(values)
  /\ thresholds' = values
  /\ UNCHANGED <<market, fuseStatus, range, totalLiquidity, withdrawDone, lastRebalanceNoSwap, position, debts>>

SetWithdrawDone(done) ==
  /\ withdrawDone' = done
  /\ UNCHANGED <<market, fuseStatus, thresholds, range, totalLiquidity, lastRebalanceNoSwap, position, debts>>

\* Swaps of other traders move the pool, the oracle follows the world
MarketMove ==
  /\ tick' \in Ticks /\ price' \in Prices
  /\ UNCHANGED <<pair, position, debts>>

-----------------------------------------------------------------------------
Init ==
  /\ tick \in Ticks /\ price \in Prices
  /\ fuseStatus = IF IsStablePool THEN FuseOff ELSE FuseDisabled
  /\ thresholds = InitThresholds
  /\ IsStablePool => ValidThresholds(InitThresholds)
  /\ range = CalcTickRange(tick, TickRange, TickSpacing)
  /\ totalLiquidity = 0
  /\ position = [r \in Ranges |-> 0]
  /\ debts = {}
  /\ withdrawDone = 0
  /\ lastRebalanceNoSwap = 0

OperatorStep ==
  \/ \E check \in BOOLEAN : RebalanceNoSwaps(check)
  \/ \E plan \in Plans, pool \in BOOLEAN, entry \in 0..2 : WithdrawByAggStep(plan, pool, entry)
  \/ \E s \in ManualStatuses : SetFuseStatus(s)
  \/ \E v \in ThresholdChoices : SetFuseThresholds(v)
  \/ \E d \in {0, 1} : SetWithdrawDone(d)

Next ==
  \/ OperatorStep
  \/ Deposit
  \/ Withdraw
  \/ HardWork
  \/ RequirePayAmountBack
  \/ EmergencyExit
  \/ MarketMove

Spec == Init /\ [][Next]_vars

\* The rebalance bots poll needRebalance and call rebalanceNoSwaps(true)
FairSpec == Spec /\ WF_vars(RebalanceNoSwaps(TRUE))

-----------------------------------------------------------------------------
\* Every variable stays in its domain; the range is always one that
\* calcTickRange gives for the configured width.
TypeOK ==
  /\ tick \in Ticks /\ price \in Prices
  /\ fuseStatus \in FuseStatus
  /\ thresholds \in Thresholds
  /\ range \in Ranges
  /\ totalLiquidity \in Nat
  /\ position \in [Ranges -> Nat]
  /\ debts \subseteq Directions
  /\ withdrawDone \in {0, 1}
  /\ lastRebalanceNoSwap \in {0, 1}

\* The liquidity the strategy tracks is all the liquidity the pool holds for
\* it: none is orphaned at an old range when the ticks move, and enter never
\* resets the counter while a position exists.
LiquidityIsTracked ==
  \A r \in Ranges : position[r] = IF r = range THEN totalLiquidity ELSE 0

\* The pool's own record of the strategy is what PoolPosition promises: whoever calls,
\* whenever the operator or the prices switch the fuse, all liquidity is at the range of
\* the strategy and was placed there with the fuse off and the price inside.
Position == INSTANCE PoolPosition WITH
  fuseOn <- FuseIsOn, at <- range, held <- position, ByHand <- ManualStatuses # {}
ImplementsPoolPosition == Position!Spec

\* While the fuse is triggered no call puts liquidity into the pool, whoever
\* makes it.
NoEntryWhileFuseOn == [][FuseIsOn' => totalLiquidity' <= totalLiquidity]_vars

\* A fuse that the prices trigger finds the pool empty: "If the fuse was
\* triggered, all assets are withdrawn from the pool on the strategy balance."
FuseEmptiesPool ==
  [][(~FuseIsOn /\ FuseIsOn' /\ ~\E s \in ManualStatuses : SetFuseStatus(s))
       => totalLiquidity' = 0]_vars

\* Liquidity is only added to a range that holds the current tick, so that
\* it earns fees from the moment it is placed: for a deposit this rests on
\* needRebalance having been false, for a rebalance on calcTickRange.
EntryInRange == [][totalLiquidity' > totalLiquidity => InRange(tick, range')]_vars

\* A rebalance that was needed leaves nothing to do for the pool's range.
RebalanceCentersRange ==
  [][RebalanceNoSwaps(TRUE) => ~NeedPool']_vars

\* Only the plans that repay: a step that reports the withdraw as done leaves
\* no open debt, unless it was asked to follow the pool's moving proportions.
WithdrawDoneAfterRepay ==
  [][\A plan \in Plans \ {PlanSwapOnly}, entry \in 0..2 :
       WithdrawByAggStep(plan, FALSE, entry) /\ withdrawDone' > withdrawDone => debts' = {}]_vars

\* Rebalancing never goes on for ever: with strictly ordered thresholds the
\* strategy keeps coming back to a state where deposits and withdrawals are
\* not blocked by needRebalance.
RebalanceSettles == []<>~NeedRebalance

(***************************************************************************)
(* What the comments promise and the code does not do                      *)
(***************************************************************************)
\* "Pass false to deposit after withdrawByAgg-iterations": rebalanceNoSwaps(false)
\* with the fuse off and enough of both tokens ends in the pool.
DepositAfterIterations ==
  [][RebalanceNoSwaps(FALSE) /\ ~FuseIsOn' /\ lastRebalanceNoSwap' > lastRebalanceNoSwap
       => totalLiquidity' > 0]_vars

\* "completed All debts were closed": a step that marks the withdraw as done has
\* closed the debts it found.  (A debt the step itself opens at its end, to follow
\* the proportions of the pool, is no matter here.)
WithdrawDoneClosesDebts ==
  [][(withdrawDone' > withdrawDone /\ lastRebalanceNoSwap' = 0 /\ ~SetWithdrawDone(1))
       => debts \cap debts' = {}]_vars

=============================================================================
