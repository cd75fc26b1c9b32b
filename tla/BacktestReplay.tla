--------------------------- MODULE BacktestReplay ---------------------------
(***************************************************************************)
(* The replay of a pool's history against a strategy deployed in a local   *)
(* network (scripts/uniswapV3Backtester/strategyBacktest.ts).  The local   *)
(* pool is filled from a snapshot taken at the start block; mints and      *)
(* burns are spread over the pieces (one tick spacing each) of their       *)
(* range, clipped to the snapshot.  After the last transaction of a second *)
(* is replayed the strategy is rebalanced, its fuse is timed and its debts *)
(* are reduced.  A call that reverts ends the backtest.                    *)
(*                                                                         *)
(* Prices are left out: whether the strategy asks for a rebalance, whether *)
(* a rebalance switches its fuse and how much is locked are free.          *)
(***************************************************************************)
EXTENDS Integers, FiniteSets, FiniteSetsExt, Functions

CONSTANTS
  Ranges,        \* the ranges of the positions on chain, [lower, upper] in pieces
  Amounts,       \* liquidity of a mint or a burn
  Lo, Hi,        \* tickIdx of the first and the last tick of the snapshot
  TxCount,       \* poolTxs.length
  TxLimit,       \* 0 for no limit
  RebalanceDebt, \* BOOLEAN, the parameter rebalanceDebt
  DebtDelay,     \* rebalanceDebtDelay
  MaxGap         \* bound: time between two transactions

ReplayAssumption ==
  /\ Ranges \subseteq [lower : Int, upper : Int] /\ IsFiniteSet(Ranges)
  /\ \A g \in Ranges : g.lower < g.upper
  /\ Amounts \subseteq Nat
  /\ Lo \in Int /\ Hi \in Int /\ Lo <= Hi
  /\ TxCount \in Nat /\ TxLimit \in Nat /\ DebtDelay \in Nat /\ MaxGap \in Nat
  /\ RebalanceDebt \in BOOLEAN

StartTimestamp == 10   \* far enough from 0, which stands for "never" in the code

VARIABLES
  pos,          \* the positions on the real chain
  startBlock,   \* replayed transactions of the start block still to come
  liq,          \* the signer's liquidity in each piece of the local pool
  phase,
  i,            \* number of the transaction, as printed
  time,         \* its timestamp
  previousTimestamp,
  fuse, withdrawDone,                \* the strategy
  timeOnFuse, lastFuseTimestamp, lastNSRTimestamp,
  rebalancesDebt, rebalancesDebtDelayed, rebalancesDebtClosing,
  minted,       \* history: mints replayed in each piece
  startReplayed,\* history: a burn of the start block was replayed
  shortfall,    \* history: what the pool lacked when a burn reverted
  trueFuse, lastCheck, switchedOff   \* history: the time the fuse really was on

poolVars == <<pos, startBlock, liq, minted, startReplayed, shortfall>>
fuseVars == <<fuse, withdrawDone, timeOnFuse, lastFuseTimestamp, lastNSRTimestamp,
              trueFuse, lastCheck, switchedOff>>
debtVars == <<rebalancesDebt, rebalancesDebtDelayed, rebalancesDebtClosing>>
vars == <<poolVars, fuseVars, debtVars, phase, i, time, previousTimestamp>>

Pieces == Lo - 2 .. Hi + 2

txsTotal == IF TxLimit = 0 \/ TxLimit > TxCount THEN TxCount ELSE TxLimit

TypeOK ==
  /\ pos \in [Ranges -> Nat]
  /\ liq \in [Pieces -> Nat]
  /\ phase \in {"fill", "next", "check", "debt", "tail", "hardwork", "done", "reverted"}
  /\ i \in 0 .. TxCount
  /\ {time, previousTimestamp} \subseteq Nat
  /\ {lastFuseTimestamp, lastNSRTimestamp, timeOnFuse, trueFuse, lastCheck} \subseteq Nat
  /\ {fuse, withdrawDone, startReplayed, switchedOff} \subseteq BOOLEAN
  /\ {rebalancesDebt, rebalancesDebtDelayed, rebalancesDebtClosing} \subseteq Nat
  /\ rebalancesDebtDelayed + rebalancesDebtClosing <= rebalancesDebt

---------------------------------------------------------------------------
Least(a, b) == IF a < b THEN a ELSE b
Greatest(a, b) == IF a > b THEN a ELSE b

Width(g) == g.upper - g.lower

\* The loops over pieces stop one tick spacing before the end of the range.
LoopPieces(lower, upper) == lower .. (upper - 2)

Clipped(g) == [lower |-> Greatest(g.lower, Lo), upper |-> Least(g.upper, Hi)]

MintPieces(g) == LoopPieces(Clipped(g).lower, Clipped(g).upper)

\* parts is taken from the whole range, also where the range is clipped.
MintPerPiece(g, amount) == amount \div Width(g)

BurnPieces(g) == LoopPieces(Clipped(g).lower, Clipped(g).upper)

\* A MUTANT of BurnPerPiece: the amount is not scaled down to the clipped range.
BurnUnscaled(g, amount) ==
  IF Width(Clipped(g)) > 0 THEN amount \div Width(Clipped(g)) ELSE 0

\* Where the range is clipped the amount is scaled first, then split.
BurnPerPiece(g, amount) ==
  IF g.lower < Lo \/ g.upper > Hi
  THEN IF Width(Clipped(g)) > 0
       THEN ((amount * Width(Clipped(g))) \div Width(g)) \div Width(Clipped(g))
       ELSE 0
  ELSE amount \div Width(g)

\* pool.burn, from UniswapV3Pool and Position: more than there is underflows,
\* and nothing cannot be taken from an empty position.
Refuses(t, amount) == liq[t] < amount \/ (amount = 0 /\ liq[t] = 0)

Active(t) == SumFunction([g \in Ranges |-> IF g.lower <= t /\ t < g.upper THEN pos[g] ELSE 0])

---------------------------------------------------------------------------
Event == [kind : {"mint", "burn"}, range : Ranges, amount : Amounts]

\* The chain: a burn takes at most what its position holds.
Legal(p, e) == e.kind = "burn" => p[e.range] >= e.amount
Applied(p, e) ==
  [p EXCEPT ![e.range] = IF e.kind = "mint" THEN @ + e.amount ELSE @ - e.amount]

\* The snapshot is taken after the start block, whose transactions the
\* history holds too: their timestamp is not below that of the block.
Init ==
  /\ \E before \in [Ranges -> Amounts \cup {0}], e \in Event :
       \/ pos = before /\ startBlock = {}
       \/ Legal(before, e) /\ pos = Applied(before, e) /\ startBlock = {e}
  /\ liq = [t \in Pieces |-> 0]
  /\ phase = "fill"
  /\ i = 0
  /\ time = StartTimestamp
  /\ previousTimestamp = StartTimestamp
  /\ fuse = FALSE
  /\ withdrawDone = FALSE
  /\ timeOnFuse = 0 /\ lastFuseTimestamp = 0 /\ lastNSRTimestamp = 0
  /\ rebalancesDebt = 0 /\ rebalancesDebtDelayed = 0 /\ rebalancesDebtClosing = 0
  /\ minted = [t \in Pieces |-> 0]
  /\ startReplayed = FALSE /\ shortfall = 0
  /\ trueFuse = 0 /\ lastCheck = StartTimestamp /\ switchedOff = FALSE

\* Every tick of the snapshot with active liquidity gets a position of its own.
Fill ==
  /\ phase = "fill"
  /\ liq' = [t \in Pieces |-> IF t \in Lo .. Hi THEN Active(t) ELSE 0]
  /\ phase' = "next"
  /\ UNCHANGED <<pos, startBlock, minted, startReplayed, shortfall, fuseVars, debtVars,
                 i, time, previousTimestamp>>

\* The head of the loop over poolTxs.
TakeTx ==
  /\ phase = "next"
  /\ i < TxCount
  /\ i' = i + 1
  /\ time' \in IF i = 0 \/ startBlock # {} THEN {time} ELSE time .. time + MaxGap
  /\ UNCHANGED <<fuseVars, debtVars, previousTimestamp>>

\* The transaction is one of the start block or a new one of the chain.
Replayed(e) ==
  \/ startBlock = {e} /\ startBlock' = {} /\ UNCHANGED pos
  \/ startBlock = {} /\ Legal(pos, e) /\ pos' = Applied(pos, e) /\ UNCHANGED startBlock

ReplayMint ==
  /\ TakeTx
  /\ \E e \in Event :
       /\ e.kind = "mint"
       /\ Replayed(e)
       /\ LET per == MintPerPiece(e.range, e.amount)
              pieces == IF per > 0 THEN MintPieces(e.range) ELSE {}
          IN liq' = [t \in Pieces |-> IF t \in pieces THEN liq[t] + per ELSE liq[t]]
       /\ minted' = [t \in Pieces |->
                       IF t \in MintPieces(e.range) THEN minted[t] + 1 ELSE minted[t]]
  /\ phase' = "check"
  /\ UNCHANGED <<startReplayed, shortfall>>

\* Burns outside the snapshot, of nothing (collecting fees) and swaps of
\* nothing leave the body of the loop at once.
SkipBurn ==
  /\ TakeTx
  /\ \E e \in Event :
       /\ e.kind = "burn"
       /\ e.range.upper < Lo \/ e.range.lower > Hi
       /\ Replayed(e)
  /\ phase' = "next"
  /\ UNCHANGED <<liq, minted, startReplayed, shortfall>>

SkipEmpty ==
  /\ TakeTx
  /\ startBlock = {}
  /\ phase' = "next"
  /\ UNCHANGED poolVars

ReplayBurn ==
  /\ TakeTx
  /\ \E e \in Event :
       /\ e.kind = "burn"
       /\ ~(e.range.upper < Lo \/ e.range.lower > Hi)
       /\ startReplayed' = (startReplayed \/ startBlock = {e})
       /\ Replayed(e)
       /\ LET per == BurnPerPiece(e.range, e.amount)
              pieces == BurnPieces(e.range)
              refused == {t \in pieces : Refuses(t, per)}
          IN \/ /\ refused = {}
                /\ liq' = [t \in Pieces |-> IF t \in pieces THEN liq[t] - per ELSE liq[t]]
                /\ phase' = "check"
                /\ UNCHANGED shortfall
             \/ /\ refused # {}
                /\ shortfall' = Max({per - liq[t] - minted[t] : t \in refused})
                /\ phase' = "reverted"
                /\ UNCHANGED liq
  /\ UNCHANGED <<minted>>

ReplaySwap ==
  /\ TakeTx
  /\ startBlock = {}
  /\ phase' = "check"
  /\ UNCHANGED <<poolVars>>

---------------------------------------------------------------------------
SameSecond ==
  /\ phase = "check"
  /\ previousTimestamp = time
  /\ phase' = "tail"
  /\ UNCHANGED <<poolVars, fuseVars, debtVars, i, time, previousTimestamp>>

\* A MUTANT of LastFuseSeen: it is not forgotten when the fuse is off again.
LastFuseKept == lastFuseTimestamp

\* "No fuse trigger: continue work."
LastFuseSeen == IF fuse THEN lastFuseTimestamp ELSE 0

\* needRebalance and rebalanceNoSwaps of the strategy: a change of the fuse
\* clears withdrawDone.
StrategyRebalances ==
  \/ /\ fuse' \in BOOLEAN
     /\ withdrawDone' = (withdrawDone /\ fuse' = fuse)
     /\ lastNSRTimestamp' = time
  \/ UNCHANGED <<fuse, withdrawDone, lastNSRTimestamp>>

\* The fuse is looked at before and after the rebalance.
RebalanceAndTimeFuse ==
  /\ phase = "check"
  /\ previousTimestamp # time
  /\ StrategyRebalances
  /\ IF fuse'
     THEN /\ timeOnFuse' = timeOnFuse +
                IF LastFuseSeen > 0 /\ LastFuseSeen # time THEN time - LastFuseSeen ELSE 0
          /\ lastFuseTimestamp' = time
     ELSE /\ UNCHANGED timeOnFuse
          /\ lastFuseTimestamp' = LastFuseSeen
  /\ trueFuse' = trueFuse + IF fuse THEN time - lastCheck ELSE 0
  /\ lastCheck' = time
  /\ switchedOff' = (switchedOff \/ (fuse /\ ~fuse'))
  /\ phase' = IF RebalanceDebt THEN "debt" ELSE "tail"
  /\ UNCHANGED <<poolVars, debtVars, i, time, previousTimestamp>>

\* Why debts are reduced.  The locked percent is low, above
\* allowedLockedPercent or above forceRebalanceDebtLockedPercent as well.
Reasons(locked) ==
  (IF ~fuse /\ locked = "forced" THEN {"forced"} ELSE {}) \cup
  (IF ~fuse /\ locked # "low" /\ time - lastNSRTimestamp > DebtDelay THEN {"delayed"} ELSE {}) \cup
  (IF fuse /\ ~withdrawDone THEN {"closing"} ELSE {})

ReduceDebt ==
  /\ phase = "debt"
  /\ \E locked \in {"low", "allowed", "forced"} :
       IF Reasons(locked) # {}
       THEN /\ rebalancesDebt' = rebalancesDebt + 1
            /\ rebalancesDebtDelayed' =
                 rebalancesDebtDelayed + (IF "delayed" \in Reasons(locked) THEN 1 ELSE 0)
            /\ rebalancesDebtClosing' =
                 rebalancesDebtClosing + (IF Reasons(locked) = {"closing"} THEN 1 ELSE 0)
            /\ withdrawDone' \in (IF fuse THEN BOOLEAN ELSE {withdrawDone})
       ELSE UNCHANGED <<debtVars, withdrawDone>>
  /\ phase' = "tail"
  /\ UNCHANGED <<poolVars, fuse, timeOnFuse, lastFuseTimestamp, lastNSRTimestamp,
                 trueFuse, lastCheck, switchedOff, i, time, previousTimestamp>>

Tail ==
  /\ phase = "tail"
  /\ previousTimestamp' = time
  /\ phase' = IF i >= txsTotal THEN "hardwork" ELSE "next"
  /\ UNCHANGED <<poolVars, fuseVars, debtVars, i, time>>

EndOfList ==
  /\ phase = "next"
  /\ i = TxCount
  /\ phase' = "hardwork"
  /\ UNCHANGED <<poolVars, fuseVars, debtVars, i, time, previousTimestamp>>

\* The last hard work and the result.
HardWork ==
  /\ phase = "hardwork"
  /\ phase' = "done"
  /\ UNCHANGED <<poolVars, fuseVars, debtVars, i, time, previousTimestamp>>

Next ==
  \/ Fill
  \/ ReplayMint \/ ReplayBurn \/ ReplaySwap \/ SkipBurn \/ SkipEmpty
  \/ SameSecond \/ RebalanceAndTimeFuse \/ ReduceDebt \/ Tail
  \/ EndOfList \/ HardWork

Spec == Init /\ [][Next]_vars

---------------------------------------------------------------------------
\* PROPERTY.  A replayed burn reverts for want of liquidity only by what the
\* divisions of the mints of its pieces lost, one unit for each, or because
\* the start block is replayed on top of a snapshot that has it: clipping and
\* splitting take from a piece no more than was put there
\* (strategyBacktest.ts:76-86, 124-178).
BurnShortOnlyByRounding ==
  phase = "reverted" /\ ~startReplayed => shortfall <= 0

\* PROPERTY.  The time on fuse of the report is never more than the fuse was
\* on at the replayed seconds, and exactly that until a fuse is switched off;
\* the seconds before it is switched off are not counted (lines 221-273).
FuseTimeIsNotOverstated ==
  phase # "debt" =>
    /\ timeOnFuse <= trueFuse
    /\ ~switchedOff => timeOnFuse = trueFuse

=============================================================================
