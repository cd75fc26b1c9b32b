----------------------------- MODULE Positions ------------------------------
(***************************************************************************)
(* The amounts of a pair strategy: what is on its balance, what the pool   *)
(* holds, what it owes through TetuConverter.  Deposits, withdrawals,      *)
(* withdraw steps and rebalances are taken statement by statement: each    *)
(* swap and each borrow has an outcome the code does not choose, and a     *)
(* call that reverts gives back the amounts it began with.  Between calls  *)
(* the prices and the composition of the pool move.                        *)
(*                                                                         *)
(* Modelled are ConverterStrategyBaseLib (closing and opening positions),  *)
(* PairBasedStrategyLib (withdraw step) and BorrowLib.  The lending        *)
(* platform, the liquidator and the pool are external.                     *)
(***************************************************************************)
EXTENDS IterationPlan

CONSTANTS
  Prices,             \* pairs of prices the oracle may give
  Props,              \* proportions of the not-underlying the pool may have
  Deposits, Withdrawals, Additions,   \* amounts of the calls
  Steps,              \* plans and parameters of the withdraw steps
  RouteAmounts,       \* amounts a swap by an aggregator may be prepared for
  Slippages,          \* what a swap may lose, out of 1000
  LoanToValue,        \* percent of the collateral that can be borrowed
  Available,          \* what the lending platform may have, in cost
  DebtGap,            \* percent the converter adds to a debt
  MaxDeepRecursion,
  MaxCalls            \* bound on the calls

\* Plans and parameters of a withdraw step
StepType == [kind : {PlanSwapRepay, PlanRepaySwapRepay, PlanSwapOnly}, fromPool : BOOLEAN, prop : 0..One,
             toReduce : Nat, addition : Nat]
WithGap(d) == d + (d * DebtGap) \div 100

ASSUME PositionAssumption ==
  /\ Prices \subseteq [Tokens -> Nat \ {0}] /\ Props \subseteq 0..One
  /\ Deposits \subseteq Nat /\ Withdrawals \subseteq Nat /\ Additions \subseteq Nat
  /\ Steps \subseteq StepType
  /\ RouteAmounts \subseteq Nat
  /\ Slippages \subseteq 0..1000 /\ Available \subseteq Nat
  /\ LoanToValue \in Nat \ {0} /\ DebtGap \in Nat /\ MaxDeepRecursion \in Nat

\* The default threshold is a thousand times the dust amount; the code lets an operator
\* set any other but zero (AppLib.sol:85).
ThresholdsAreAboveDust == \A t \in Tokens : WithGap(DustAmount) <= Threshold[t]

VARIABLES balance, pool, debt, price, prop, pc, local, saved, calls
amounts == <<balance, pool, debt>>
market == <<price, prop>>
vars == <<amounts, market, pc, local, saved, calls>>

NoAmounts == [t \in Tokens |-> 0]
NoDebt == [collateral |-> 0, debt |-> 0]
\* Locals of the call under way
Blank == [base |-> NoAmounts, prop |-> 0, addition |-> 0, open |-> <<>>, plan |-> Plan(None, 0, None),
          asked |-> 0, request |-> 0, expected |-> 0, spent |-> 0, seen |-> NoAmounts,
          kind |-> None, fromPool |-> FALSE, toReduce |-> 0, toRepay |-> 0, owedBefore |-> 0, depth |-> 0]

\* debt[t] is owed in token t, under a collateral of the other token.
Owed(t) == [debt |-> WithGap(debt[t].debt),
            exact |-> debt[t].debt, collateral |-> debt[t].collateral]
OwedAll == [t \in Tokens |-> Owed(t)]

Share(t, p) == IF t = Token THEN p ELSE One - p

\* What the pool takes of the amounts offered to it.
Invested(offered) ==
  LET used == {t \in Tokens : Share(t, prop) # 0}
      cost(t) == MulDiv(offered[t] * price[t], One, Share(t, prop))
      c == CHOOSE x \in {cost(t) : t \in used} : \A t \in used : x <= cost(t)
  IN  [t \in Tokens |-> MulDiv(c, Share(t, prop), One) \div price[t]]

----------------------------------------------------------------------------
(* Calls *)

Begin(next, data) ==
  /\ pc = "ready" /\ calls < MaxCalls
  /\ calls' = calls + 1
  /\ saved' = [balance |-> balance, pool |-> pool, debt |-> debt]
  /\ pc' = next /\ local' = data
  /\ UNCHANGED market

Goto(next) == pc' = next /\ UNCHANGED <<market, saved, calls>>
Done == pc' = "idle" /\ local' = Blank /\ saved' = <<>> /\ UNCHANGED <<market, calls>>
Revert == Done /\ balance' = saved.balance /\ pool' = saved.pool /\ debt' = saved.debt

\* All the liquidity is taken out of the pool
Exited == [t \in Tokens |-> balance[t] + pool[t]]

----------------------------------------------------------------------------
(* _repayDebt, _closePosition: never more than is owed or than there is,   *)
(* and nothing below the dust amount.                                      *)

\* Mutant: the threshold of the swaps is taken for the dust amount
RepaymentAboveThreshold(b, amount) ==
  LET owed == Owed(b)
      sent == Least(Least(amount, owed.debt), balance[b])
      covered == Least(sent, owed.exact)
      freed == IF owed.exact = 0 THEN 0 ELSE MulDiv(owed.collateral, covered, owed.exact)
      closes == sent > Threshold[b]
  IN  [sent |-> sent, expected |-> freed,
       paid |-> IF closes THEN covered ELSE 0, freed |-> IF closes THEN freed ELSE 0]

Repayment(b, amount) ==
  LET owed == Owed(b)
      sent == Least(Least(amount, owed.debt), balance[b])
      covered == Least(sent, owed.exact)
      freed == IF owed.exact = 0 THEN 0 ELSE MulDiv(owed.collateral, covered, owed.exact)
      closes == sent >= DustAmount
  IN  [sent |-> sent, expected |-> freed,
       paid |-> IF closes THEN covered ELSE 0, freed |-> IF closes THEN freed ELSE 0]

Repay(b, r) ==
  /\ balance' = [balance EXCEPT ![b] = @ - r.paid, ![Other(b)] = @ + r.freed]
  /\ debt' = [debt EXCEPT ![b] = [collateral |-> @.collateral - r.freed, debt |-> @.debt - r.paid]]
  /\ UNCHANGED pool

\* The liquidator: amountIn for its worth less a slippage.
Swap(t, amount, slippage) ==
  /\ balance' = [balance EXCEPT ![t] = @ - amount,
       ![Other(t)] = @ + MulDiv(Worth(amount, t, Other(t), price), 1000 - slippage, 1000)]
  /\ UNCHANGED <<pool, debt>>

\* The platform's offer: the collateral that leaves amountIn split x:y with
\* what is borrowed, less where the platform has less to lend.
Offer(c, amountIn, x, y, available) ==
  LET collateral == MulDiv(amountIn, y * 100, y * 100 + x * LoanToValue)
      borrow == MulDiv(Worth(collateral, c, Other(c), price), LoanToValue, 100)
      most == available \div price[Other(c)]
  IN  IF borrow = 0 \/ borrow <= most THEN [collateral |-> collateral, borrow |-> borrow]
      ELSE [collateral |-> MulDiv(collateral, most, borrow), borrow |-> most]

\* openPositionEntryKind1 with one platform
Loan(c, amountIn, x, y, available) ==
  LET offer == Offer(c, amountIn, x, y, available)
      untouched == MulDiv(x, Worth(offer.borrow, Other(c), c, price), y)
      whole == offer.collateral + untouched
      fits == IF whole > amountIn
              THEN [collateral |-> MulDiv(offer.collateral, amountIn, whole), borrow |-> MulDiv(offer.borrow, amountIn, whole)]
              ELSE offer
  IN  IF amountIn <= Threshold[c] \/ fits.collateral < Threshold[c] \/ fits.borrow = 0
      THEN [collateral |-> 0, borrow |-> 0] ELSE fits

\* _openPosition is called with: collateral token, amount in, proportions x:y;
\* then the call goes on at the given place.
Opening(c, amountIn, x, y, then) == [c |-> c, amountIn |-> amountIn, x |-> x, y |-> y, then |-> then]

Borrow ==
  /\ pc = "borrow"
  /\ \E available \in Available :
       LET o == local.open
           loan == Loan(o.c, o.amountIn, o.x, o.y, available)
           b == Other(o.c)
       IN  /\ balance' = [balance EXCEPT ![o.c] = @ - loan.collateral, ![b] = @ + loan.borrow]
           /\ debt' = [debt EXCEPT ![b] = [collateral |-> @.collateral + loan.collateral, debt |-> @.debt + loan.borrow]]
           /\ Goto(o.then)
  /\ UNCHANGED <<pool, local>>

\* BorrowLib._openPosition: the part of the collateral that belongs to what is
\* already there of the other token stays untouched.
Untouched(c, has) ==
  IF has = 0 THEN 0 ELSE MulDiv(Worth(has, Other(c), c, price), Share(c, local.prop), Share(Other(c), local.prop))
OpensWrongly(c, hasC, has) == has # 0 /\ (Share(Other(c), local.prop) = 0 \/ Untouched(c, has) > hasC)
OpeningOf(c, hasC, has, then) ==
  Opening(c, hasC - Untouched(c, has), Share(c, local.prop), Share(Other(c), local.prop), then)

OpenPosition(c, hasC, has) ==
  IF OpensWrongly(c, hasC, has) THEN Revert
  ELSE /\ local' = [local EXCEPT !.open = OpeningOf(c, hasC, has, "enter")]
       /\ Goto("borrow") /\ UNCHANGED amounts

\* The profit to cover goes to the insurance; what is above the base is
\* entered to the pool, or nothing is (fuse, entryToPool).
Enter ==
  /\ pc = "enter"
  /\ LET paid == [balance EXCEPT ![Asset] = Sub0(@, local.addition)]
     IN  \E into \in {Invested([t \in Tokens |-> Sub0(paid[t], local.base[t])]), NoAmounts} :
           /\ balance' = [t \in Tokens |-> paid[t] - into[t]]
           /\ pool' = [t \in Tokens |-> pool[t] + into[t]]
  /\ UNCHANGED debt /\ Done

----------------------------------------------------------------------------
(* Deposit: prepareToDeposit *)

\* The vault's amount is on the balance when the strategy is called.
StartDeposit(amount) ==
  /\ Begin("deposit", [Blank EXCEPT !.base = balance, !.prop = prop])
  /\ balance' = [balance EXCEPT ![Asset] = @ + amount]
  /\ UNCHANGED <<pool, debt>>

\* Mutant: the debt of the other direction is looked at
RepayBeforeDepositOther ==
  /\ pc = "deposit"
  /\ IF Owed(Token).debt > Threshold[Token]
     THEN Repay(Asset, Repayment(Asset, balance[Asset] - local.base[Asset]))
     ELSE UNCHANGED amounts
  /\ Goto("depositBorrow") /\ UNCHANGED local

\* A reverse debt above the threshold is repaid with the deposit first.
RepayBeforeDeposit ==
  /\ pc = "deposit"
  /\ IF Owed(Asset).debt > Threshold[Asset]
     THEN Repay(Asset, Repayment(Asset, balance[Asset] - local.base[Asset]))
     ELSE UNCHANGED amounts
  /\ Goto("depositBorrow") /\ UNCHANGED local

\* _makeBorrowToDeposit: of the token that is above its proportion, the excess
\* is the collateral for the other one.
BorrowForDeposit ==
  LET cost == [t \in Tokens |-> Sub0(balance[t], local.base[t]) * price[t]]
      p(t) == Share(t, local.prop)
      excess(t) == cost[t] * p(Other(t)) > cost[Other(t)] * p(t)
      amountIn(t) == (cost[t] - MulDiv(cost[Other(t)], p(t), p(Other(t)))) \div price[t]
  IN  /\ pc = "depositBorrow"
      /\ \/ \E t \in Tokens : /\ excess(t)
                             /\ local' = [local EXCEPT !.open = Opening(t, amountIn(t), p(t), p(Other(t)), "enter")]
                             /\ Goto("borrow")
         \/ /\ \A t \in Tokens : ~excess(t)
            /\ Goto("enter") /\ UNCHANGED local
      /\ UNCHANGED amounts

Deposit == (\E amount \in Deposits : StartDeposit(amount)) \/ RepayBeforeDeposit \/ BorrowForDeposit

----------------------------------------------------------------------------
(* Withdrawal to the splitter: getLiquidityAmount, _makeRequestedAmount,   *)
(* _closePositionsToGetAmount                                              *)

\* Share of the pool to leave with, out of One: 1% more than the target.
LiquidityToExit(target) ==
  LET inTokens == Worth(balance[Token], Token, Asset, price)
      rest == Sub0(target, inTokens)
      total == Sub0(pool[Asset] + Worth(pool[Token], Token, Asset, price), inTokens)
  IN  IF target = NoLimit \/ total = 0 THEN One
      ELSE Least(MulDiv(One * 101, rest, total) \div 100, One)

\* 1% over what is asked for to be withdrawn, 5% over that to be on the balance.
StartWithdraw(asked) ==
  LET target == IF asked = NoLimit THEN NoLimit ELSE MulDiv(asked - balance[Asset], 101, 100)
      ratio == LiquidityToExit(target)
      out == [t \in Tokens |-> MulDiv(pool[t], ratio, One)]
      after == [t \in Tokens |-> balance[t] + out[t]]
  IN  /\ asked > balance[Asset]
      /\ balance' = after
      /\ pool' = [t \in Tokens |-> pool[t] - out[t]]
      /\ UNCHANGED debt
      /\ Begin("closing", [Blank EXCEPT !.asked = asked, !.expected = after[Asset], !.seen = after,
                 !.request = IF asked = NoLimit THEN NoLimit ELSE MulDiv(balance[Asset] + target, 105, 100)])

Reached == balance[Asset] + Threshold[Asset] > local.request

ClosePlan ==
  LET plan == BuildIterationPlan(PlanSwapRepay, local.request, 0, 0, price, balance, OwedAll)
  IN  /\ pc = "closing"
      /\ local' = [local EXCEPT !.plan = plan, !.spent = 0]
      /\ Goto(IF plan.swap # None THEN "closeSwap" ELSE IF plan.repay # None THEN "closeRepay" ELSE "closed")
      /\ UNCHANGED amounts

\* Enough of the underlying after a sale of tokens ends the closing at once.
CloseSwap ==
  LET p == local.plan
  IN  /\ pc = "closeSwap"
      /\ \E s \in Slippages : Swap(p.swap, p.amount, s)
      /\ local' = [local EXCEPT !.spent = p.amount,
           !.expected = IF p.swap = Asset THEN Sub0(@, p.amount) ELSE @ + Worth(p.amount, Token, Asset, price)]
      /\ Goto(IF p.swap = Token /\ Reached' THEN "closed" ELSE IF p.repay # None THEN "closeRepay" ELSE "closeCheck")

\* A repayment must free at least the underlying that was sold for it.
CloseRepay ==
  LET b == local.plan.repay
      r == Repayment(b, balance[b])
      counted == IF r.paid < r.sent THEN MulDiv(r.expected, r.paid, r.sent) ELSE r.expected
  IN  /\ pc = "closeRepay"
      /\ IF b = Token /\ r.expected < local.spent
         THEN Revert
         ELSE /\ Repay(b, r)
              /\ local' = [local EXCEPT !.expected = IF b = Asset THEN Sub0(@, r.sent) ELSE @ + counted]
              /\ Goto("closeCheck")

\* An iteration that changed no balance is the last one.
CloseCheck ==
  /\ pc = "closeCheck"
  /\ local' = [local EXCEPT !.seen = balance]
  /\ Goto(IF balance = local.seen THEN "closed" ELSE "closing")
  /\ UNCHANGED amounts

HandOver ==
  /\ pc = "closed"
  /\ IF local.expected < saved.balance[Asset]
     THEN Revert
     ELSE /\ balance' = [balance EXCEPT ![Asset] = Sub0(@, local.asked)]
          /\ UNCHANGED <<pool, debt>> /\ Done

Withdraw == (\E asked \in Withdrawals : StartWithdraw(asked)) \/ ClosePlan \/ CloseSwap \/ CloseRepay \/ CloseCheck \/ HandOver

----------------------------------------------------------------------------
(* withdrawByAgg: _withdrawStep of PairBasedStrategyLib *)

StartStep(s) ==
  /\ Begin("step", [Blank EXCEPT !.kind = s.kind, !.fromPool = s.fromPool, !.prop = IF s.fromPool THEN prop ELSE s.prop,
                                 !.toReduce = s.toReduce, !.addition = s.addition])
  /\ balance' = Exited /\ pool' = NoAmounts /\ UNCHANGED debt

StepPlan ==
  /\ pc = "step"
  /\ IF PlanReverts(local.kind, local.prop, price, OwedAll) THEN Revert
     ELSE /\ local' = [local EXCEPT !.plan =
               BuildIterationPlan(local.kind, NoLimit, local.prop, local.toReduce, price, balance, OwedAll)]
          /\ Goto("swap1") /\ UNCHANGED amounts

\* The liquidator swaps what the plan asks for, an aggregator what its route was built
\* for before the call.  The call names the token; the plan may want to sell the other
\* one by now.  After a swap the proportion is read from the pool again, which it may
\* have moved.
StepSwap(next) ==
  LET t == local.plan.swap
  IN  \/ Revert                               \* INCORRECT_SWAP_BY_AGG_PARAM
      \/ \E amount \in {local.plan.amount} \union RouteAmounts :
           IF amount > balance[t] THEN Revert
           ELSE /\ IF amount > Threshold[t]
                   THEN \E s \in Slippages : Swap(t, amount, s)
                   ELSE UNCHANGED amounts
                /\ prop' \in IF local.fromPool /\ amount > Threshold[t] THEN Props ELSE {prop}
                /\ local' = [local EXCEPT !.prop = IF local.fromPool THEN prop' ELSE @]
                /\ pc' = next /\ UNCHANGED <<price, saved, calls>>

Swap1 ==
  /\ pc = "swap1"
  /\ IF local.plan.swap # None /\ local.kind # PlanRepaySwapRepay
     THEN StepSwap("repay1")
     ELSE Goto("repay1") /\ UNCHANGED <<amounts, local>>

Repay1 ==
  LET b == local.plan.repay
      fixes == local.kind # PlanRepaySwapRepay /\ b = None /\ local.fromPool /\ local.prop \notin {0, One}
  IN  /\ pc = "repay1"
      /\ IF b # None THEN Repay(b, Repayment(b, balance[b])) ELSE UNCHANGED amounts
      /\ Goto(IF local.plan.swap = None THEN "enter"
              ELSE IF local.kind = PlanRepaySwapRepay THEN "swap2" ELSE IF fixes THEN "fix" ELSE "enter")
      /\ UNCHANGED local

Swap2 == pc = "swap2" /\ StepSwap(IF local.plan.repay # None THEN "repay2" ELSE "enter")

\* Borrow so that the balances come to the proportion.
BorrowToProportions(c, checked) ==
  IF checked /\ debt[c].debt >= DustAmount
  THEN Revert                          \* OPPOSITE_DEBT_EXISTS
  ELSE OpenPosition(c, balance[c], balance[Other(c)])

\* _getAmountToRepay2
BorrowsInstead(b) ==
  LET c == Other(b)
      cost == [t \in Tokens |-> balance[t] * price[t]]
  IN  /\ Owed(b).debt = 0
      /\ MulDiv(cost[c] + cost[b], Share(c, local.prop), One) - cost[c] > Threshold[c] * price[c]
AmountToRepay2(b) ==
  LET c == Other(b)
      x == Share(c, local.prop)
      y == Share(b, local.prop)
      alpha == MulDiv(price[c], One, price[b])
      excess == x * balance[b] * price[b] - y * balance[c] * price[c]
      perUnit == MulDiv(y * alpha, Owed(b).collateral, Owed(b).debt) \div One + x
  IN  IF Owed(b).debt = 0 \/ excess <= 0 THEN 0 ELSE (excess \div perUnit) \div price[b]

Repay2 ==
  LET b == local.plan.repay
  IN  /\ pc = "repay2"
      /\ IF BorrowsInstead(b) THEN BorrowToProportions(b, TRUE)
         ELSE IF AmountToRepay2(b) > Threshold[b]
         THEN /\ local' = [local EXCEPT !.toRepay = AmountToRepay2(b), !.owedBefore = NoLimit]
              /\ Goto("secondRepay") /\ UNCHANGED amounts
         ELSE Goto("enter") /\ UNCHANGED <<amounts, local>>

\* Mutant: it is not looked whether the debt goes down
SecondRepayBlind ==
  LET b == local.plan.repay
      r == Repayment(b, local.toRepay)
      missing == Sub0(local.toRepay, r.paid)
  IN  /\ pc = "secondRepay"
      /\ Repay(b, r)
      /\ local' = [local EXCEPT !.toRepay = missing]
      /\ Goto(IF missing <= Threshold[b] THEN "enter" ELSE "secondRepay")

\* Again, as long as much is missing and the debt goes down; then a borrow.
SecondRepay ==
  LET b == local.plan.repay
      r == Repayment(b, local.toRepay)
      missing == Sub0(local.toRepay, r.paid)
  IN  /\ pc = "secondRepay"
      /\ Repay(b, r)
      /\ LET owed == WithGap(debt[b].debt - r.paid)
         IN  IF missing <= Threshold[b] THEN Goto("enter") /\ UNCHANGED local
             ELSE IF owed > Threshold[b] /\ (local.owedBefore = NoLimit \/ owed < local.owedBefore)
             THEN /\ local' = [local EXCEPT !.toRepay = missing, !.owedBefore = owed]
                  /\ Goto("secondRepay")
             ELSE Goto("reborrow") /\ UNCHANGED local

Reborrow == pc = "reborrow" /\ BorrowToProportions(local.plan.repay, FALSE)

\* _fixLeftoversProportions measures both excesses with the underlying's threshold.
FixLeftovers ==
  LET target == TargetAmounts(price, balance, local.prop)
      c == IF balance[Asset] > target[Asset] THEN Asset ELSE Token
  IN  /\ pc = "fix"
      /\ IF balance[c] - target[c] > Threshold[Asset]
         THEN BorrowToProportions(c, TRUE)
         ELSE Goto("enter") /\ UNCHANGED <<amounts, local>>

WithdrawStep ==
  \/ \E s \in Steps : StartStep(s)
  \/ StepPlan \/ Swap1 \/ Repay1 \/ Swap2 \/ Repay2 \/ SecondRepay \/ Reborrow \/ FixLeftovers

----------------------------------------------------------------------------
(* rebalanceNoSwaps: BorrowLib.rebalanceAssets *)

StartRebalance(p, addition) ==
  /\ p \notin {0, One}
  /\ pc = "ready" /\ calls < MaxCalls
  /\ calls' = calls + 1 /\ saved' = [balance |-> balance, pool |-> pool, debt |-> debt]
  /\ pc' = "rebalance" /\ prop' = p /\ UNCHANGED price
  /\ local' = [Blank EXCEPT !.prop = p, !.addition = addition, !.depth = MaxDeepRecursion]
  /\ balance' = Exited /\ pool' = NoAmounts /\ UNCHANGED debt

\* A little of the token is swapped when the underlying does not even reach
\* the profit to cover; then the rest is allocated.
OpenWithAddition(c) ==
  LET add == local.addition
      short == Worth(Sub0(add, balance[Asset]), Asset, Token, price)
      toSwap == short + MulDiv(short, 3, 1000)
  IN  IF add = 0 THEN OpenPosition(c, balance[c], balance[Other(c)])
      ELSE IF c = Asset
      THEN IF balance[Asset] < add THEN Revert ELSE OpenPosition(Asset, balance[Asset] - add, balance[Token])
      ELSE IF balance[Asset] >= add THEN OpenPosition(Token, balance[Token], balance[Asset] - add)
      ELSE IF balance[Token] <= toSwap THEN Revert
      ELSE IF toSwap <= Threshold[Token] THEN OpenPosition(Token, balance[Token], balance[Asset])
      ELSE IF OpensWrongly(Token, balance[Token] - toSwap, balance[Asset]) THEN Revert
      ELSE /\ \E s \in Slippages : Swap(Token, toSwap, s)
           /\ local' = [local EXCEPT !.open = OpeningOf(Token, balance[Token] - toSwap, balance[Asset], "enter")]
           /\ Goto("borrow")

\* The token there is too much of
CostNow == [t \in Tokens |-> balance[t] * price[t]]
CostRequired ==
  LET reserved == local.addition * price[Asset]
      total == CostNow[Asset] + CostNow[Token] - reserved
  IN  [t \in Tokens |-> MulDiv(total, Share(t, local.prop), One) + (IF t = Asset THEN reserved ELSE 0)]

\* What is owed in that token is repaid before the other token is borrowed.
RebalanceAssets ==
  LET c == IF CostRequired[Asset] > CostNow[Asset] THEN Token ELSE Asset
      b == Other(c)
      required == (CostRequired[b] - CostNow[b]) \div price[b]
      toRepay == Least(Worth(required, b, c, price), Owed(c).debt)
  IN  /\ pc = "rebalance"
      /\ IF \/ CostNow[Asset] + CostNow[Token] <= local.addition * price[Asset]
            \/ CostRequired[Asset] = CostNow[Asset]
         THEN Goto("enter") /\ UNCHANGED <<amounts, local>>
         ELSE IF Owed(c).debt < DustAmount THEN OpenWithAddition(c)
         ELSE IF local.depth = 0 THEN Revert
         ELSE IF toRepay < DustAmount THEN Goto("enter") /\ UNCHANGED <<amounts, local>>
         ELSE /\ Repay(c, Repayment(c, toRepay))
              /\ local' = [local EXCEPT !.depth = @ - 1]
              /\ Goto("rebalance")

Rebalance == (\E p \in Props, addition \in Additions : StartRebalance(p, addition)) \/ RebalanceAssets
----------------------------------------------------------------------------
(* Between two calls the market moves: new prices, and the pool's amounts  *)
(* at a new proportion - or the same ones again.                           *)
MarketMoves ==
  /\ pc = "idle" /\ calls < MaxCalls /\ pc' = "ready"
  /\ price' \in Prices /\ prop' \in Props
  /\ pool' = LET cost == pool[Asset] * price'[Asset] + pool[Token] * price'[Token]
             IN  [t \in Tokens |-> MulDiv(cost, Share(t, prop'), One) \div price'[t]]
  /\ UNCHANGED <<balance, debt, local, saved, calls>>

Init ==
  /\ balance = NoAmounts /\ pool = NoAmounts /\ debt = [t \in Tokens |-> NoDebt]
  /\ price \in Prices /\ prop \in Props
  /\ pc = "idle" /\ local = Blank /\ saved = <<>> /\ calls = 0

Work == Deposit \/ Withdraw \/ WithdrawStep \/ Rebalance \/ Borrow \/ Enter
Next == Work \/ MarketMoves
\* A transaction runs to its end.
Spec == Init /\ [][Next]_vars /\ WF_vars(pc \notin {"idle", "ready"} /\ Work)

----------------------------------------------------------------------------
(* Properties *)

\* Each call comes to its end: the loop that closes positions and the second
\* repayments of a withdraw step cannot go round for ever, whatever the swaps
\* return and the converter lends (L1:1135 do..while, PBL:472 _secondRepay).
CallEnds == []<>(pc \in {"idle", "ready"})

\* Between calls the strategy never owes in both directions above the
\* thresholds: what prepareToDeposit assumes holds after any sequence of
\* deposits, withdrawals, steps and rebalances (BL:168).
OneDirection == pc = "idle" => \E t \in Tokens : debt[t].debt <= Threshold[t]

\* What is asked for and not yet there, in the collateral of the debt in b
MissingFor(b) ==
  LET missing == IF local.request = NoLimit THEN NoLimit ELSE Sub0(local.request, balance[Asset])
  IN  IF b = Token \/ missing = NoLimit THEN missing ELSE Worth(missing, Asset, Token, price)

NothingOwed == \A t \in Tokens : Owed(t).debt < DustAmount

\* Of the token under which b is borrowed there is too little for a swap, or selling it
\* for b comes to nothing: the debt is worth more than its collateral, or less than a unit.
NothingToSell(b) ==
  LET c == Other(b)
  IN  balance[c] <= Threshold[c] \/ AmountToSell(MissingFor(b), Owed(b), c, price, balance[b]) = 0

\* There is nothing to repay the next debt in line with, and nothing to sell for it.
Stuck == balance[OwedFirst(OwedAll)] < DustAmount /\ NothingToSell(OwedFirst(OwedAll))

\* The last repayment gave back exactly what was sold for it: the debt is smaller than it
\* was, and the balances are what they were.
SaleCancelled ==
  LET b == local.plan.repay
  IN  local.plan.swap # None /\ b # None /\ debt[b].debt < saved.debt[b].debt

\* The loop that closes positions ends with less than requested only when there is no debt
\* left whose repayment would free more, or no means to repay it: no token that could be
\* sold or repaid with is left idle (L1:1135, IPL PLAN_SWAP_REPAY).
ShortOnlyWhenStuck ==
  pc = "closed" /\ ~Reached => NothingOwed \/ Stuck \/ SaleCancelled

\* A withdrawal ends with all debts closed, or with something on the balance
\* or in the pool to pay them off: so the doc of _makeRequestedAmount (CSB:260).
CanPay == (\A t \in Tokens : debt[t].debt < DustAmount) \/ \E t \in Tokens : balance[t] + pool[t] > 0
WithdrawalLeavesMeans == [][pc = "closed" => CanPay']_vars

\* The 5% asked for on top of the request do leave them when they are worth
\* the threshold, below which the loop takes a request for reached: a strategy
\* that had more than a threshold in balance and pool, and whose positions are
\* healthy at the end (each collateral is worth more than its debt, at the precision
\* a plan computes their ratio with), keeps something.
HadMeans == \E t \in Tokens : saved.balance[t] + saved.pool[t] > Threshold[t]
Health(t) == MulDiv(MulDiv(price[Other(t)], One, price[t]), debt[t].collateral, Owed(t).debt)
AllWorthy == \A t \in Tokens : debt[t].debt = 0 \/ Health(t) > One
GapIsWorth == local.request = NoLimit \/ local.request - MulDiv(local.request, 100, 105) >= Threshold[Asset]
GapLeavesMeans == [][pc = "closed" /\ GapIsWorth /\ HadMeans /\ AllWorthy => CanPay']_vars
=============================================================================
