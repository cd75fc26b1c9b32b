-------------------------- MODULE PositionsProofs ---------------------------
(***************************************************************************)
(* Proofs about IterationPlan and Positions, for any prices, proportions,  *)
(* balances and debts, any outcome of the swaps and any answer of the      *)
(* lending platform.                                                       *)
(*                                                                         *)
(* A plan can be carried out.  The code checks it late - the step reverts  *)
(* when it comes to a swap of more than there is                           *)
(* (PairBasedStrategyLib._withdrawStep), the liquidator when it comes to a *)
(* transfer of it - or not at all.                                         *)
(*                                                                         *)
(* The calls move only what is there: IInv, inductive, is the types of the *)
(* variables with what a call has found out at each of its places.         *)
(*                                                                         *)
(* Debts stay in one direction: Directed, inductive together with IInv, says *)
(* it with the gap the converter adds to a debt, of the amounts a call began *)
(* with too, and of what the calls have repaid before they borrow.         *)
(*                                                                         *)
(* The loop that closes positions: Closing, inductive together with IInv,  *)
(* is what the loop knows at each of its places; from it follow how the    *)
(* loop can end and, with a measure of what is left to do, that every step *)
(* of a call comes nearer to the end of it.                                *)
(***************************************************************************)
EXTENDS Positions, TLAPS

Amounts == [Tokens -> Nat]
PriceTable == [Tokens -> Nat \ {0}]
DebtType == [debt : Nat, exact : Nat, collateral : Nat]

PlanType == [swap : Tokens \union {None}, amount : Int, repay : Tokens \union {None}]

\* A debt that is repaid has an amount without the gap, too.
IsOwed(d) == d.debt > 0 /\ d.exact > 0

-----------------------------------------------------------------------------
(* Division *)

LEMMA DivBelow ==
  ASSUME NEW n \in Int, NEW d \in Nat \ {0}, NEW k \in Int, n <= k * d
  PROVE  n \div d \in Int /\ n \div d <= k
<1> DEFINE q == n \div d
<1>1. q \in Int /\ q * d <= n
  OBVIOUS
<1> HIDE DEF q
<1>2. q * d <= k * d
  BY <1>1
<1>3. q <= k
  BY <1>1, <1>2
<1>. QED BY <1>1, <1>3 DEF q

LEMMA DivIsNat ==
  ASSUME NEW n \in Nat, NEW d \in Nat \ {0}
  PROVE  n \div d \in Nat
  OBVIOUS

LEMMA MulDivIsNat ==
  ASSUME NEW a \in Nat, NEW b \in Nat, NEW c \in Nat \ {0}
  PROVE  MulDiv(a, b, c) \in Nat
<1>1. a * b \in Nat
  OBVIOUS
<1>. QED BY <1>1, DivIsNat DEF MulDiv

\* A part of an amount is not more than the amount.
LEMMA PartIsLess ==
  ASSUME NEW a \in Nat, NEW b \in Nat, NEW c \in Nat \ {0}, b <= c
  PROVE  MulDiv(a, b, c) \in Nat /\ MulDiv(a, b, c) <= a
<1>1. a * b \in Nat /\ a * b <= a * c
  OBVIOUS
<1>. QED BY <1>1, DivBelow, MulDivIsNat DEF MulDiv

LEMMA LeastOf ==
  ASSUME NEW a \in Int, NEW b \in Int
  PROVE  Least(a, b) \in {a, b} /\ Least(a, b) <= a /\ Least(a, b) <= b
  BY DEF Least

-----------------------------------------------------------------------------
(* Selling what is above its share *)

LEMMA TargetsAreNat ==
  ASSUME NEW prices \in PriceTable, NEW held \in Amounts, NEW share \in 0..One
  PROVE  TargetAmounts(prices, held, share) \in Amounts
<1> DEFINE cost == held[Asset] * prices[Asset] + held[Token] * prices[Token]
           tokens == MulDiv(cost, share, One)
<1>1. Asset \in Tokens /\ Token \in Tokens
  BY DEF Tokens
<1>2. held[Asset] \in Nat /\ held[Token] \in Nat /\ prices[Asset] \in Nat \ {0} /\ prices[Token] \in Nat \ {0}
  BY <1>1 DEF Amounts, PriceTable
<1>3. held[Asset] * prices[Asset] \in Nat /\ held[Token] * prices[Token] \in Nat
  BY <1>2
<1>4. cost \in Nat
  BY <1>3
<1>5. One \in Nat \ {0} /\ share \in Nat /\ share <= One
  BY PlanAssumption DEF PlanAssumption
<1> HIDE DEF cost
<1>6. tokens \in Nat /\ tokens <= cost
  BY <1>4, <1>5, PartIsLess
<1> HIDE DEF tokens
<1>7. cost - tokens \in Nat
  BY <1>4, <1>6
<1>8. tokens \div prices[Token] \in Nat /\ (cost - tokens) \div prices[Asset] \in Nat
  BY <1>2, <1>6, <1>7, DivIsNat
<1>9. TargetAmounts(prices, held, share) =
        [t \in Tokens |-> IF t = Token THEN tokens \div prices[Token] ELSE (cost - tokens) \div prices[Asset]]
  BY DEF TargetAmounts, cost, tokens
<1>. QED BY <1>8, <1>9 DEF Amounts

\* THEOREM.  Leftovers are sold out of what is there, and only when it is
\* worth a swap (IterationPlanLib.sol, PLAN_SWAP_ONLY and after the debts).
THEOREM LeftoversAreThere ==
  ASSUME NEW prices \in PriceTable, NEW held \in Amounts, NEW share \in 0..One,
         NEW p, p = PlanForLeftovers(prices, held, share)
  PROVE  /\ p \in PlanType /\ p.repay = None
         /\ p.swap # None => Threshold[p.swap] < p.amount /\ p.amount <= held[p.swap]
<1> DEFINE target == TargetAmounts(prices, held, share)
           sold == IF held[Asset] < target[Asset] THEN Token ELSE Asset
           excess == held[sold] - target[sold]
<1>1. target \in Amounts
  BY TargetsAreNat
<1>2. sold \in Tokens
  BY DEF Tokens
<1>3. p = IF excess > Threshold[sold] THEN Plan(sold, excess, None) ELSE Plan(None, 0, None)
  BY DEF PlanForLeftovers
<1> HIDE DEF target
<1> HIDE DEF sold
<1>4. excess \in Int /\ excess <= held[sold] /\ Threshold[sold] \in Nat
  BY <1>1, <1>2, PlanAssumption DEF Amounts, PlanAssumption
<1> HIDE DEF excess
<1>5. CASE excess > Threshold[sold]
  <2>1. p = [swap |-> sold, amount |-> excess, repay |-> None]
    BY <1>3, <1>5 DEF Plan
  <2>. QED BY <1>2, <1>4, <1>5, <2>1 DEF PlanType
<1>6. CASE ~(excess > Threshold[sold])
  <2>1. p = [swap |-> None, amount |-> 0, repay |-> None]
    BY <1>3, <1>6 DEF Plan
  <2>. QED BY <2>1 DEF PlanType
<1>. QED BY <1>5, <1>6

-----------------------------------------------------------------------------
(* Selling collateral to repay *)

LEMMA AmountToSellIsInt ==
  ASSUME NEW prices \in PriceTable, NEW d \in DebtType, IsOwed(d), NEW c \in Tokens,
         NEW requested \in Nat, NEW has \in Nat
  PROVE  AmountToSell(requested, d, c, prices, has) \in Int
<1> DEFINE paid == Least(has, d.debt)
           part == MulDiv(d.collateral, paid, d.debt)
           collateral == d.collateral - part
           rest == d.debt - paid
           alpha == MulDiv(prices[c], One, prices[Other(c)])
           health == MulDiv(alpha, collateral, rest)
           amount == MulDiv(Least(requested, collateral), One, health - One)
           sale == MulDiv(101, Least(amount, MulDiv(rest, One, alpha)), 100)
<1>1. d.debt \in Nat \ {0} /\ d.collateral \in Nat
  BY DEF DebtType, IsOwed
<1>2. paid \in Nat /\ paid <= d.debt
  BY <1>1 DEF Least
<1>3. Other(c) \in Tokens
  BY DEF Other, Tokens
<1>4. prices[c] \in Nat \ {0} /\ prices[Other(c)] \in Nat \ {0} /\ One \in Nat \ {0}
  BY <1>3, PlanAssumption DEF PriceTable, PlanAssumption
<1>5. AmountToSell(requested, d, c, prices, has) = IF rest = 0 \/ health <= One THEN 0 ELSE sale
  BY DEF AmountToSell
<1> HIDE DEF paid
<1>6. part \in Nat /\ part <= d.collateral
  BY <1>1, <1>2, PartIsLess
<1> HIDE DEF part
<1>7. collateral \in Nat /\ rest \in Nat
  BY <1>1, <1>2, <1>6
<1>8. alpha \in Nat
  BY <1>4, MulDivIsNat
<1> HIDE DEF alpha, collateral, rest
<1>9. CASE rest = 0 \/ health <= One
  BY <1>5, <1>9
<1>10. CASE ~(rest = 0 \/ health <= One)
  <2>1. rest \in Nat \ {0}
    BY <1>7, <1>10
  <2>2. health \in Nat
    BY <1>7, <1>8, <2>1, MulDivIsNat
  <2>3. health > One
    BY <2>2, <1>4, <1>10
  <2>4. alpha # 0
    <3> SUFFICES ASSUME alpha = 0 PROVE FALSE
      OBVIOUS
    <3>1. 0 * collateral = 0 /\ 0 \div rest = 0
      BY <1>7, <2>1
    <3>2. health = 0
      BY <3>1 DEF MulDiv
    <3>. QED BY <3>2, <2>3, <1>4
  <2> HIDE DEF health
  <2>5. health - One \in Nat \ {0}
    BY <2>2, <2>3, <1>4
  <2>6. Least(requested, collateral) \in Nat
    BY <1>7 DEF Least
  <2>7. amount \in Nat
    BY <2>5, <2>6, <1>4, MulDivIsNat
  <2> HIDE DEF amount
  <2>8. MulDiv(rest, One, alpha) \in Nat
    BY <1>4, <1>8, <2>1, <2>4, MulDivIsNat
  <2>9. Least(amount, MulDiv(rest, One, alpha)) \in Nat
    BY <2>7, <2>8, LeastOf
  <2>10. sale \in Nat
    BY <2>9, MulDivIsNat
  <2>. QED BY <1>5, <1>10, <2>10
<1>. QED BY <1>9, <1>10

\* THEOREM.  The collateral sold to repay its debt is there and worth a swap,
\* and it is never the token that is owed (IterationPlanLib.sol,
\* PLAN_SWAP_REPAY): a step does not sell what it needs to repay.
THEOREM SaleIsThere ==
  ASSUME NEW prices \in PriceTable, NEW held \in Amounts, NEW d \in DebtType, IsOwed(d),
         NEW c \in Tokens, NEW requested \in Nat,
         NEW p, p = PlanForSellAndRepay(requested, d, c, prices, held)
  PROVE  /\ p \in PlanType /\ p.repay = Other(c)
         /\ p.swap # None =>
              p.swap = c /\ c # Other(c) /\ Threshold[c] < p.amount /\ p.amount <= held[c]
<1> DEFINE b == Other(c)
           s == AmountToSell(requested, d, c, prices, held[b])
           toSell == Least(s, held[c])
           amount == IF toSell > Threshold[c] THEN toSell ELSE Threshold[c] + 1
<1>1. b \in Tokens /\ b # c
  BY DEF Other, Tokens, Asset, Token
<1>2. held[c] \in Nat /\ held[b] \in Nat /\ Threshold[c] \in Nat
  BY <1>1, PlanAssumption DEF Amounts, PlanAssumption
<1>3. s \in Int
  BY <1>2, AmountToSellIsInt
<1>4. p = IF toSell # 0 /\ held[c] >= amount THEN Plan(c, amount, b) ELSE Plan(None, 0, b)
  BY DEF PlanForSellAndRepay
<1> HIDE DEF s
<1>5. toSell \in Int /\ toSell <= held[c]
  BY <1>2, <1>3, LeastOf
<1> HIDE DEF toSell
<1>6. amount \in Int /\ amount > Threshold[c]
  BY <1>2, <1>5
<1> HIDE DEF amount
<1>7. CASE toSell # 0 /\ held[c] >= amount
  <2>1. p = [swap |-> c, amount |-> amount, repay |-> b]
    BY <1>4, <1>7 DEF Plan
  <2>. QED BY <1>1, <1>2, <1>6, <1>7, <2>1 DEF PlanType
<1>8. CASE ~(toSell # 0 /\ held[c] >= amount)
  <2>1. p = [swap |-> None, amount |-> 0, repay |-> b]
    BY <1>4, <1>8 DEF Plan
  <2>. QED BY <1>1, <2>1 DEF PlanType
<1>. QED BY <1>7, <1>8

-----------------------------------------------------------------------------
(* Repaying with what is there first *)

\* Of costs weighed against one another, the excess is not more than the cost.
LEMMA ExcessIsPart ==
  ASSUME NEW x \in Nat, NEW y \in Nat, x + y = One, NEW costs \in Nat, NEW others \in Nat,
         NEW unit \in Nat \ {0}, NEW k \in Nat, costs = k * unit
  PROVE  /\ ((x * costs - y * others) \div (x + y)) \div unit \in Int
         /\ ((x * costs - y * others) \div (x + y)) \div unit <= k
<1>1. One \in Nat \ {0}
  BY PlanAssumption DEF PlanAssumption
<1>2. x * costs \in Nat /\ y * others \in Nat /\ y * costs \in Nat
  OBVIOUS
<1>3. costs * One = x * costs + y * costs
  OBVIOUS
<1>4. x * costs - y * others \in Int /\ x * costs - y * others <= costs * One
  BY <1>2, <1>3
<1> DEFINE n == x * costs - y * others
           q == n \div One
<1> HIDE DEF n
<1>5. n \in Int /\ n <= costs * One
  BY <1>4 DEF n
<1>6. q \in Int /\ q <= costs
  BY <1>1, <1>5, DivBelow
<1> HIDE DEF q
<1>7. q \in Int /\ q <= k * unit
  BY <1>6
<1>8. q \div unit \in Int /\ q \div unit <= k
  BY <1>7, DivBelow
<1>. QED BY <1>8 DEF n, q

\* The estimate does not divide by zero: the code takes a share of the pool for
\* token a, or a debt that is worth something of its collateral.
SharesAreDefined(prices, a, propB, d) == propB < One \/ PerDebt(prices, a, d) > 0

LEMMA EstimateIsThere ==
  ASSUME NEW prices \in PriceTable, NEW held \in Amounts, NEW a \in Tokens, NEW propB \in 0..One,
         NEW d \in DebtType, IsOwed(d), SharesAreDefined(prices, a, propB, d),
         NEW collateral \in Nat, NEW repaid \in Nat, repaid <= held[Other(a)],
         NEW e, e = EstimateSwapAmount(prices, held, a, propB, d, collateral, repaid)
  PROVE  /\ e.amount \in Int
         /\ e.swapB => e.amount <= held[Other(a)] - repaid
         /\ ~e.swapB => e.amount <= held[a] + collateral
<1> DEFINE b == Other(a)
           x == One - propB
           y == propB
           hasA == held[a] + collateral
           hasB == held[b] - repaid
           costA == hasA * prices[a]
           costB == hasB * prices[b]
           costDebt == (d.debt - repaid) * prices[b]
           alpha == PerDebt(prices, a, d)
           secondRepay == MulDiv(x, costB + costA, MulDiv(y, alpha, One) + x)
           most == secondRepay <= costDebt
           swapB == secondRepay > costDebt /\ y * costA < x * costB
           cost == IF most THEN costA ELSE (IF swapB THEN x * costB - y * costA ELSE y * costA - x * costB) \div (x + y)
<1>1. b \in Tokens
  BY DEF Other, Tokens
<1>2. hasA \in Nat /\ hasB \in Nat /\ prices[a] \in Nat \ {0} /\ prices[b] \in Nat \ {0}
  BY <1>1 DEF Amounts, PriceTable
<1>3. x \in Nat /\ y \in Nat /\ x + y = One
  BY PlanAssumption DEF PlanAssumption
<1>4. e = [swapB |-> swapB, amount |-> cost \div prices[IF swapB THEN b ELSE a]]
  BY DEF EstimateSwapAmount, PerDebt
<1>5. swapB \in BOOLEAN
  OBVIOUS
<1> HIDE DEF hasA, hasB
<1>6. costA \in Nat /\ costB \in Nat
  BY <1>2
<1>7. alpha \in Nat
  <2>1. One * d.collateral \in Nat /\ d.debt \in Nat \ {0}
    BY PlanAssumption DEF PlanAssumption, DebtType, IsOwed
  <2>2. MulDiv(One * d.collateral, prices[a], prices[b]) \in Nat
    BY <1>2, <2>1, MulDivIsNat
  <2>. QED BY <2>1, <2>2, DivIsNat DEF PerDebt
<1>8. MulDiv(y, alpha, One) + x \in Nat \ {0}
  <2>1. One \in Nat \ {0}
    BY PlanAssumption DEF PlanAssumption
  <2>2. MulDiv(y, alpha, One) \in Nat
    BY <1>3, <1>7, <2>1, MulDivIsNat
  <2>3. CASE x > 0
    BY <1>3, <2>2, <2>3
  <2>4. CASE x = 0
    <3>1. y = One /\ alpha > 0
      BY <1>3, <2>4 DEF SharesAreDefined
    <3>2. (One * alpha) \div One = alpha
      BY <2>1, <1>7
    <3>3. MulDiv(y, alpha, One) = alpha
      BY <3>1, <3>2 DEF MulDiv
    <3>. QED BY <1>7, <2>4, <3>1, <3>3
  <2>. QED BY <1>3, <2>3, <2>4
<1>9. secondRepay \in Int
  <2>1. costB + costA \in Nat
    BY <1>6
  <2>. QED BY <1>3, <1>8, <2>1, MulDivIsNat
<1>10. costDebt \in Int
  <2>1. d.debt - repaid \in Int
    BY DEF DebtType
  <2>. QED BY <1>2, <2>1
<1> HIDE DEF x, y, costDebt, secondRepay
<1>11. swapB => ~most
  BY <1>9, <1>10
<1>12. (e.swapB <=> swapB) /\ e.amount = cost \div prices[IF swapB THEN b ELSE a]
  <2> HIDE DEF swapB, cost
  <2> DEFINE v == cost \div prices[IF swapB THEN b ELSE a]
  <2>1. e = [swapB |-> swapB, amount |-> v]
    BY <1>4
  <2> HIDE DEF v
  <2>2. e.amount = v
    BY <2>1
  <2>3. CASE swapB
    <3>1. swapB = TRUE
      BY <2>3
    <3>2. e = [swapB |-> TRUE, amount |-> v]
      BY <2>1, <3>1
    <3>. QED BY <2>2, <2>3, <3>2 DEF v
  <2>4. CASE ~swapB
    <3>1. swapB = FALSE
      BY <2>4, <1>5
    <3>2. e = [swapB |-> FALSE, amount |-> v]
      BY <2>1, <3>1
    <3>. QED BY <2>2, <2>4, <3>2 DEF v
  <2>. QED BY <2>3, <2>4
<1>13. CASE most
  <2>1. ~swapB /\ cost = costA
    BY <1>11, <1>13
  <2>2. e.amount = costA \div prices[a] /\ ~e.swapB
    <3> HIDE DEF swapB, cost
    <3>. QED BY <1>12, <2>1
  <2>3. costA \div prices[a] \in Int /\ costA \div prices[a] <= hasA
    BY <1>2, <1>6, DivBelow
  <2>. QED BY <2>2, <2>3 DEF hasA
<1>14. CASE ~most /\ swapB
  <2>1. e.amount = ((x * costB - y * costA) \div (x + y)) \div prices[b] /\ e.swapB
    <3>1. cost = (x * costB - y * costA) \div (x + y)
      BY <1>14
    <3> HIDE DEF swapB, cost
    <3>. QED BY <1>14, <1>12, <3>1
  <2>2. ((x * costB - y * costA) \div (x + y)) \div prices[b] \in Int
        /\ ((x * costB - y * costA) \div (x + y)) \div prices[b] <= hasB
    BY <1>2, <1>3, <1>6, ExcessIsPart
  <2>. QED BY <2>1, <2>2 DEF hasB
<1>15. CASE ~most /\ ~swapB
  <2>1. e.amount = ((y * costA - x * costB) \div (x + y)) \div prices[a] /\ ~e.swapB
    <3>1. cost = (y * costA - x * costB) \div (x + y)
      BY <1>15
    <3> HIDE DEF swapB, cost
    <3>. QED BY <1>15, <1>12, <3>1
  <2>2. ((y * costA - x * costB) \div (y + x)) \div prices[a] \in Int
        /\ ((y * costA - x * costB) \div (y + x)) \div prices[a] <= hasA
    <3>1. y + x = One
      BY <1>3
    <3>. QED BY <1>2, <1>3, <1>6, <3>1, ExcessIsPart
  <2>3. x + y = y + x
    BY <1>3
  <2>. QED BY <2>1, <2>2, <2>3 DEF hasA
<1>. QED BY <1>13, <1>14, <1>15

\* What the first repayment takes of token b, and frees of its collateral.
FirstRepaid(d, has) == IF Least(has, d.debt) >= DustAmount THEN Least(has, d.debt) ELSE 0
Freed(d, has) == MulDiv(d.collateral, Least(FirstRepaid(d, has), d.exact), d.exact)

\* THEOREM.  What a step swaps between its two repayments is there after the
\* first one: of the collateral what was there and what is freed, of the token
\* that is owed what the repayment left (PLAN_REPAY_SWAP_REPAY).
THEOREM SwapBetweenIsThere ==
  ASSUME NEW prices \in PriceTable, NEW held \in Amounts, NEW a \in Tokens, NEW propB \in 0..One,
         NEW d \in DebtType, IsOwed(d), SharesAreDefined(prices, a, propB, d), NEW toReduce \in Nat,
         NEW p, p = PlanRepaySwapRepayOf(d, a, propB, prices, held, toReduce)
  PROVE  /\ p \in PlanType /\ p.repay = Other(a)
         /\ \/ p.swap = a /\ p.amount <= held[a] + Freed(d, held[Other(a)])
            \/ p.swap = Other(a) /\ p.amount <= held[Other(a)] - FirstRepaid(d, held[Other(a)])
<1> DEFINE b == Other(a)
           repaid == FirstRepaid(d, held[b])
           collateral == Freed(d, held[b])
           estimate == EstimateSwapAmount(prices, held, a, propB, d, collateral, repaid)
           required == Worth(toReduce, b, a, prices)
           raised == IF estimate.amount > required THEN estimate.amount ELSE required
           sold == IF toReduce = 0 THEN estimate.amount ELSE Least(raised, held[a] + collateral)
<1>1. b \in Tokens
  BY DEF Other, Tokens
<1>2. held[a] \in Nat /\ held[b] \in Nat /\ d.debt \in Nat \ {0} /\ d.exact \in Nat \ {0} /\ d.collateral \in Nat
      /\ prices[a] \in Nat \ {0} /\ prices[b] \in Nat \ {0}
  BY <1>1 DEF Amounts, DebtType, IsOwed, PriceTable
<1>3. repaid \in Nat /\ repaid <= held[b]
  BY <1>2 DEF FirstRepaid, Least
<1>4. p = IF estimate.swapB THEN Plan(b, estimate.amount, b) ELSE Plan(a, sold, b)
  BY DEF PlanRepaySwapRepayOf, FirstRepaid, Freed
<1>5. collateral \in Nat
  <2> HIDE DEF repaid
  <2> DEFINE covered == Least(repaid, d.exact)
  <2>1. covered \in Nat
    BY <1>2, <1>3 DEF Least
  <2> HIDE DEF covered
  <2>2. MulDiv(d.collateral, covered, d.exact) \in Nat
    BY <1>2, <2>1, MulDivIsNat
  <2>. QED BY <2>2 DEF Freed, covered, repaid
<1> HIDE DEF repaid, collateral
<1>6. /\ estimate.amount \in Int
      /\ estimate.swapB => estimate.amount <= held[b] - repaid
      /\ ~estimate.swapB => estimate.amount <= held[a] + collateral
  BY <1>3, <1>5, EstimateIsThere
<1>7. required \in Nat
  BY <1>2, MulDivIsNat DEF Worth
<1> HIDE DEF estimate, required
<1>8. raised \in Int
  BY <1>6, <1>7
<1> HIDE DEF raised
<1>9. sold \in Int /\ (~estimate.swapB => sold <= held[a] + collateral)
  BY <1>2, <1>5, <1>6, <1>8, LeastOf
<1> HIDE DEF sold
<1>10. CASE estimate.swapB
  <2>1. p = [swap |-> b, amount |-> estimate.amount, repay |-> b]
    BY <1>4, <1>10 DEF Plan
  <2>. QED BY <1>1, <1>6, <1>10, <2>1 DEF PlanType, repaid
<1>11. CASE ~estimate.swapB
  <2>1. p = [swap |-> a, amount |-> sold, repay |-> b]
    BY <1>4, <1>11 DEF Plan
  <2>. QED BY <1>1, <1>9, <1>11, <2>1 DEF PlanType, collateral
<1>. QED BY <1>10, <1>11

-----------------------------------------------------------------------------
(* The plan of an iteration *)

OwedTable == [Tokens -> DebtType]
DustIsOwed(owed) == \A t \in Tokens : owed[t].debt >= DustAmount => IsOwed(owed[t])

\* THEOREM.  The loop that closes positions for a withdrawal plans no swap it
\* cannot make: each is of what is on the balance and worth a swap, and none
\* is of the token a debt is then repaid in (_buildIterationPlan for
\* PLAN_SWAP_REPAY and PLAN_SWAP_ONLY).
THEOREM PlanIsThere ==
  ASSUME NEW prices \in PriceTable, NEW held \in Amounts, NEW share \in 0..One,
         NEW owed \in OwedTable, DustIsOwed(owed), NEW requested \in Nat, NEW toReduce \in Nat,
         NEW kind \in {PlanSwapRepay, PlanSwapOnly},
         NEW p, p = BuildIterationPlan(kind, requested, share, toReduce, prices, held, owed)
  PROVE  /\ p \in PlanType
         /\ p.swap # None => p.swap # p.repay /\ Threshold[p.swap] < p.amount /\ p.amount <= held[p.swap]
<1> DEFINE wanted == IF requested = NoLimit THEN NoLimit ELSE Sub0(requested, held[Asset])
           repays == kind # PlanSwapOnly /\ wanted >= Threshold[Asset]
           b == IF owed[Asset].debt >= DustAmount THEN Asset ELSE Token
           inCollateral == IF b = Token \/ wanted = NoLimit THEN wanted ELSE Worth(wanted, Asset, Token, prices)
<1>1. Asset \in Tokens /\ Token \in Tokens /\ None \notin Tokens
  BY DEF Tokens, Asset, Token, None
<1>2. held[Asset] \in Nat /\ NoLimit \in Nat /\ prices[Asset] \in Nat \ {0} /\ prices[Token] \in Nat \ {0}
  BY <1>1, PlanAssumption DEF Amounts, PlanAssumption, PriceTable
<1>3. wanted \in Nat
  BY <1>2 DEF Sub0
<1>4. b \in Tokens
  BY <1>1
<1>5. p = IF ~repays \/ owed[b].debt < DustAmount THEN PlanForLeftovers(prices, held, share)
          ELSE PlanForSellAndRepay(inCollateral, owed[b], Other(b), prices, held)
  BY DEF BuildIterationPlan, OwedFirst, PlanRepaySwapRepay, PlanSwapRepay, PlanSwapOnly
<1> HIDE DEF wanted
<1>6. inCollateral \in Nat
  <2>1. Worth(wanted, Asset, Token, prices) \in Nat
    BY <1>2, <1>3, MulDivIsNat DEF Worth
  <2>. QED BY <1>3, <2>1
<1> HIDE DEF b, repays, inCollateral
<1>7. CASE ~repays \/ owed[b].debt < DustAmount
  <2>1. p = PlanForLeftovers(prices, held, share)
    BY <1>5, <1>7
  <2>2. /\ p \in PlanType /\ p.repay = None
        /\ p.swap # None => Threshold[p.swap] < p.amount /\ p.amount <= held[p.swap]
    BY <2>1, LeftoversAreThere
  <2>. QED BY <1>1, <2>2
<1>8. CASE ~(~repays \/ owed[b].debt < DustAmount)
  <2>1. p = PlanForSellAndRepay(inCollateral, owed[b], Other(b), prices, held)
    BY <1>5, <1>8
  <2>2. owed[b] \in DebtType /\ DustAmount \in Nat
    BY <1>4, PlanAssumption DEF OwedTable, PlanAssumption
  <2>3. owed[b].debt \in Nat
    BY <2>2 DEF DebtType
  <2>4. owed[b].debt >= DustAmount
    BY <1>8, <2>2, <2>3
  <2>5. IsOwed(owed[b])
    BY <1>4, <2>4 DEF DustIsOwed
  <2>6. Other(b) \in Tokens
    BY DEF Other, Tokens
  <2>7. /\ p \in PlanType /\ p.repay = Other(Other(b))
        /\ p.swap # None => /\ p.swap = Other(b) /\ Other(b) # Other(Other(b))
                            /\ Threshold[Other(b)] < p.amount /\ p.amount <= held[Other(b)]
    BY <1>6, <2>1, <2>2, <2>5, <2>6, SaleIsThere
  <2>. QED BY <2>6, <2>7
<1>. QED BY <1>7, <1>8

-----------------------------------------------------------------------------
(* The inductive invariant of Positions *)

DebtTable == [Tokens -> [collateral : Nat, debt : Nat]]
OpeningType == [c : Tokens, amountIn : Nat, x : Nat, y : Nat \ {0}, then : {"enter"}]
Kinds == {PlanSwapRepay, PlanRepaySwapRepay, PlanSwapOnly}
LocalType ==
  [base : Amounts, prop : 0..One, addition : Nat, open : OpeningType \union {<<>>}, plan : PlanType,
   asked : Nat, request : Nat, expected : Nat, spent : Int, seen : Amounts,
   kind : Kinds \union {None}, fromPool : BOOLEAN, toReduce : Nat, toRepay : Nat, owedBefore : Nat, depth : Int]
SavedType == [balance : Amounts, pool : Amounts, debt : DebtTable]
Places == {"idle", "ready", "deposit", "depositBorrow", "borrow", "enter", "closing", "closeSwap", "closeRepay",
           "closeCheck", "closed", "step", "swap1", "repay1", "swap2", "repay2", "secondRepay", "reborrow", "fix", "rebalance"}

\* No balance, share of the pool, collateral or debt is ever negative.
AmountsAreNatural == balance \in Amounts /\ pool \in Amounts /\ debt \in DebtTable

TypeOK ==
  /\ AmountsAreNatural
  /\ price \in PriceTable /\ prop \in 0..One
  /\ pc \in Places /\ local \in LocalType
  /\ pc \notin {"idle", "ready"} => saved \in SavedType

\* What a call has found out before it comes to a place: the amounts it is about
\* to move are there, and it divides by no share that is zero.
Ready ==
  /\ pc = "deposit" => local.base[Asset] <= balance[Asset]
  /\ pc = "borrow" => local.open \in OpeningType /\ local.open.amountIn <= balance[local.open.c]
  /\ pc = "closeSwap" =>
       local.plan.swap \in Tokens /\ 0 <= local.plan.amount /\ local.plan.amount <= balance[local.plan.swap]
  /\ pc \in {"closeRepay", "repay2", "secondRepay", "reborrow"} => local.plan.repay \in Tokens
  /\ pc = "swap2" => local.plan.swap \in Tokens
  /\ pc \in {"fix", "rebalance"} => local.prop \notin {0, One}
  /\ pc \in {"secondRepay", "reborrow"} => Share(Other(local.plan.repay), local.prop) # 0

IInv == TypeOK /\ Ready

\* A debt that is not above the threshold, with the gap the converter adds.
Small(t) == Owed(t).debt <= Threshold[t]

\* In one of the directions the debt is small - and it was when the call began.
\* Where a call is about to borrow under a collateral, the debt of that collateral
\* is small, or the collateral is too little to borrow under it.
Directed ==
  /\ \E t \in Tokens : Small(t)
  /\ pc \notin {"idle", "ready"} => \E t \in Tokens : WithGap(saved.debt[t].debt) <= Threshold[t]
  /\ pc = "borrow" => Small(local.open.c) \/ local.open.amountIn <= Threshold[local.open.c]
  /\ pc = "deposit" => local.base[Token] = balance[Token]
  /\ pc = "depositBorrow" => \A t \in Tokens : Small(t) \/ Sub0(balance[t], local.base[t]) <= Threshold[t]
  /\ pc = "secondRepay" =>
       /\ local.toRepay > Threshold[local.plan.repay]
       /\ \/ local.owedBefore = NoLimit
          \/ local.owedBefore = Owed(local.plan.repay).debt /\ ~Small(local.plan.repay)
  /\ pc = "reborrow" =>
       Small(local.plan.repay) \/ balance[local.plan.repay] <= Threshold[local.plan.repay]

-----------------------------------------------------------------------------
(* Tokens, shares and worth *)

LEMMA TwoTokens ==
  /\ Tokens = {Asset, Token} /\ Asset # Token /\ None \notin Tokens /\ Asset \in Tokens /\ Token \in Tokens
  /\ \A t \in Tokens : Other(t) \in Tokens /\ Other(t) # t /\ Other(Other(t)) = t
  /\ Other(Asset) = Token /\ Other(Token) = Asset
  BY DEF Tokens, Asset, Token, None, Other

LEMMA TokenOf ==
  ASSUME NEW a \in Tokens, NEW t \in Tokens, t # a
  PROVE  t = Other(a)
  BY DEF Tokens, Asset, Token, Other

LEMMA OneIsPositive == One \in Nat \ {0} /\ DustAmount \in Nat \ {0} /\ NoLimit \in Nat
                       /\ \A t \in Tokens : Threshold[t] \in Nat
  BY PlanAssumption DEF PlanAssumption

LEMMA SharesAddUp ==
  ASSUME NEW t \in Tokens, NEW p \in 0..One
  PROVE  /\ Share(t, p) \in Nat /\ Share(t, p) <= One
         /\ Share(t, p) + Share(Other(t), p) = One
         /\ p \notin {0, One} => Share(t, p) # 0
<1>1. One \in Nat /\ p \in Nat /\ p <= One
  BY OneIsPositive
<1>2. CASE t = Token
  <2>1. Share(t, p) = p /\ Share(Other(t), p) = One - p
    BY <1>2, TwoTokens DEF Share
  <2>. QED BY <1>1, <2>1
<1>3. CASE t = Asset
  <2>1. Share(t, p) = One - p /\ Share(Other(t), p) = p
    BY <1>3, TwoTokens DEF Share
  <2>. QED BY <1>1, <2>1
<1>. QED BY <1>2, <1>3, TwoTokens

LEMMA WorthIsNat ==
  ASSUME NEW amount \in Nat, NEW t \in Tokens, NEW u \in Tokens, NEW prices \in PriceTable
  PROVE  Worth(amount, t, u, prices) \in Nat
<1>1. prices[t] \in Nat /\ prices[u] \in Nat \ {0}
  BY DEF PriceTable
<1>. QED BY <1>1, MulDivIsNat DEF Worth

LEMMA Sub0Of ==
  ASSUME NEW a \in Nat, NEW b \in Nat
  PROVE  Sub0(a, b) \in Nat /\ Sub0(a, b) <= a /\ (a = b => Sub0(a, b) = 0) /\ (b <= a => Sub0(a, b) = a - b)
  BY DEF Sub0

\* The gap adds to a debt, and more to a larger one.
LEMMA GapAdds ==
  ASSUME NEW d \in Nat
  PROVE  WithGap(d) \in Nat /\ d <= WithGap(d) /\ (d = 0 <=> WithGap(d) = 0)
<1>1. DebtGap \in Nat
  BY PositionAssumption DEF PositionAssumption
<1> DEFINE g == (d * DebtGap) \div 100
<1>2. d * DebtGap \in Nat
  BY <1>1
<1>3. g \in Nat
  BY <1>2, DivIsNat
<1>4. d = 0 => g = 0
  BY <1>1
<1>5. WithGap(d) = d + g
  BY DEF WithGap
<1> HIDE DEF g
<1>. QED BY <1>3, <1>4, <1>5

LEMMA DivGrows ==
  ASSUME NEW m \in Nat, NEW n \in Nat, m <= n
  PROVE  m \div 100 <= n \div 100
  OBVIOUS

LEMMA GapGrows ==
  ASSUME NEW d \in Nat, NEW e \in Nat, d <= e
  PROVE  WithGap(d) <= WithGap(e) /\ (d < e => WithGap(d) < WithGap(e))
<1>1. DebtGap \in Nat
  BY PositionAssumption DEF PositionAssumption
<1> DEFINE m == d * DebtGap
           n == e * DebtGap
<1>2. m \in Nat /\ n \in Nat /\ m <= n
  BY <1>1
<1>3. WithGap(d) = d + m \div 100 /\ WithGap(e) = e + n \div 100
  BY DEF WithGap
<1> HIDE DEF m, n
<1>4. m \div 100 <= n \div 100 /\ m \div 100 \in Nat /\ n \div 100 \in Nat
  BY <1>2, DivGrows, DivIsNat
<1>. QED BY <1>3, <1>4

-----------------------------------------------------------------------------
(* A repayment *)

\* What a repayment of at most the given amount promises.
Fits(b, amount, r) ==
  /\ r.paid \in Nat /\ r.paid <= debt[b].debt /\ r.paid <= balance[b] /\ r.paid <= amount
  /\ r.freed \in Nat /\ r.freed <= debt[b].collateral
  /\ r.sent \in Nat /\ r.expected \in Nat

LEMMA RepaymentFits ==
  ASSUME AmountsAreNatural, NEW b \in Tokens, NEW amount \in Nat
  PROVE  Fits(b, amount, Repayment(b, amount))
<1> DEFINE d == debt[b].debt
           k == debt[b].collateral
           w == WithGap(d)
           sent == Least(Least(amount, w), balance[b])
           covered == Least(sent, d)
           freed == IF d = 0 THEN 0 ELSE MulDiv(k, covered, d)
           closes == sent >= DustAmount
<1>1. d \in Nat /\ k \in Nat /\ balance[b] \in Nat
  BY DEF AmountsAreNatural, DebtTable, Amounts
<1>2. w \in Nat
  BY <1>1, GapAdds
<1>3. Repayment(b, amount) = [sent |-> sent, expected |-> freed,
        paid |-> IF closes THEN covered ELSE 0, freed |-> IF closes THEN freed ELSE 0]
  BY DEF Repayment, Owed
<1> DEFINE paid == IF closes THEN covered ELSE 0
           given == IF closes THEN freed ELSE 0
           r == Repayment(b, amount)
<1>4. r.sent = sent /\ r.expected = freed /\ r.paid = paid /\ r.freed = given
  <2> HIDE DEF sent, covered, freed, closes, paid, given
  <2>1. r = [sent |-> sent, expected |-> freed, paid |-> paid, freed |-> given]
    BY <1>3 DEF paid, given
  <2> HIDE DEF r
  <2>. QED BY <2>1
<1> HIDE DEF d, k, w, r
<1>5. sent \in Nat /\ sent <= amount /\ sent <= balance[b]
  BY <1>1, <1>2 DEF Least
<1> HIDE DEF sent
<1>6. covered \in Nat /\ covered <= sent /\ covered <= d
  BY <1>1, <1>5 DEF Least
<1> HIDE DEF covered
<1>7. freed \in Nat /\ freed <= k
  <2>1. CASE d = 0
    BY <1>1, <2>1
  <2>2. CASE d # 0
    <3>1. MulDiv(k, covered, d) \in Nat /\ MulDiv(k, covered, d) <= k
      BY <1>1, <1>6, <2>2, PartIsLess
    <3>. QED BY <2>2, <3>1
  <2>. QED BY <2>1, <2>2
<1> HIDE DEF freed, closes
<1>8. paid \in Nat /\ paid <= d /\ paid <= balance[b] /\ paid <= amount /\ given \in Nat /\ given <= k
  BY <1>1, <1>5, <1>6, <1>7
<1> HIDE DEF paid, given
<1>. QED BY <1>4, <1>5, <1>7, <1>8 DEF Fits, d, k, r

\* A repayment takes from the debt and from the balance, and leaves what is owed
\* in the other direction.
LEMMA RepayKeepsAmounts ==
  ASSUME AmountsAreNatural, NEW b \in Tokens, NEW amount \in Nat, NEW r, Fits(b, amount, r), Repay(b, r)
  PROVE  /\ AmountsAreNatural'
         /\ debt'[b].debt = debt[b].debt - r.paid /\ debt'[Other(b)] = debt[Other(b)]
         /\ balance'[b] = balance[b] - r.paid
         /\ balance'[Other(b)] = balance[Other(b)] + r.freed
<1> DEFINE o == Other(b)
<1>1. o \in Tokens /\ o # b /\ \A t \in Tokens : t = b \/ t = o
  BY TwoTokens, TokenOf
<1> HIDE DEF o
<1>2. balance \in [Tokens -> Nat] /\ pool \in Amounts /\ debt \in [Tokens -> [collateral : Nat, debt : Nat]]
  BY DEF AmountsAreNatural, Amounts, DebtTable
<1>3. /\ r.paid \in Nat /\ r.paid <= debt[b].debt /\ r.paid <= balance[b]
      /\ r.freed \in Nat /\ r.freed <= debt[b].collateral
  BY DEF Fits
<1>4. /\ balance' = [balance EXCEPT ![b] = @ - r.paid, ![o] = @ + r.freed]
      /\ debt' = [debt EXCEPT ![b] = [collateral |-> @.collateral - r.freed, debt |-> @.debt - r.paid]]
      /\ pool' = pool
  BY DEF Repay, o
<1> DEFINE rest == [collateral |-> debt[b].collateral - r.freed, debt |-> debt[b].debt - r.paid]
<1>5. debt[b].collateral \in Nat /\ debt[b].debt \in Nat /\ balance[b] \in Nat /\ balance[o] \in Nat
  BY <1>1, <1>2
<1>6. rest \in [collateral : Nat, debt : Nat] /\ rest.debt = debt[b].debt - r.paid
  <2>1. debt[b].collateral - r.freed \in Nat /\ debt[b].debt - r.paid \in Nat
    BY <1>3, <1>5
  <2>. QED BY <2>1
<1>7. debt' = [debt EXCEPT ![b] = rest]
  BY <1>4
<1> HIDE DEF rest
<1>8. debt' \in DebtTable /\ debt'[b] = rest /\ debt'[o] = debt[o]
  BY <1>1, <1>2, <1>6, <1>7 DEF DebtTable
<1>9. balance'[b] = balance[b] - r.paid /\ balance'[o] = balance[o] + r.freed
  BY <1>1, <1>2, <1>4
<1>10. balance' \in Amounts
  <2>1. balance[b] - r.paid \in Nat /\ balance[o] + r.freed \in Nat
    BY <1>3, <1>5
  <2>. QED BY <1>1, <1>2, <1>4, <2>1 DEF Amounts
<1>. QED BY <1>2, <1>4, <1>6, <1>8, <1>9, <1>10 DEF AmountsAreNatural, o

LEMMA SwapKeepsAmounts ==
  ASSUME AmountsAreNatural, price \in PriceTable, NEW t \in Tokens, NEW amount \in Nat, amount <= balance[t],
         NEW s \in Slippages, Swap(t, amount, s)
  PROVE  /\ AmountsAreNatural' /\ debt' = debt
         /\ balance'[t] = balance[t] - amount /\ balance[Other(t)] <= balance'[Other(t)]
<1> DEFINE o == Other(t)
           got == MulDiv(Worth(amount, t, Other(t), price), 1000 - s, 1000)
<1>1. o \in Tokens /\ o # t /\ \A u \in Tokens : u = t \/ u = o
  BY TwoTokens, TokenOf
<1>2. got \in Nat
  <2>1. 1000 - s \in Nat
    BY PositionAssumption DEF PositionAssumption
  <2>2. Worth(amount, t, Other(t), price) \in Nat
    BY <1>1, WorthIsNat
  <2>. QED BY <2>1, <2>2, MulDivIsNat
<1>3. balance' = [balance EXCEPT ![t] = @ - amount, ![o] = @ + got] /\ pool' = pool /\ debt' = debt
  BY DEF Swap
<1> HIDE DEF o, got
<1>4. balance \in [Tokens -> Nat] /\ pool \in Amounts /\ debt \in DebtTable
  BY DEF AmountsAreNatural, Amounts
<1>5. balance[t] - amount \in Nat /\ balance[o] + got \in Nat
  BY <1>1, <1>2, <1>4
<1>6. balance' \in Amounts
  BY <1>1, <1>3, <1>4, <1>5 DEF Amounts
<1>7. balance'[t] = balance[t] - amount /\ balance'[o] = balance[o] + got
  BY <1>1, <1>3, <1>4
<1>8. balance[o] <= balance'[o]
  BY <1>1, <1>2, <1>4, <1>7
<1>. QED BY <1>3, <1>4, <1>6, <1>7, <1>8 DEF AmountsAreNatural, o

-----------------------------------------------------------------------------
(* A loan, and an entry to the pool *)

LoanType == [collateral : Nat, borrow : Nat]

LEMMA OfferIsLoan ==
  ASSUME price \in PriceTable, NEW c \in Tokens, NEW amountIn \in Nat, NEW x \in Nat, NEW y \in Nat \ {0},
         NEW available \in Nat
  PROVE  Offer(c, amountIn, x, y, available) \in LoanType
<1> DEFINE collateral == MulDiv(amountIn, y * 100, y * 100 + x * LoanToValue)
           borrow == MulDiv(Worth(collateral, c, Other(c), price), LoanToValue, 100)
           most == available \div price[Other(c)]
<1>1. Other(c) \in Tokens
  BY TwoTokens
<1>2. price[Other(c)] \in Nat \ {0} /\ LoanToValue \in Nat \ {0}
  BY <1>1, PositionAssumption DEF PriceTable, PositionAssumption
<1>3. y * 100 \in Nat \ {0} /\ x * LoanToValue \in Nat
  BY <1>2
<1>4. y * 100 + x * LoanToValue \in Nat \ {0}
  BY <1>3
<1>5. collateral \in Nat
  BY <1>3, <1>4, MulDivIsNat
<1> HIDE DEF collateral
<1>6. borrow \in Nat
  <2>1. Worth(collateral, c, Other(c), price) \in Nat
    BY <1>1, <1>5, WorthIsNat
  <2>. QED BY <1>2, <2>1, MulDivIsNat
<1> HIDE DEF borrow
<1>7. most \in Nat
  BY <1>2, DivIsNat
<1> HIDE DEF most
<1>8. Offer(c, amountIn, x, y, available) =
        IF borrow = 0 \/ borrow <= most THEN [collateral |-> collateral, borrow |-> borrow]
        ELSE [collateral |-> MulDiv(collateral, most, borrow), borrow |-> most]
  BY DEF Offer, collateral, borrow, most
<1>9. CASE borrow = 0 \/ borrow <= most
  BY <1>5, <1>6, <1>8, <1>9 DEF LoanType
<1>10. CASE ~(borrow = 0 \/ borrow <= most)
  <2>1. MulDiv(collateral, most, borrow) \in Nat
    BY <1>5, <1>6, <1>7, <1>10, MulDivIsNat
  <2>. QED BY <1>7, <1>8, <1>10, <2>1 DEF LoanType
<1>. QED BY <1>9, <1>10

\* Not more is taken for collateral than is offered, and nothing is borrowed
\* under an amount that is not above the threshold.
LEMMA LoanFits ==
  ASSUME price \in PriceTable, NEW c \in Tokens, NEW amountIn \in Nat, NEW x \in Nat, NEW y \in Nat \ {0},
         NEW available \in Nat, NEW loan, loan = Loan(c, amountIn, x, y, available)
  PROVE  /\ loan \in LoanType /\ loan.collateral <= amountIn
         /\ amountIn <= Threshold[c] => loan.collateral = 0 /\ loan.borrow = 0
<1> DEFINE offer == Offer(c, amountIn, x, y, available)
           untouched == MulDiv(x, Worth(offer.borrow, Other(c), c, price), y)
           whole == offer.collateral + untouched
           part == MulDiv(offer.collateral, amountIn, whole)
           fits == IF whole > amountIn
                   THEN [collateral |-> part, borrow |-> MulDiv(offer.borrow, amountIn, whole)]
                   ELSE offer
           none == [collateral |-> 0, borrow |-> 0]
<1>1. Other(c) \in Tokens /\ Threshold[c] \in Nat
  BY TwoTokens, OneIsPositive
<1>2. offer \in LoanType
  BY OfferIsLoan
<1> HIDE DEF offer
<1>3. offer.collateral \in Nat /\ offer.borrow \in Nat
  BY <1>2 DEF LoanType
<1>4. untouched \in Nat
  <2>1. Worth(offer.borrow, Other(c), c, price) \in Nat
    BY <1>1, <1>3, WorthIsNat
  <2>. QED BY <2>1, MulDivIsNat
<1> HIDE DEF untouched
<1>5. whole \in Nat /\ offer.collateral <= whole
  BY <1>3, <1>4
<1> HIDE DEF whole
<1>6. fits \in LoanType /\ fits.collateral <= amountIn
  <2>1. CASE whole > amountIn
    <3>1. whole \in Nat \ {0}
      BY <1>5, <2>1
    <3>2. part \in Nat /\ MulDiv(offer.borrow, amountIn, whole) \in Nat
      BY <1>3, <3>1, MulDivIsNat
    <3>3. part <= amountIn
      <4>1. offer.collateral * amountIn \in Nat /\ offer.collateral * amountIn <= amountIn * whole
        BY <1>3, <1>5
      <4>. QED BY <3>1, <4>1, DivBelow DEF MulDiv
    <3>4. fits = [collateral |-> part, borrow |-> MulDiv(offer.borrow, amountIn, whole)]
      BY <2>1
    <3> HIDE DEF part, fits
    <3>. QED BY <3>2, <3>3, <3>4 DEF LoanType
  <2>2. CASE ~(whole > amountIn)
    <3>1. fits = offer
      BY <2>2
    <3> HIDE DEF fits
    <3>2. offer.collateral <= amountIn
      BY <1>3, <1>5, <2>2
    <3>. QED BY <1>2, <3>1, <3>2
  <2>. QED BY <2>1, <2>2
<1>7. loan = IF amountIn <= Threshold[c] \/ fits.collateral < Threshold[c] \/ fits.borrow = 0 THEN none ELSE fits
  BY DEF Loan, offer, untouched, whole
<1> HIDE DEF fits
<1>8. none \in LoanType /\ none.collateral = 0 /\ none.borrow = 0
  BY DEF LoanType
<1>. QED BY <1>1, <1>6, <1>7, <1>8

LEMMA SmallestOfTwo ==
  ASSUME NEW S, S \subseteq Tokens, S # {}, NEW f \in [S -> Nat]
  PROVE  \E u \in S : \A t \in S : f[u] <= f[t]
<1>1. CASE Asset \in S /\ Token \in S
  <2>1. CASE f[Asset] <= f[Token]
    BY <1>1, <2>1, TwoTokens
  <2>2. CASE ~(f[Asset] <= f[Token])
    <3>1. f[Token] <= f[Asset]
      BY <1>1, <2>2
    <3>. QED BY <1>1, <3>1, TwoTokens
  <2>. QED BY <2>1, <2>2
<1>2. CASE ~(Asset \in S /\ Token \in S)
  <2>1. PICK u \in S : S = {u}
    BY <1>2, TwoTokens
  <2>2. f[u] <= f[u]
    BY <2>1
  <2>. QED BY <2>1, <2>2
<1>. QED BY <1>1, <1>2

\* The pool takes no more than is offered.
LEMMA InvestedFits ==
  ASSUME price \in PriceTable, prop \in 0..One, NEW offered \in Amounts
  PROVE  Invested(offered) \in Amounts /\ \A t \in Tokens : Invested(offered)[t] <= offered[t]
<1> DEFINE used == {t \in Tokens : Share(t, prop) # 0}
           cost(t) == MulDiv(offered[t] * price[t], One, Share(t, prop))
           c == CHOOSE x \in {cost(t) : t \in used} : \A t \in used : x <= cost(t)
           into(t) == MulDiv(c, Share(t, prop), One) \div price[t]
<1>1. \A t \in Tokens : Share(t, prop) \in Nat /\ Share(t, prop) <= One /\ Share(t, prop) + Share(Other(t), prop) = One
  BY SharesAddUp
<1>2. \A t \in Tokens : offered[t] \in Nat /\ price[t] \in Nat \ {0} /\ offered[t] * price[t] \in Nat
  BY DEF Amounts, PriceTable
<1>3. \A t \in used : cost(t) \in Nat
  BY <1>1, <1>2, OneIsPositive, MulDivIsNat
<1>4. used # {}
  <2>1. Share(Asset, prop) # 0 \/ Share(Token, prop) # 0
    BY <1>1, TwoTokens, OneIsPositive
  <2>. QED BY <2>1, TwoTokens
<1>5. c \in Nat /\ \A t \in used : c <= cost(t)
  <2> HIDE DEF cost
  <2>1. used \subseteq Tokens
    OBVIOUS
  <2> HIDE DEF used
  <2> DEFINE g == [t \in used |-> cost(t)]
  <2>2. g \in [used -> Nat] /\ \A t \in used : g[t] = cost(t)
    BY <1>3
  <2> HIDE DEF g
  <2>3. \E u \in used : \A t \in used : g[u] <= g[t]
    BY <1>4, <2>1, <2>2, SmallestOfTwo
  <2>4. \E u \in used : \A t \in used : cost(u) <= cost(t)
    BY <2>2, <2>3
  <2>5. \E x \in {cost(t) : t \in used} : \A t \in used : x <= cost(t)
    BY <2>4
  <2>6. c \in {cost(t) : t \in used} /\ \A t \in used : c <= cost(t)
    BY <2>5
  <2>. QED BY <1>3, <2>6
<1> HIDE DEF c
<1>6. ASSUME NEW t \in Tokens
      PROVE  into(t) \in Nat /\ into(t) <= offered[t]
  <2> DEFINE s == Share(t, prop)
             m == MulDiv(c, s, One)
             worth == offered[t] * price[t]
  <2>1. s \in Nat /\ price[t] \in Nat \ {0} /\ offered[t] \in Nat /\ worth \in Nat
    BY <1>1, <1>2
  <2>2. m \in Nat
    BY <1>5, <2>1, OneIsPositive, MulDivIsNat
  <2>3. m <= worth
    <3>1. CASE s = 0
      <4>1. c * s = 0 /\ 0 \div One = 0
        BY <1>5, <3>1, OneIsPositive
      <4>2. m = 0
        BY <4>1 DEF MulDiv
      <4>. QED BY <2>1, <4>2
    <3>2. CASE s # 0
      <4>1. c <= cost(t)
        BY <1>5, <3>2
      <4> DEFINE k == cost(t)
      <4> HIDE DEF worth
      <4>2. k \in Nat /\ k * s <= worth * One
        <5>1. worth * One \in Nat /\ s \in Nat \ {0}
          BY <2>1, <3>2, OneIsPositive
        <5>2. k = (worth * One) \div s
          BY DEF MulDiv, worth
        <5> DEFINE n == worth * One
        <5> HIDE DEF n
        <5>3. n \in Nat /\ k = n \div s
          BY <5>1, <5>2 DEF n
        <5> HIDE DEF k
        <5>4. k \in Nat /\ k * s <= n
          BY <5>1, <5>3
        <5>. QED BY <5>4 DEF n
      <4> HIDE DEF k
      <4>3. c <= k
        BY <4>1 DEF k
      <4>4. c * s <= k * s /\ c * s \in Nat
        BY <1>5, <2>1, <4>2, <4>3
      <4>5. c * s <= worth * One
        BY <4>2, <4>4, <2>1, OneIsPositive
      <4>. QED BY <2>1, <4>4, <4>5, OneIsPositive, DivBelow DEF MulDiv
    <3>. QED BY <3>1, <3>2
  <2>4. m \div price[t] \in Nat /\ m \div price[t] <= offered[t]
    <3> HIDE DEF m
    <3>1. m <= offered[t] * price[t]
      BY <2>3
    <3>. QED BY <2>1, <2>2, <3>1, DivBelow, DivIsNat
  <2>. QED BY <2>4
<1>7. Invested(offered) = [t \in Tokens |-> into(t)]
  BY DEF Invested, c, cost, used
<1> HIDE DEF into
<1>. QED BY <1>6, <1>7 DEF Amounts

-----------------------------------------------------------------------------
(* IInv: how a step begins, goes on and ends *)

LEMMA BlankIsLocal == Blank \in LocalType
<1>1. NoAmounts \in Amounts
  BY DEF NoAmounts, Amounts
<1>2. Plan(None, 0, None) \in PlanType
  BY DEF Plan, PlanType
<1>3. 0 \in 0..One
  BY OneIsPositive
<1>. QED BY <1>1, <1>2, <1>3 DEF Blank, LocalType

LEMMA BeginKeepsIInv ==
  ASSUME IInv, NEW next \in Places \ {"idle", "ready"}, NEW data \in LocalType, Begin(next, data),
         AmountsAreNatural', Ready'
  PROVE  IInv'
<1>1. pc' = next /\ local' = data /\ price' = price /\ prop' = prop
      /\ saved' = [balance |-> balance, pool |-> pool, debt |-> debt]
  BY DEF Begin, market
<1>2. saved' \in SavedType
  BY <1>1 DEF IInv, TypeOK, AmountsAreNatural, SavedType
<1>. QED BY <1>1, <1>2 DEF IInv, TypeOK

LEMMA GotoKeepsIInv ==
  ASSUME IInv, pc \notin {"idle", "ready"}, NEW next \in Places, Goto(next),
         AmountsAreNatural', local' \in LocalType, Ready'
  PROVE  IInv'
<1>1. pc' = next /\ price' = price /\ prop' = prop /\ saved' = saved
  BY DEF Goto, market
<1>. QED BY <1>1 DEF IInv, TypeOK

LEMMA DoneKeepsIInv ==
  ASSUME IInv, Done, AmountsAreNatural'
  PROVE  IInv'
<1>1. pc' = "idle" /\ local' = Blank /\ price' = price /\ prop' = prop
  BY DEF Done, market
<1>2. Ready'
  BY <1>1 DEF Ready
<1>3. pc' \in Places /\ ~(pc' \notin {"idle", "ready"})
  BY <1>1 DEF Places
<1>. QED BY <1>1, <1>2, <1>3, BlankIsLocal DEF IInv, TypeOK

LEMMA RevertKeepsIInv ==
  ASSUME IInv, pc \notin {"idle", "ready"}, Revert
  PROVE  IInv'
<1>1. saved \in SavedType /\ balance' = saved.balance /\ pool' = saved.pool /\ debt' = saved.debt /\ Done
  BY DEF IInv, TypeOK, Revert
<1>2. AmountsAreNatural'
  BY <1>1 DEF AmountsAreNatural, SavedType
<1>. QED BY <1>1, <1>2, DoneKeepsIInv

LEMMA UnchangedAmounts ==
  ASSUME AmountsAreNatural, UNCHANGED amounts
  PROVE  AmountsAreNatural'
  BY DEF AmountsAreNatural, amounts

-----------------------------------------------------------------------------
(* IInv: borrowing *)

LEMMA BorrowKeepsIInv ==
  ASSUME IInv, Borrow
  PROVE  IInv'
<1> DEFINE o == local.open
           c == o.c
           b == Other(c)
<1>1. pc = "borrow"
  BY DEF Borrow
<1>2. o \in OpeningType /\ o.amountIn <= balance[c]
  BY <1>1 DEF IInv, Ready
<1>3. PICK available \in Available :
        LET loan == Loan(o.c, o.amountIn, o.x, o.y, available)
        IN  /\ balance' = [balance EXCEPT ![c] = @ - loan.collateral, ![b] = @ + loan.borrow]
            /\ debt' = [debt EXCEPT ![b] = [collateral |-> @.collateral + loan.collateral, debt |-> @.debt + loan.borrow]]
            /\ Goto(o.then)
  BY DEF Borrow
<1>4. pool' = pool /\ local' = local
  BY DEF Borrow
<1> DEFINE loan == Loan(o.c, o.amountIn, o.x, o.y, available)
<1> HIDE DEF o
<1>5. c \in Tokens /\ o.amountIn \in Nat /\ o.x \in Nat /\ o.y \in Nat \ {0} /\ o.then = "enter"
  BY <1>2 DEF OpeningType
<1>6. b \in Tokens /\ b # c /\ \A t \in Tokens : t = b \/ t = c
  BY <1>5, TwoTokens, TokenOf
<1>7. available \in Nat /\ price \in PriceTable
  BY PositionAssumption DEF PositionAssumption, IInv, TypeOK
<1>8. balance \in [Tokens -> Nat] /\ pool \in Amounts /\ debt \in DebtTable /\ local \in LocalType
  BY DEF IInv, TypeOK, AmountsAreNatural, Amounts
<1>9. loan \in LoanType /\ loan.collateral <= o.amountIn
  BY <1>5, <1>7, LoanFits
<1>10. /\ balance' = [balance EXCEPT ![c] = @ - loan.collateral, ![b] = @ + loan.borrow]
       /\ debt' = [debt EXCEPT ![b] = [collateral |-> @.collateral + loan.collateral, debt |-> @.debt + loan.borrow]]
       /\ Goto("enter")
  BY <1>3, <1>5
<1> HIDE DEF loan, b, c
<1>11. loan.collateral \in Nat /\ loan.borrow \in Nat
  BY <1>9 DEF LoanType
<1>12. balance[c] \in Nat /\ balance[b] \in Nat
  BY <1>5, <1>6, <1>8
<1>13. balance' \in Amounts
  <2>1. balance[c] - loan.collateral \in Nat /\ balance[b] + loan.borrow \in Nat
    BY <1>2, <1>5, <1>9, <1>11, <1>12
  <2>. QED BY <1>6, <1>8, <1>10, <2>1 DEF Amounts
<1>14. debt' \in DebtTable
  <2>1. debt[b] \in [collateral : Nat, debt : Nat]
    BY <1>6, <1>8 DEF DebtTable
  <2>2. debt[b].collateral + loan.collateral \in Nat /\ debt[b].debt + loan.borrow \in Nat
    BY <1>11, <2>1
  <2> DEFINE more == [collateral |-> debt[b].collateral + loan.collateral, debt |-> debt[b].debt + loan.borrow]
  <2>3. more \in [collateral : Nat, debt : Nat]
    BY <2>2
  <2>4. debt' = [debt EXCEPT ![b] = more]
    BY <1>10
  <2> HIDE DEF more
  <2>. QED BY <1>6, <1>8, <2>3, <2>4 DEF DebtTable
<1>15. AmountsAreNatural'
  BY <1>4, <1>8, <1>13, <1>14 DEF AmountsAreNatural
<1>16. pc' = "enter" /\ Ready'
  BY <1>10 DEF Goto, Ready
<1>. QED BY <1>1, <1>4, <1>8, <1>10, <1>15, <1>16, GotoKeepsIInv DEF Places

\* The collateral of a new position is on the balance, and the other share of
\* the pool is not zero where its price is divided by it.
LEMMA OpeningFits ==
  ASSUME price \in PriceTable, local \in LocalType, NEW c \in Tokens, NEW hasC \in Nat, NEW has \in Nat,
         ~OpensWrongly(c, hasC, has), Share(Other(c), local.prop) # 0
  PROVE  /\ OpeningOf(c, hasC, has, "enter") \in OpeningType
         /\ OpeningOf(c, hasC, has, "enter").c = c
         /\ OpeningOf(c, hasC, has, "enter").amountIn <= hasC
<1> DEFINE u == Untouched(c, has)
           x == Share(c, local.prop)
           y == Share(Other(c), local.prop)
<1>1. Other(c) \in Tokens /\ local.prop \in 0..One
  BY TwoTokens DEF LocalType
<1>2. x \in Nat /\ y \in Nat \ {0}
  BY <1>1, SharesAddUp
<1>3. u \in Nat /\ u <= hasC
  <2>1. CASE has = 0
    BY <2>1 DEF Untouched
  <2>2. CASE has # 0
    <3>1. Worth(has, Other(c), c, price) \in Nat
      BY <1>1, WorthIsNat
    <3>2. u \in Nat
      BY <1>2, <2>2, <3>1, MulDivIsNat DEF Untouched
    <3>3. ~(u > hasC)
      BY <2>2 DEF OpensWrongly
    <3>. QED BY <3>2, <3>3
  <2>. QED BY <2>1, <2>2
<1>4. OpeningOf(c, hasC, has, "enter") = [c |-> c, amountIn |-> hasC - u, x |-> x, y |-> y, then |-> "enter"]
  BY DEF OpeningOf, Opening
<1> HIDE DEF u, x, y
<1>5. hasC - u \in Nat /\ hasC - u <= hasC
  BY <1>3
<1>. QED BY <1>2, <1>4, <1>5 DEF OpeningType

LEMMA OpenPositionKeepsIInv ==
  ASSUME IInv, pc \notin {"idle", "ready"}, NEW c \in Tokens, NEW hasC \in Nat, NEW has \in Nat,
         hasC <= balance[c], Share(Other(c), local.prop) # 0, OpenPosition(c, hasC, has)
  PROVE  IInv'
<1>1. CASE OpensWrongly(c, hasC, has)
  BY <1>1, RevertKeepsIInv DEF OpenPosition
<1>2. CASE ~OpensWrongly(c, hasC, has)
  <2> DEFINE opening == OpeningOf(c, hasC, has, "enter")
  <2>1. local' = [local EXCEPT !.open = opening] /\ Goto("borrow") /\ UNCHANGED amounts
    BY <1>2 DEF OpenPosition
  <2>2. local \in LocalType /\ price \in PriceTable
    BY DEF IInv, TypeOK
  <2>3. opening \in OpeningType /\ opening.c = c /\ opening.amountIn <= hasC
    BY <1>2, <2>2, OpeningFits
  <2> HIDE DEF opening
  <2>4. local' \in LocalType /\ local'.open = opening
    BY <2>1, <2>2, <2>3 DEF LocalType
  <2>5. AmountsAreNatural' /\ balance' = balance
    BY <2>1, UnchangedAmounts DEF IInv, TypeOK, amounts
  <2>6. opening.amountIn <= balance[c]
    <3>1. balance[c] \in Nat /\ opening.amountIn \in Nat
      BY <2>3 DEF IInv, TypeOK, AmountsAreNatural, Amounts, OpeningType
    <3>. QED BY <2>3, <3>1
  <2>7. pc' = "borrow"
    BY <2>1 DEF Goto
  <2>8. Ready'
    BY <2>3, <2>4, <2>5, <2>6, <2>7 DEF Ready
  <2>. QED BY <2>1, <2>4, <2>5, <2>8, GotoKeepsIInv DEF Places
<1>. QED BY <1>1, <1>2

LEMMA EnterKeepsIInv ==
  ASSUME IInv, Enter
  PROVE  IInv'
<1> DEFINE paid == [balance EXCEPT ![Asset] = Sub0(@, local.addition)]
           offered == [t \in Tokens |-> Sub0(paid[t], local.base[t])]
<1>1. balance \in [Tokens -> Nat] /\ pool \in [Tokens -> Nat] /\ debt \in DebtTable
      /\ price \in PriceTable /\ prop \in 0..One
  BY DEF IInv, TypeOK, AmountsAreNatural, Amounts
<1>2. local.addition \in Nat /\ local.base \in [Tokens -> Nat]
  BY DEF IInv, TypeOK, LocalType, Amounts
<1>3. PICK into \in {Invested(offered), NoAmounts} :
        /\ balance' = [t \in Tokens |-> paid[t] - into[t]]
        /\ pool' = [t \in Tokens |-> pool[t] + into[t]]
  BY DEF Enter
<1>4. debt' = debt /\ Done
  BY DEF Enter
<1>5. paid \in [Tokens -> Nat]
  <2>1. Sub0(balance[Asset], local.addition) \in Nat
    BY <1>1, <1>2, TwoTokens, Sub0Of
  <2>. QED BY <1>1, <2>1
<1> HIDE DEF paid
<1>6. ASSUME NEW t \in Tokens
      PROVE  offered[t] \in Nat /\ offered[t] <= paid[t]
  <2>1. paid[t] \in Nat /\ local.base[t] \in Nat
    BY <1>2, <1>5
  <2>2. offered[t] = Sub0(paid[t], local.base[t])
    OBVIOUS
  <2>. QED BY <2>1, <2>2, Sub0Of
<1>7. offered \in Amounts
  BY <1>6 DEF Amounts
<1> HIDE DEF offered
<1>8. ASSUME NEW t \in Tokens
      PROVE  into[t] \in Nat /\ into[t] <= paid[t]
  <2>1. paid[t] \in Nat
    BY <1>5
  <2>2. CASE into = NoAmounts
    BY <2>1, <2>2 DEF NoAmounts
  <2>3. CASE into = Invested(offered)
    <3>1. into \in Amounts /\ into[t] <= offered[t]
      BY <1>1, <1>7, <2>3, InvestedFits
    <3>2. into[t] \in Nat
      BY <3>1 DEF Amounts
    <3>. QED BY <1>6, <2>1, <3>1, <3>2
  <2>. QED BY <1>3, <2>2, <2>3
<1>9. ASSUME NEW t \in Tokens
      PROVE  paid[t] - into[t] \in Nat /\ pool[t] + into[t] \in Nat
  <2>1. paid[t] \in Nat /\ pool[t] \in Nat
    BY <1>1, <1>5
  <2>. QED BY <1>8, <2>1
<1>10. AmountsAreNatural'
  BY <1>1, <1>3, <1>4, <1>9 DEF AmountsAreNatural, Amounts
<1>. QED BY <1>4, <1>10, DoneKeepsIInv

-----------------------------------------------------------------------------
(* IInv: a deposit *)

LEMMA StartDepositKeepsIInv ==
  ASSUME IInv, NEW amount \in Deposits, StartDeposit(amount)
  PROVE  IInv'
<1> DEFINE data == [Blank EXCEPT !.base = balance, !.prop = prop]
<1>1. Begin("deposit", data) /\ balance' = [balance EXCEPT ![Asset] = @ + amount] /\ pool' = pool /\ debt' = debt
  BY DEF StartDeposit
<1>2. balance \in [Tokens -> Nat] /\ pool \in Amounts /\ debt \in DebtTable /\ prop \in 0..One /\ amount \in Nat
  BY PositionAssumption DEF IInv, TypeOK, AmountsAreNatural, Amounts, PositionAssumption
<1>3. data \in LocalType /\ data.base = balance
  BY <1>2, BlankIsLocal DEF LocalType, Amounts
<1> HIDE DEF data
<1>4. balance[Asset] + amount \in Nat /\ balance[Asset] <= balance[Asset] + amount
  BY <1>2, TwoTokens
<1>5. AmountsAreNatural' /\ balance'[Asset] = balance[Asset] + amount
  BY <1>1, <1>2, <1>4, TwoTokens DEF AmountsAreNatural, Amounts
<1>6. pc' = "deposit" /\ local' = data
  BY <1>1 DEF Begin
<1>7. Ready'
  BY <1>3, <1>4, <1>5, <1>6 DEF Ready
<1>. QED BY <1>1, <1>3, <1>5, <1>7, BeginKeepsIInv DEF Places

\* A repayment of an amount keeps the amounts, and so does none.
LEMMA MaybeRepayKeepsAmounts ==
  ASSUME AmountsAreNatural, NEW b \in Tokens, NEW amount \in Nat,
         Repay(b, Repayment(b, amount)) \/ UNCHANGED amounts
  PROVE  AmountsAreNatural'
<1>1. CASE Repay(b, Repayment(b, amount))
  <2> DEFINE r == Repayment(b, amount)
  <2>1. Fits(b, amount, r)
    BY RepaymentFits
  <2> HIDE DEF r
  <2>2. Repay(b, r)
    BY <1>1 DEF r
  <2>. QED BY <2>1, <2>2, RepayKeepsAmounts
<1>2. CASE UNCHANGED amounts
  BY <1>2, UnchangedAmounts
<1>. QED BY <1>1, <1>2

LEMMA RepayBeforeDepositKeepsIInv ==
  ASSUME IInv, RepayBeforeDeposit
  PROVE  IInv'
<1> DEFINE has == balance[Asset] - local.base[Asset]
<1>1. pc = "deposit" /\ Goto("depositBorrow") /\ local' = local
  BY DEF RepayBeforeDeposit
<1>2. has \in Nat
  <2>1. balance[Asset] \in Nat /\ local.base[Asset] \in Nat
    BY TwoTokens DEF IInv, TypeOK, AmountsAreNatural, Amounts, LocalType
  <2>. QED BY <1>1, <2>1 DEF IInv, Ready
<1>3. Repay(Asset, Repayment(Asset, has)) \/ UNCHANGED amounts
  BY DEF RepayBeforeDeposit
<1> HIDE DEF has
<1>4. AmountsAreNatural'
  BY <1>2, <1>3, TwoTokens, MaybeRepayKeepsAmounts DEF IInv, TypeOK
<1>5. pc' = "depositBorrow" /\ Ready'
  BY <1>1 DEF Goto, Ready
<1>. QED BY <1>1, <1>4, <1>5, GotoKeepsIInv DEF Places, IInv, TypeOK

\* The excess of a token is some of what the deposit has brought.
LEMMA ExcessFits ==
  ASSUME NEW k \in Nat, NEW unit \in Nat \ {0}, NEW others \in Nat, NEW x \in Nat, NEW y \in Nat,
         (k * unit) * y > others * x
  PROVE  /\ y # 0
         /\ (k * unit - MulDiv(others, x, y)) \div unit \in Nat
         /\ (k * unit - MulDiv(others, x, y)) \div unit <= k
<1> DEFINE worth == k * unit
           part == MulDiv(others, x, y)
<1>1. worth \in Nat /\ others * x \in Nat /\ worth * y > others * x
  OBVIOUS
<1> HIDE DEF worth
<1>2. y # 0
  BY <1>1
<1>3. others * x <= worth * y
  BY <1>1, <1>2
<1>4. part \in Nat /\ part <= worth
  BY <1>1, <1>2, <1>3, DivBelow, DivIsNat DEF MulDiv
<1> HIDE DEF part
<1>5. worth - part \in Nat /\ worth - part <= worth
  BY <1>1, <1>4
<1>6. worth - part <= k * unit
  BY <1>5 DEF worth
<1>7. (worth - part) \div unit \in Nat /\ (worth - part) \div unit <= k
  BY <1>5, <1>6, DivBelow, DivIsNat
<1>. QED BY <1>2, <1>7 DEF worth, part

\* What a borrow for a deposit opens.
BorrowsFor(t, o) ==
  /\ o \in OpeningType /\ o.c = t /\ o.amountIn <= Sub0(balance[t], local.base[t])
  /\ local' = [local EXCEPT !.open = o] /\ Goto("borrow")

LEMMA DepositOpening ==
  ASSUME IInv, BorrowForDeposit
  PROVE  \/ \E t \in Tokens : \E o \in OpeningType : BorrowsFor(t, o)
         \/ Goto("enter") /\ UNCHANGED local
<1> DEFINE cost == [t \in Tokens |-> Sub0(balance[t], local.base[t]) * price[t]]
           p(t) == Share(t, local.prop)
           excess(t) == cost[t] * p(Other(t)) > cost[Other(t)] * p(t)
           amountIn(t) == (cost[t] - MulDiv(cost[Other(t)], p(t), p(Other(t)))) \div price[t]
<1>1. \/ \E t \in Tokens : /\ excess(t)
                           /\ local' = [local EXCEPT !.open = Opening(t, amountIn(t), p(t), p(Other(t)), "enter")]
                           /\ Goto("borrow")
      \/ Goto("enter") /\ UNCHANGED local
  BY DEF BorrowForDeposit
<1>2. \A t \in Tokens : /\ balance[t] \in Nat /\ local.base[t] \in Nat /\ price[t] \in Nat \ {0}
                        /\ Other(t) \in Tokens /\ p(t) \in Nat
  <2>1. local.prop \in 0..One
    BY DEF IInv, TypeOK, LocalType
  <2>. QED BY <2>1, TwoTokens, SharesAddUp DEF IInv, TypeOK, AmountsAreNatural, Amounts, LocalType, PriceTable
<1>3. ASSUME NEW t \in Tokens, excess(t),
             local' = [local EXCEPT !.open = Opening(t, amountIn(t), p(t), p(Other(t)), "enter")], Goto("borrow")
      PROVE  \E o \in OpeningType : BorrowsFor(t, o)
  <2> DEFINE k == Sub0(balance[t], local.base[t])
             u == Other(t)
             others == cost[Other(t)]
             x == p(t)
             y == p(Other(t))
             o == Opening(t, amountIn(t), p(t), p(Other(t)), "enter")
  <2>1. u \in Tokens /\ x \in Nat /\ y \in Nat /\ price[t] \in Nat \ {0}
    BY <1>2
  <2>2. k \in Nat
    BY <1>2, Sub0Of
  <2>3. others \in Nat
    <3>1. others = Sub0(balance[u], local.base[u]) * price[u]
      BY <2>1
    <3>2. Sub0(balance[u], local.base[u]) \in Nat /\ price[u] \in Nat
      BY <1>2, <2>1, Sub0Of
    <3>. QED BY <3>1, <3>2
  <2>4. cost[t] = k * price[t]
    OBVIOUS
  <2>5. amountIn(t) = (k * price[t] - MulDiv(others, x, y)) \div price[t]
    BY <2>4
  <2>6. (k * price[t]) * y > others * x
    BY <1>3, <2>4
  <2>7. o = [c |-> t, amountIn |-> amountIn(t), x |-> x, y |-> y, then |-> "enter"]
    BY DEF Opening
  <2>8. local' = [local EXCEPT !.open = o]
    BY <1>3
  <2> HIDE DEF o
  <2> HIDE DEF amountIn, others, x, y, p, cost
  <2>9. y # 0 /\ amountIn(t) \in Nat /\ amountIn(t) <= k
    <3> HIDE DEF k
    <3> DEFINE unit == price[t]
               v == amountIn(t)
    <3>1. unit \in Nat \ {0} /\ (k * unit) * y > others * x /\ v = (k * unit - MulDiv(others, x, y)) \div unit
      BY <2>1, <2>5, <2>6
    <3> HIDE DEF unit, v
    <3>2. x \in Nat /\ y \in Nat /\ others \in Nat /\ k \in Nat
      BY <2>1, <2>2, <2>3
    <3>3. y # 0 /\ v \in Nat /\ v <= k
      BY <3>1, <3>2, ExcessFits
    <3>. QED BY <3>3 DEF v
  <2>10. o \in OpeningType /\ o.c = t /\ o.amountIn <= k
    BY <2>1, <2>7, <2>9 DEF OpeningType
  <2>. QED BY <1>3, <2>8, <2>10 DEF BorrowsFor
<1>. QED BY <1>1, <1>3

LEMMA BorrowForDepositKeepsIInv ==
  ASSUME IInv, BorrowForDeposit
  PROVE  IInv'
<1>1. pc = "depositBorrow" /\ UNCHANGED amounts
  BY DEF BorrowForDeposit
<1>2. AmountsAreNatural' /\ balance' = balance
  BY <1>1, UnchangedAmounts DEF IInv, TypeOK, amounts
<1>3. local \in LocalType
  BY DEF IInv, TypeOK
<1>4. CASE Goto("enter") /\ UNCHANGED local
  <2>1. pc' = "enter" /\ Ready'
    BY <1>4 DEF Goto, Ready
  <2>. QED BY <1>1, <1>2, <1>3, <1>4, <2>1, GotoKeepsIInv DEF Places
<1>5. ASSUME NEW t \in Tokens, NEW o \in OpeningType, BorrowsFor(t, o)
      PROVE  IInv'
  <2>1. o.c = t /\ o.amountIn <= Sub0(balance[t], local.base[t]) /\ local' = [local EXCEPT !.open = o] /\ Goto("borrow")
    BY <1>5 DEF BorrowsFor
  <2>2. local' \in LocalType /\ local'.open = o
    BY <1>3, <2>1 DEF LocalType
  <2>3. o.amountIn <= balance[t]
    <3>1. balance[t] \in Nat /\ local.base[t] \in Nat /\ o.amountIn \in Nat
      BY <1>3 DEF IInv, TypeOK, AmountsAreNatural, Amounts, LocalType, OpeningType
    <3>2. Sub0(balance[t], local.base[t]) \in Nat /\ Sub0(balance[t], local.base[t]) <= balance[t]
      BY <3>1, Sub0Of
    <3>. QED BY <2>1, <3>1, <3>2
  <2>4. pc' = "borrow" /\ Ready'
    BY <1>2, <2>1, <2>2, <2>3 DEF Goto, Ready
  <2>. QED BY <1>1, <1>2, <2>1, <2>2, <2>4, GotoKeepsIInv DEF Places
<1>. QED BY <1>4, <1>5, DepositOpening

-----------------------------------------------------------------------------
(* IInv: a withdrawal *)

LEMMA LeavesAPart ==
  ASSUME price \in PriceTable, balance \in Amounts, pool \in Amounts, NEW target \in Nat
  PROVE  LiquidityToExit(target) \in 0..One
<1> DEFINE inTokens == Worth(balance[Token], Token, Asset, price)
           rest == Sub0(target, inTokens)
           total == Sub0(pool[Asset] + Worth(pool[Token], Token, Asset, price), inTokens)
           part == MulDiv(One * 101, rest, total) \div 100
<1>1. balance[Token] \in Nat /\ pool[Token] \in Nat /\ pool[Asset] \in Nat /\ One \in Nat
  BY TwoTokens, OneIsPositive DEF Amounts
<1>2. inTokens \in Nat /\ Worth(pool[Token], Token, Asset, price) \in Nat
  BY <1>1, TwoTokens, WorthIsNat
<1>3. LiquidityToExit(target) = IF target = NoLimit \/ total = 0 THEN One ELSE Least(part, One)
  BY DEF LiquidityToExit
<1> HIDE DEF inTokens
<1>4. rest \in Nat /\ total \in Nat
  <2> DEFINE inPool == pool[Asset] + Worth(pool[Token], Token, Asset, price)
  <2>1. inPool \in Nat
    BY <1>1, <1>2
  <2> HIDE DEF inPool
  <2>2. Sub0(inPool, inTokens) \in Nat
    BY <1>2, <2>1, Sub0Of
  <2>. QED BY <1>2, <2>2, Sub0Of DEF inPool
<1> HIDE DEF rest, total
<1>5. CASE target = NoLimit \/ total = 0
  BY <1>1, <1>3, <1>5
<1>6. CASE ~(target = NoLimit \/ total = 0)
  <2>1. MulDiv(One * 101, rest, total) \in Nat
    BY <1>1, <1>4, <1>6, MulDivIsNat
  <2>2. part \in Nat
    BY <2>1, DivIsNat
  <2> HIDE DEF part
  <2>3. Least(part, One) \in 0..One
    BY <1>1, <2>2 DEF Least
  <2>. QED BY <1>3, <1>6, <2>3
<1>. QED BY <1>5, <1>6

LEMMA StartWithdrawKeepsIInv ==
  ASSUME IInv, NEW asked \in Withdrawals, StartWithdraw(asked)
  PROVE  IInv'
<1> DEFINE target == IF asked = NoLimit THEN NoLimit ELSE MulDiv(asked - balance[Asset], 101, 100)
           ratio == LiquidityToExit(target)
           out == [t \in Tokens |-> MulDiv(pool[t], ratio, One)]
           after == [t \in Tokens |-> balance[t] + out[t]]
           request == IF asked = NoLimit THEN NoLimit ELSE MulDiv(balance[Asset] + target, 105, 100)
           data == [Blank EXCEPT !.asked = asked, !.expected = after[Asset], !.seen = after, !.request = request]
<1>1. /\ asked > balance[Asset] /\ balance' = after /\ pool' = [t \in Tokens |-> pool[t] - out[t]]
      /\ debt' = debt /\ Begin("closing", data)
  BY DEF StartWithdraw
<1>2. balance \in Amounts /\ pool \in Amounts /\ debt \in DebtTable /\ price \in PriceTable
  BY DEF IInv, TypeOK, AmountsAreNatural
<1>3. balance[Asset] \in Nat /\ asked \in Nat /\ NoLimit \in Nat
  BY <1>2, TwoTokens, OneIsPositive, PositionAssumption DEF Amounts, PositionAssumption
<1>4. target \in Nat /\ request \in Nat
  <2> DEFINE missing == asked - balance[Asset]
             goal == balance[Asset] + target
  <2>1. missing \in Nat
    BY <1>1, <1>3
  <2> HIDE DEF missing
  <2>2. MulDiv(missing, 101, 100) \in Nat
    BY <2>1, MulDivIsNat
  <2>3. target \in Nat
    BY <1>3, <2>2 DEF missing
  <2> HIDE DEF target
  <2>4. goal \in Nat
    BY <1>3, <2>3
  <2> HIDE DEF goal
  <2>5. MulDiv(goal, 105, 100) \in Nat
    BY <2>4, MulDivIsNat
  <2>. QED BY <1>3, <2>3, <2>5 DEF goal
<1> HIDE DEF request, target
<1>5. ratio \in 0..One
  BY <1>2, <1>4, LeavesAPart
<1> HIDE DEF ratio
<1>6. ASSUME NEW t \in Tokens
      PROVE  out[t] \in Nat /\ out[t] <= pool[t] /\ after[t] \in Nat /\ pool[t] - out[t] \in Nat
  <2>1. pool[t] \in Nat /\ balance[t] \in Nat /\ ratio \in Nat /\ ratio <= One
    BY <1>2, <1>5, OneIsPositive DEF Amounts
  <2>2. out[t] = MulDiv(pool[t], ratio, One) /\ after[t] = balance[t] + out[t]
    OBVIOUS
  <2>3. out[t] \in Nat /\ out[t] <= pool[t]
    BY <2>1, <2>2, OneIsPositive, PartIsLess
  <2> HIDE DEF out, after
  <2>. QED BY <2>1, <2>2, <2>3
<1>7. after \in Amounts /\ after[Asset] \in Nat
  BY <1>6, TwoTokens DEF Amounts
<1> HIDE DEF after
<1>8. pool' \in Amounts
  BY <1>1, <1>6 DEF Amounts
<1>9. AmountsAreNatural'
  BY <1>1, <1>2, <1>7, <1>8 DEF AmountsAreNatural
<1>10. data \in LocalType
  BY <1>3, <1>4, <1>7, BlankIsLocal DEF LocalType
<1> HIDE DEF data
<1>11. pc' = "closing" /\ Ready'
  BY <1>1 DEF Begin, Ready
<1>. QED BY <1>1, <1>9, <1>10, <1>11, BeginKeepsIInv DEF Places

\* What is owed with the gap is a table of debts to plan with: a debt of the
\* dust amount is a debt without its gap, too.
LEMMA OwedIsTable ==
  ASSUME debt \in DebtTable
  PROVE  OwedAll \in OwedTable /\ DustIsOwed(OwedAll)
<1>1. ASSUME NEW t \in Tokens
      PROVE  OwedAll[t] \in DebtType /\ (OwedAll[t].debt >= DustAmount => IsOwed(OwedAll[t]))
  <2> DEFINE d == debt[t].debt
             w == WithGap(debt[t].debt)
             k == debt[t].collateral
  <2>1. d \in Nat /\ k \in Nat
    BY DEF DebtTable
  <2>2. w \in Nat /\ (d = 0 <=> w = 0)
    BY <2>1, GapAdds
  <2>3. OwedAll[t] = [debt |-> w, exact |-> d, collateral |-> k]
    BY DEF OwedAll, Owed
  <2> HIDE DEF d, w, k
  <2>. QED BY <2>1, <2>2, <2>3, OneIsPositive DEF DebtType, IsOwed
<1>2. OwedAll \in OwedTable
  <2>1. OwedAll = [t \in Tokens |-> OwedAll[t]]
    BY DEF OwedAll
  <2>. QED BY <1>1, <2>1 DEF OwedTable
<1>. QED BY <1>1, <1>2 DEF DustIsOwed

LEMMA ClosePlanKeepsIInv ==
  ASSUME IInv, ClosePlan
  PROVE  IInv'
<1> DEFINE plan == BuildIterationPlan(PlanSwapRepay, local.request, 0, 0, price, balance, OwedAll)
<1>1. /\ pc = "closing" /\ local' = [local EXCEPT !.plan = plan, !.spent = 0] /\ UNCHANGED amounts
      /\ Goto(IF plan.swap # None THEN "closeSwap" ELSE IF plan.repay # None THEN "closeRepay" ELSE "closed")
  BY DEF ClosePlan
<1>2. local \in LocalType /\ price \in PriceTable /\ balance \in Amounts /\ debt \in DebtTable
  BY DEF IInv, TypeOK, AmountsAreNatural
<1>3. /\ plan \in PlanType
      /\ plan.swap # None => plan.swap # plan.repay /\ Threshold[plan.swap] < plan.amount /\ plan.amount <= balance[plan.swap]
  <2>1. local.request \in Nat /\ 0 \in 0..One
    BY <1>2, OneIsPositive DEF LocalType
  <2>. QED BY <1>2, <2>1, OwedIsTable, PlanIsThere
<1> HIDE DEF plan
<1>4. local' \in LocalType /\ local'.plan = plan
  <2>1. local' = [local EXCEPT !.plan = plan, !.spent = 0]
    BY <1>1
  <2>2. plan \in PlanType /\ 0 \in Int
    BY <1>3
  <2>3. local' \in LocalType
    BY <1>2, <2>1, <2>2 DEF LocalType
  <2>4. local'.plan = plan
    BY <1>2, <2>1 DEF LocalType
  <2>. QED BY <2>3, <2>4
<1>5. AmountsAreNatural' /\ balance' = balance
  BY <1>1, UnchangedAmounts DEF IInv, TypeOK, amounts
<1>6. CASE plan.swap # None
  <2>1. plan.swap \in Tokens /\ plan.amount \in Int /\ Threshold[plan.swap] \in Nat
    BY <1>3, <1>6, OneIsPositive DEF PlanType
  <2>2. 0 <= plan.amount /\ plan.amount <= balance[plan.swap]
    BY <1>3, <1>6, <2>1
  <2>3. Goto("closeSwap") /\ pc' = "closeSwap"
    BY <1>1, <1>6 DEF Goto
  <2>4. Ready'
    BY <1>4, <1>5, <2>1, <2>2, <2>3 DEF Ready
  <2>. QED BY <1>1, <1>4, <1>5, <2>3, <2>4, GotoKeepsIInv DEF Places
<1>7. CASE plan.swap = None /\ plan.repay # None
  <2>1. plan.repay \in Tokens
    BY <1>3, <1>7 DEF PlanType
  <2>2. Goto("closeRepay") /\ pc' = "closeRepay"
    BY <1>1, <1>7 DEF Goto
  <2>3. Ready'
    BY <1>4, <2>1, <2>2 DEF Ready
  <2>. QED BY <1>1, <1>4, <1>5, <2>2, <2>3, GotoKeepsIInv DEF Places
<1>8. CASE plan.swap = None /\ plan.repay = None
  <2>1. Goto("closed") /\ pc' = "closed"
    BY <1>1, <1>8 DEF Goto
  <2>2. Ready'
    BY <2>1 DEF Ready
  <2>. QED BY <1>1, <1>4, <1>5, <2>1, <2>2, GotoKeepsIInv DEF Places
<1>. QED BY <1>6, <1>7, <1>8

LEMMA CloseSwapKeepsIInv ==
  ASSUME IInv, CloseSwap
  PROVE  IInv'
<1> DEFINE p == local.plan
           e == IF p.swap = Asset THEN Sub0(local.expected, p.amount)
                ELSE local.expected + Worth(p.amount, Token, Asset, price)
           next == IF p.swap = Token /\ Reached' THEN "closed" ELSE IF p.repay # None THEN "closeRepay" ELSE "closeCheck"
<1>1. pc = "closeSwap" /\ local' = [local EXCEPT !.spent = p.amount, !.expected = e] /\ Goto(next)
  BY DEF CloseSwap
<1>2. PICK s \in Slippages : Swap(p.swap, p.amount, s)
  BY DEF CloseSwap
<1>3. local \in LocalType /\ price \in PriceTable /\ AmountsAreNatural
  BY DEF IInv, TypeOK
<1>4. p \in PlanType /\ local.expected \in Nat
  BY <1>3 DEF LocalType
<1>5. p.swap \in Tokens /\ 0 <= p.amount /\ p.amount <= balance[p.swap]
  BY <1>1 DEF IInv, Ready
<1>6. p.amount \in Nat /\ p.amount \in Int
  BY <1>4, <1>5 DEF PlanType
<1>7. AmountsAreNatural'
  <2> DEFINE u == p.swap
             n == p.amount
  <2>1. u \in Tokens /\ n \in Nat /\ n <= balance[u] /\ Swap(u, n, s)
    BY <1>2, <1>5, <1>6
  <2> HIDE DEF u, n
  <2>. QED BY <1>3, <2>1, SwapKeepsAmounts
<1>8. e \in Nat
  <2>1. Sub0(local.expected, p.amount) \in Nat
    BY <1>4, <1>6, Sub0Of
  <2>2. Worth(p.amount, Token, Asset, price) \in Nat
    BY <1>3, <1>6, TwoTokens, WorthIsNat
  <2>. QED BY <1>4, <2>1, <2>2
<1> HIDE DEF e
<1>9. local' \in LocalType /\ local'.plan = local.plan
  BY <1>1, <1>3, <1>6, <1>8 DEF LocalType
<1>10. CASE next = "closeRepay"
  <2>1. p.repay \in Tokens
    BY <1>4, <1>10 DEF PlanType
  <2>2. pc' = "closeRepay"
    BY <1>1, <1>10 DEF Goto
  <2>3. Ready'
    BY <1>9, <2>1, <2>2 DEF Ready
  <2>. QED BY <1>1, <1>7, <1>9, <1>10, <2>3, GotoKeepsIInv DEF Places
<1>11. CASE next \in {"closed", "closeCheck"}
  <2> HIDE DEF next
  <2>1. pc' \in {"closed", "closeCheck"}
    BY <1>1, <1>11 DEF Goto
  <2>2. Ready'
    BY <2>1 DEF Ready
  <2>. QED BY <1>1, <1>7, <1>9, <1>11, <2>2, GotoKeepsIInv DEF Places
<1>. QED BY <1>10, <1>11

LEMMA CloseRepayKeepsIInv ==
  ASSUME IInv, CloseRepay
  PROVE  IInv'
<1> DEFINE b == local.plan.repay
           has == balance[b]
           r == Repayment(b, has)
           counted == IF r.paid < r.sent THEN MulDiv(r.expected, r.paid, r.sent) ELSE r.expected
           e == IF b = Asset THEN Sub0(local.expected, r.sent) ELSE local.expected + counted
<1>1. pc = "closeRepay"
  BY DEF CloseRepay
<1>2. \/ Revert
      \/ Repay(b, r) /\ local' = [local EXCEPT !.expected = e] /\ Goto("closeCheck")
  BY DEF CloseRepay
<1>3. local \in LocalType /\ AmountsAreNatural /\ b \in Tokens
  BY <1>1 DEF IInv, TypeOK, Ready
<1>4. local.expected \in Nat /\ has \in Nat
  BY <1>3 DEF LocalType, AmountsAreNatural, Amounts
<1> HIDE DEF b, has
<1>5. Fits(b, has, r)
  BY <1>3, <1>4, RepaymentFits
<1> HIDE DEF r
<1>6. r.paid \in Nat /\ r.sent \in Nat /\ r.expected \in Nat
  BY <1>5 DEF Fits
<1>7. counted \in Nat
  <2>1. CASE r.paid < r.sent
    <3>1. r.sent \in Nat \ {0}
      BY <1>6, <2>1
    <3>. QED BY <1>6, <2>1, <3>1, MulDivIsNat
  <2>2. CASE ~(r.paid < r.sent)
    BY <1>6, <2>2
  <2>. QED BY <2>1, <2>2
<1> HIDE DEF counted
<1>8. e \in Nat
  <2>1. Sub0(local.expected, r.sent) \in Nat
    BY <1>4, <1>6, Sub0Of
  <2>. QED BY <1>4, <1>7, <2>1
<1> HIDE DEF e
<1>9. CASE Revert
  BY <1>1, <1>9, RevertKeepsIInv
<1>10. CASE Repay(b, r) /\ local' = [local EXCEPT !.expected = e] /\ Goto("closeCheck")
  <2>1. AmountsAreNatural'
    BY <1>3, <1>4, <1>5, <1>10, RepayKeepsAmounts
  <2>2. local' \in LocalType
    BY <1>3, <1>8, <1>10 DEF LocalType
  <2>3. pc' = "closeCheck" /\ Ready'
    BY <1>10 DEF Goto, Ready
  <2>. QED BY <1>1, <1>10, <2>1, <2>2, <2>3, GotoKeepsIInv DEF Places
<1>. QED BY <1>2, <1>9, <1>10

LEMMA CloseCheckKeepsIInv ==
  ASSUME IInv, CloseCheck
  PROVE  IInv'
<1> DEFINE next == IF balance = local.seen THEN "closed" ELSE "closing"
<1>1. pc = "closeCheck" /\ local' = [local EXCEPT !.seen = balance] /\ Goto(next) /\ UNCHANGED amounts
  BY DEF CloseCheck
<1>2. local' \in LocalType
  BY <1>1 DEF IInv, TypeOK, LocalType, AmountsAreNatural
<1>3. AmountsAreNatural'
  BY <1>1, UnchangedAmounts DEF IInv, TypeOK
<1>4. next \in Places /\ next \in {"closed", "closing"}
  BY DEF Places
<1> HIDE DEF next
<1>5. Ready'
  BY <1>1, <1>4 DEF Goto, Ready
<1>. QED BY <1>1, <1>2, <1>3, <1>4, <1>5, GotoKeepsIInv

LEMMA HandOverKeepsIInv ==
  ASSUME IInv, HandOver
  PROVE  IInv'
<1>1. pc = "closed"
  BY DEF HandOver
<1>2. CASE Revert
  BY <1>1, <1>2, RevertKeepsIInv
<1>3. CASE balance' = [balance EXCEPT ![Asset] = Sub0(@, local.asked)] /\ UNCHANGED <<pool, debt>> /\ Done
  <2>1. balance \in [Tokens -> Nat] /\ local.asked \in Nat /\ pool \in Amounts /\ debt \in DebtTable
    BY DEF IInv, TypeOK, AmountsAreNatural, Amounts, LocalType
  <2>2. Sub0(balance[Asset], local.asked) \in Nat
    BY <2>1, TwoTokens, Sub0Of
  <2>3. balance' \in Amounts
    BY <1>3, <2>1, <2>2 DEF Amounts
  <2>4. AmountsAreNatural'
    BY <1>3, <2>1, <2>3 DEF AmountsAreNatural
  <2>. QED BY <1>3, <2>4, DoneKeepsIInv
<1>. QED BY <1>2, <1>3 DEF HandOver

-----------------------------------------------------------------------------
(* IInv: a withdraw step *)

LEMMA PlanIsTyped ==
  ASSUME NEW prices \in PriceTable, NEW held \in Amounts, NEW share \in 0..One,
         NEW owed \in OwedTable, DustIsOwed(owed), NEW requested \in Nat, NEW toReduce \in Nat,
         NEW kind \in Kinds \union {None}, ~PlanReverts(kind, share, prices, owed)
  PROVE  BuildIterationPlan(kind, requested, share, toReduce, prices, held, owed) \in PlanType
<1> DEFINE wanted == IF requested = NoLimit THEN NoLimit ELSE Sub0(requested, held[Asset])
           repays == kind # PlanSwapOnly /\ wanted >= Threshold[Asset]
           b == OwedFirst(owed)
           inCollateral == IF b = Token \/ wanted = NoLimit THEN wanted ELSE Worth(wanted, Asset, Token, prices)
           p == BuildIterationPlan(kind, requested, share, toReduce, prices, held, owed)
           a == Other(b)
           propB == PropOf(b, share)
           d == owed[b]
<1>1. held[Asset] \in Nat /\ NoLimit \in Nat
  BY TwoTokens, OneIsPositive DEF Amounts
<1>2. wanted \in Nat
  BY <1>1, Sub0Of
<1>3. b \in Tokens /\ a \in Tokens
  BY TwoTokens DEF OwedFirst
<1>4. p = IF ~repays \/ d.debt < DustAmount THEN PlanForLeftovers(prices, held, share)
          ELSE IF kind = PlanRepaySwapRepay THEN PlanRepaySwapRepayOf(d, a, propB, prices, held, toReduce)
          ELSE PlanForSellAndRepay(inCollateral, d, a, prices, held)
  BY DEF BuildIterationPlan
<1> HIDE DEF wanted, p
<1>5. inCollateral \in Nat
  BY <1>2, TwoTokens, WorthIsNat
<1>6. d \in DebtType /\ (d.debt >= DustAmount => IsOwed(d)) /\ d.debt \in Nat
  BY <1>3 DEF OwedTable, DustIsOwed, DebtType
<1>7. kind = PlanRepaySwapRepay /\ d.debt >= DustAmount => ~EstimateReverts(prices, a, propB, d)
  BY DEF PlanReverts
<1>8. propB \in 0..One
  BY OneIsPositive DEF PropOf
<1> HIDE DEF b, repays, inCollateral, a, propB, d
<1>9. CASE ~repays \/ d.debt < DustAmount
  <2>1. PlanForLeftovers(prices, held, share) \in PlanType
    BY LeftoversAreThere
  <2>. QED BY <1>4, <1>9, <2>1 DEF p
<1>10. CASE repays /\ ~(d.debt < DustAmount)
  <2>1. IsOwed(d) /\ d.debt >= DustAmount
    BY <1>6, <1>10, OneIsPositive
  <2>2. CASE kind = PlanRepaySwapRepay
    <3>1. SharesAreDefined(prices, a, propB, d)
      <4>1. d.collateral \in Nat /\ d.debt \in Nat \ {0}
        BY <1>6, <2>1 DEF DebtType, IsOwed
      <4>2. PerDebt(prices, a, d) \in Nat
        <5> DEFINE k == One * d.collateral
                   o == Other(a)
        <5>1. k \in Nat /\ o \in Tokens
          BY <1>3, <4>1, OneIsPositive, TwoTokens
        <5> HIDE DEF k, o
        <5>2. prices[a] \in Nat /\ prices[o] \in Nat \ {0}
          BY <1>3, <5>1 DEF PriceTable
        <5>3. MulDiv(k, prices[a], prices[o]) \in Nat
          BY <5>1, <5>2, MulDivIsNat
        <5>. QED BY <4>1, <5>3, DivIsNat DEF PerDebt, k, o
      <4>3. ~(propB = One /\ PerDebt(prices, a, d) = 0)
        BY <1>7, <2>1, <2>2 DEF EstimateReverts
      <4>. QED BY <1>8, <4>2, <4>3, OneIsPositive DEF SharesAreDefined
    <3>2. PlanRepaySwapRepayOf(d, a, propB, prices, held, toReduce) \in PlanType
      BY <1>3, <1>6, <1>8, <2>1, <3>1, SwapBetweenIsThere
    <3>. QED BY <1>4, <1>10, <2>2, <3>2 DEF p
  <2>3. CASE kind # PlanRepaySwapRepay
    <3>1. PlanForSellAndRepay(inCollateral, d, a, prices, held) \in PlanType
      BY <1>3, <1>5, <1>6, <2>1, SaleIsThere
    <3>. QED BY <1>4, <1>10, <2>3, <3>1 DEF p
  <2>. QED BY <2>2, <2>3
<1>. QED BY <1>9, <1>10 DEF p

LEMMA ExitKeepsAmounts ==
  ASSUME AmountsAreNatural, balance' = Exited, pool' = NoAmounts, debt' = debt
  PROVE  AmountsAreNatural'
<1>1. \A t \in Tokens : balance[t] + pool[t] \in Nat
  BY DEF AmountsAreNatural, Amounts
<1>2. Exited \in Amounts /\ NoAmounts \in Amounts
  BY <1>1 DEF Exited, NoAmounts, Amounts
<1>. QED BY <1>2 DEF AmountsAreNatural

LEMMA StartStepKeepsIInv ==
  ASSUME IInv, NEW s \in Steps, StartStep(s)
  PROVE  IInv'
<1> DEFINE p == IF s.fromPool THEN prop ELSE s.prop
           data == [Blank EXCEPT !.kind = s.kind, !.fromPool = s.fromPool, !.prop = p,
                                 !.toReduce = s.toReduce, !.addition = s.addition]
<1>1. Begin("step", data) /\ balance' = Exited /\ pool' = NoAmounts /\ debt' = debt
  BY DEF StartStep
<1>2. s \in StepType /\ prop \in 0..One
  BY PositionAssumption DEF PositionAssumption, IInv, TypeOK
<1>3. s.kind \in Kinds /\ s.fromPool \in BOOLEAN /\ s.prop \in 0..One /\ s.toReduce \in Nat /\ s.addition \in Nat
  BY <1>2 DEF StepType, Kinds
<1>4. p \in 0..One
  BY <1>2, <1>3
<1> HIDE DEF p
<1>5. data \in LocalType
  BY <1>3, <1>4, BlankIsLocal DEF LocalType
<1> HIDE DEF data
<1>6. AmountsAreNatural'
  BY <1>1, ExitKeepsAmounts DEF IInv, TypeOK
<1>7. Ready'
  BY <1>1 DEF Begin, Ready
<1>. QED BY <1>1, <1>5, <1>6, <1>7, BeginKeepsIInv DEF Places

LEMMA StepPlanKeepsIInv ==
  ASSUME IInv, StepPlan
  PROVE  IInv'
<1> DEFINE plan == BuildIterationPlan(local.kind, NoLimit, local.prop, local.toReduce, price, balance, OwedAll)
           reverts == PlanReverts(local.kind, local.prop, price, OwedAll)
<1>1. pc = "step"
  BY DEF StepPlan
<1>2. CASE reverts
  BY <1>1, <1>2, RevertKeepsIInv DEF StepPlan
<1>3. CASE ~reverts
  <2>1. local' = [local EXCEPT !.plan = plan] /\ Goto("swap1") /\ UNCHANGED amounts
    BY <1>3 DEF StepPlan
  <2>2. local \in LocalType /\ price \in PriceTable /\ balance \in Amounts /\ debt \in DebtTable
    BY DEF IInv, TypeOK, AmountsAreNatural
  <2>3. local.kind \in Kinds \union {None} /\ local.prop \in 0..One /\ local.toReduce \in Nat /\ NoLimit \in Nat
    BY <2>2, OneIsPositive DEF LocalType
  <2>4. plan \in PlanType
    BY <1>3, <2>2, <2>3, OwedIsTable, PlanIsTyped
  <2> HIDE DEF plan
  <2>5. local' \in LocalType
    BY <2>1, <2>2, <2>4 DEF LocalType
  <2>6. AmountsAreNatural' /\ Ready'
    BY <2>1, UnchangedAmounts DEF Goto, Ready, IInv, TypeOK
  <2>. QED BY <1>1, <2>1, <2>5, <2>6, GotoKeepsIInv DEF Places
<1>. QED BY <1>2, <1>3

LEMMA StepSwapKeepsIInv ==
  ASSUME IInv, pc \notin {"idle", "ready"}, NEW next \in {"repay1", "repay2", "enter"}, StepSwap(next),
         local.plan.swap \in Tokens, next = "repay2" => local.plan.repay \in Tokens
  PROVE  IInv'
<1> DEFINE p == local.plan
           t == p.swap
<1>1. local \in LocalType /\ price \in PriceTable /\ prop \in 0..One /\ AmountsAreNatural /\ saved \in SavedType
  BY DEF IInv, TypeOK
<1>2. p \in PlanType
  BY <1>1 DEF LocalType
<1>3. p.amount \in Int /\ t \in Tokens /\ balance[t] \in Nat /\ Threshold[t] \in Nat /\ RouteAmounts \subseteq Nat
  BY <1>1, <1>2, OneIsPositive, PositionAssumption DEF PlanType, AmountsAreNatural, Amounts, PositionAssumption
<1>4. CASE Revert
  BY <1>4, RevertKeepsIInv
<1>5. ASSUME NEW n \in Int, ~(n > balance[t]),
             /\ IF n > Threshold[t] THEN \E s \in Slippages : Swap(t, n, s) ELSE UNCHANGED amounts
             /\ prop' \in IF local.fromPool /\ n > Threshold[t] THEN Props ELSE {prop}
             /\ local' = [local EXCEPT !.prop = IF local.fromPool THEN prop' ELSE @]
             /\ pc' = next /\ price' = price /\ saved' = saved
      PROVE  IInv'
  <2>2. AmountsAreNatural'
    <3>1. CASE n > Threshold[t]
      <4>1. PICK s \in Slippages : Swap(t, n, s)
        BY <1>5, <3>1
      <4>2. n \in Nat /\ n <= balance[t]
        BY <1>3, <1>5, <3>1
      <4> HIDE DEF t
      <4>. QED BY <1>1, <1>3, <4>1, <4>2, SwapKeepsAmounts
    <3>2. CASE ~(n > Threshold[t])
      BY <1>1, <1>5, <3>2, UnchangedAmounts
    <3>. QED BY <3>1, <3>2
  <2>3. prop' \in 0..One
    BY <1>1, <1>5, PositionAssumption DEF PositionAssumption
  <2> DEFINE share == IF local.fromPool THEN prop' ELSE local.prop
  <2>4. share \in 0..One /\ local' = [local EXCEPT !.prop = share]
    BY <1>1, <1>5, <2>3 DEF LocalType
  <2> HIDE DEF share
  <2>5. local' \in LocalType /\ local'.plan = local.plan
    BY <1>1, <2>4 DEF LocalType
  <2>6. Ready'
    BY <1>5, <2>5 DEF Ready
  <2>7. pc' \in Places
    BY <1>5 DEF Places
  <2>. QED BY <1>1, <1>5, <2>2, <2>3, <2>5, <2>6, <2>7 DEF IInv, TypeOK
<1>6. CASE ~Revert
  <2>1. PICK n \in {p.amount} \union RouteAmounts :
          /\ ~(n > balance[t])
          /\ IF n > Threshold[t] THEN \E s \in Slippages : Swap(t, n, s) ELSE UNCHANGED amounts
          /\ prop' \in IF local.fromPool /\ n > Threshold[t] THEN Props ELSE {prop}
          /\ local' = [local EXCEPT !.prop = IF local.fromPool THEN prop' ELSE @]
          /\ pc' = next /\ price' = price /\ saved' = saved
    BY <1>6 DEF StepSwap
  <2>2. n \in {p.amount} \union RouteAmounts
    BY <2>1
  <2>3. \A m \in RouteAmounts : m \in Int
    BY PositionAssumption DEF PositionAssumption
  <2> HIDE DEF p
  <2>4. n \in Int
    BY <1>3, <2>2, <2>3
  <2>. QED BY <1>5, <2>1, <2>4 DEF p
<1>. QED BY <1>4, <1>6

LEMMA Swap1KeepsIInv ==
  ASSUME IInv, Swap1
  PROVE  IInv'
<1>1. pc = "swap1" /\ local \in LocalType /\ AmountsAreNatural
  BY DEF Swap1, IInv, TypeOK
<1>2. CASE local.plan.swap # None /\ local.kind # PlanRepaySwapRepay
  <2>1. local.plan.swap \in Tokens
    BY <1>1, <1>2 DEF LocalType, PlanType
  <2>. QED BY <1>1, <1>2, <2>1, StepSwapKeepsIInv DEF Swap1
<1>3. CASE ~(local.plan.swap # None /\ local.kind # PlanRepaySwapRepay)
  <2>1. Goto("repay1") /\ UNCHANGED amounts /\ local' = local
    BY <1>3 DEF Swap1
  <2>2. AmountsAreNatural' /\ Ready'
    BY <1>1, <2>1, UnchangedAmounts DEF Goto, Ready
  <2>. QED BY <1>1, <2>1, <2>2, GotoKeepsIInv DEF Places
<1>. QED BY <1>2, <1>3

LEMMA Swap2KeepsIInv ==
  ASSUME IInv, Swap2
  PROVE  IInv'
<1>1. pc = "swap2" /\ local \in LocalType
  BY DEF Swap2, IInv, TypeOK
<1>2. local.plan.swap \in Tokens
  BY <1>1 DEF IInv, Ready
<1>3. local.plan.repay \in Tokens \union {None}
  BY <1>1 DEF LocalType, PlanType
<1>. QED BY <1>1, <1>2, <1>3, StepSwapKeepsIInv DEF Swap2

LEMMA Repay1KeepsIInv ==
  ASSUME IInv, Repay1
  PROVE  IInv'
<1> DEFINE b == local.plan.repay
           has == balance[b]
           fixes == local.kind # PlanRepaySwapRepay /\ b = None /\ local.fromPool /\ local.prop \notin {0, One}
           next == IF local.plan.swap = None THEN "enter"
                   ELSE IF local.kind = PlanRepaySwapRepay THEN "swap2" ELSE IF fixes THEN "fix" ELSE "enter"
<1>1. pc = "repay1" /\ local' = local /\ Goto(next)
      /\ IF b # None THEN Repay(b, Repayment(b, has)) ELSE UNCHANGED amounts
  BY DEF Repay1
<1>2. local \in LocalType /\ AmountsAreNatural
  BY DEF IInv, TypeOK
<1>3. b \in Tokens \union {None} /\ local.plan.swap \in Tokens \union {None}
  BY <1>2 DEF LocalType, PlanType
<1>4. AmountsAreNatural'
  <2>1. CASE b # None
    <3>1. b \in Tokens /\ has \in Nat
      BY <1>2, <1>3, <2>1 DEF AmountsAreNatural, Amounts
    <3>2. Repay(b, Repayment(b, has))
      BY <1>1, <2>1
    <3> HIDE DEF b, has
    <3>. QED BY <1>2, <3>1, <3>2, MaybeRepayKeepsAmounts
  <2>2. CASE b = None
    BY <1>1, <1>2, <2>2, UnchangedAmounts
  <2>. QED BY <2>1, <2>2
<1>5. /\ next \in {"enter", "swap2", "fix"}
      /\ next = "swap2" => local.plan.swap \in Tokens
      /\ next = "fix" => local.prop \notin {0, One}
  BY <1>3
<1> HIDE DEF next
<1>6. Ready'
  BY <1>1, <1>5 DEF Goto, Ready
<1>. QED BY <1>1, <1>2, <1>4, <1>5, <1>6, GotoKeepsIInv DEF Places

LEMMA BorrowToProportionsKeepsIInv ==
  ASSUME IInv, pc \notin {"idle", "ready"}, NEW c \in Tokens, NEW checked \in BOOLEAN,
         Share(Other(c), local.prop) # 0, BorrowToProportions(c, checked)
  PROVE  IInv'
<1> DEFINE hasC == balance[c]
           has == balance[Other(c)]
<1>1. hasC \in Nat /\ has \in Nat
  BY TwoTokens DEF IInv, TypeOK, AmountsAreNatural, Amounts
<1>2. Revert \/ OpenPosition(c, hasC, has)
  BY DEF BorrowToProportions
<1>3. hasC <= balance[c]
  BY <1>1
<1> HIDE DEF hasC, has
<1>. QED BY <1>1, <1>2, <1>3, RevertKeepsIInv, OpenPositionKeepsIInv

\* Where a withdraw step borrows or repays a second time, the pool has a share
\* for the other token.
LEMMA BorrowsIntoShare ==
  ASSUME IInv, NEW b \in Tokens, BorrowsInstead(b)
  PROVE  Share(Other(b), local.prop) # 0
<1> DEFINE c == Other(b)
           cost == [t \in Tokens |-> balance[t] * price[t]]
           both == cost[c] + cost[b]
           s == Share(c, local.prop)
<1>1. MulDiv(both, s, One) - cost[c] > Threshold[c] * price[c]
  BY DEF BorrowsInstead
<1>2. c \in Tokens /\ One \in Nat \ {0}
  BY TwoTokens, OneIsPositive
<1>3. \A t \in Tokens : balance[t] \in Nat /\ price[t] \in Nat /\ Threshold[t] \in Nat
  BY OneIsPositive DEF IInv, TypeOK, AmountsAreNatural, Amounts, PriceTable
<1>4. cost[c] \in Nat /\ cost[b] \in Nat /\ Threshold[c] * price[c] \in Nat
  BY <1>2, <1>3
<1> HIDE DEF c, cost, s
<1>5. both \in Nat
  BY <1>4
<1> HIDE DEF both
<1> SUFFICES ASSUME s = 0 PROVE FALSE
  BY DEF s, c
<1>6. both * s = 0 /\ 0 \div One = 0
  BY <1>2, <1>5
<1>7. MulDiv(both, s, One) = 0
  BY <1>6 DEF MulDiv
<1>. QED BY <1>1, <1>4, <1>7

LEMMA SecondRepayIsOwed ==
  ASSUME IInv, NEW b \in Tokens, NEW n, n = AmountToRepay2(b), n > Threshold[b]
  PROVE  n \in Nat /\ Share(Other(b), local.prop) # 0 /\ Owed(b).debt # 0
<1> DEFINE c == Other(b)
           x == Share(c, local.prop)
           y == Share(b, local.prop)
           alpha == MulDiv(price[c], One, price[b])
           mine == x * balance[b] * price[b]
           others == y * balance[c] * price[c]
           excess == mine - others
           w == Owed(b).debt
           k == Owed(b).collateral
           perUnit == MulDiv(y * alpha, k, w) \div One + x
<1>1. n = IF w = 0 \/ excess <= 0 THEN 0 ELSE (excess \div perUnit) \div price[b]
  BY DEF AmountToRepay2
<1>2. /\ c \in Tokens /\ One \in Nat \ {0} /\ Threshold[b] \in Nat
      /\ price[b] \in Nat \ {0} /\ price[c] \in Nat \ {0} /\ balance[b] \in Nat /\ balance[c] \in Nat
  BY TwoTokens, OneIsPositive DEF IInv, TypeOK, AmountsAreNatural, Amounts, PriceTable
<1>3. x \in Nat /\ y \in Nat
  BY <1>2, SharesAddUp DEF IInv, TypeOK, LocalType
<1>4. w \in Nat /\ k \in Nat
  <2>1. debt[b].debt \in Nat /\ debt[b].collateral \in Nat
    BY DEF IInv, TypeOK, AmountsAreNatural, DebtTable
  <2>. QED BY <2>1, GapAdds DEF Owed
<1>5. alpha \in Nat
  BY <1>2, MulDivIsNat
<1>6. mine \in Nat /\ others \in Nat /\ (x = 0 => mine = 0)
  BY <1>2, <1>3
<1>7. w # 0 /\ excess > 0
  <2> HIDE DEF w, excess, perUnit
  <2>1. ~(w = 0 \/ excess <= 0)
    BY <1>1, <1>2
  <2>2. excess \in Int
    BY <1>6 DEF excess
  <2>. QED BY <2>1, <2>2
<1> HIDE DEF alpha, mine, others, w, k
<1>8. x # 0 /\ excess \in Nat
  BY <1>6, <1>7
<1>9. perUnit \in Nat \ {0}
  <2> DEFINE ya == y * alpha
             m == MulDiv(ya, k, w)
  <2>1. ya \in Nat
    BY <1>3, <1>5
  <2> HIDE DEF ya
  <2>2. m \in Nat
    BY <1>4, <1>7, <2>1, MulDivIsNat
  <2>3. perUnit = m \div One + x
    BY DEF ya
  <2> HIDE DEF m, perUnit, x
  <2>4. m \div One \in Nat
    BY <1>2, <2>2, DivIsNat
  <2>. QED BY <1>3, <1>8, <2>3, <2>4
<1> HIDE DEF perUnit, excess
<1>10. (excess \div perUnit) \div price[b] \in Nat
  BY <1>2, <1>8, <1>9, DivIsNat
<1>11. n \in Nat
  BY <1>1, <1>10
<1>. QED BY <1>7, <1>8, <1>11 DEF w, x, c

LEMMA Repay2KeepsIInv ==
  ASSUME IInv, Repay2
  PROVE  IInv'
<1> DEFINE b == local.plan.repay
           n == AmountToRepay2(b)
<1>1. pc = "repay2"
  BY DEF Repay2
<1>2. \/ BorrowsInstead(b) /\ BorrowToProportions(b, TRUE)
      \/ n > Threshold[b] /\ local' = [local EXCEPT !.toRepay = n, !.owedBefore = NoLimit]
         /\ Goto("secondRepay") /\ UNCHANGED amounts
      \/ Goto("enter") /\ UNCHANGED amounts /\ UNCHANGED local
  BY DEF Repay2
<1>3. b \in Tokens /\ local \in LocalType /\ AmountsAreNatural
  BY <1>1 DEF IInv, Ready, TypeOK
<1> HIDE DEF n
<1>4. CASE BorrowsInstead(b) /\ BorrowToProportions(b, TRUE)
  <2> HIDE DEF b
  <2>1. Share(Other(b), local.prop) # 0
    BY <1>3, <1>4, BorrowsIntoShare
  <2>. QED BY <1>1, <1>3, <1>4, <2>1, BorrowToProportionsKeepsIInv
<1>5. CASE n > Threshold[b] /\ local' = [local EXCEPT !.toRepay = n, !.owedBefore = NoLimit]
           /\ Goto("secondRepay") /\ UNCHANGED amounts
  <2>1. n \in Nat /\ Share(Other(b), local.prop) # 0
    <3> HIDE DEF b
    <3>. QED BY <1>3, <1>5, SecondRepayIsOwed DEF n
  <2>2. local' \in LocalType /\ local'.plan = local.plan /\ local'.prop = local.prop
    BY <1>3, <1>5, <2>1, OneIsPositive DEF LocalType
  <2>3. AmountsAreNatural'
    BY <1>3, <1>5, UnchangedAmounts
  <2>4. pc' = "secondRepay"
    BY <1>5 DEF Goto
  <2>5. Ready'
    BY <1>3, <2>1, <2>2, <2>4 DEF Ready
  <2>. QED BY <1>1, <1>5, <2>2, <2>3, <2>5, GotoKeepsIInv DEF Places
<1>6. CASE Goto("enter") /\ UNCHANGED amounts /\ UNCHANGED local
  <2>1. AmountsAreNatural' /\ Ready'
    BY <1>3, <1>6, UnchangedAmounts DEF Goto, Ready
  <2>. QED BY <1>1, <1>3, <1>6, <2>1, GotoKeepsIInv DEF Places
<1>. QED BY <1>2, <1>4, <1>5, <1>6

LEMMA SecondRepayKeepsIInv ==
  ASSUME IInv, SecondRepay
  PROVE  IInv'
<1> DEFINE b == local.plan.repay
           r == Repayment(b, local.toRepay)
           missing == Sub0(local.toRepay, r.paid)
           owed == WithGap(debt[b].debt - r.paid)
<1>1. pc = "secondRepay" /\ Repay(b, r)
  BY DEF SecondRepay
<1>2. \/ Goto("enter") /\ UNCHANGED local
      \/ local' = [local EXCEPT !.toRepay = missing, !.owedBefore = owed] /\ Goto("secondRepay")
      \/ Goto("reborrow") /\ UNCHANGED local
  BY DEF SecondRepay
<1>3. b \in Tokens /\ local \in LocalType /\ AmountsAreNatural /\ Share(Other(b), local.prop) # 0
  BY <1>1 DEF IInv, Ready, TypeOK
<1>4. local.toRepay \in Nat
  BY <1>3 DEF LocalType
<1>5. Fits(b, local.toRepay, r)
  <2> HIDE DEF b
  <2>. QED BY <1>3, <1>4, RepaymentFits
<1>6. AmountsAreNatural'
  <2> HIDE DEF b, r
  <2>. QED BY <1>1, <1>3, <1>4, <1>5, RepayKeepsAmounts
<1>7. missing \in Nat /\ owed \in Nat
  <2>1. r.paid \in Nat /\ r.paid <= debt[b].debt /\ debt[b].debt \in Nat
    BY <1>3, <1>5 DEF Fits, AmountsAreNatural, DebtTable
  <2> DEFINE left == debt[b].debt - r.paid
  <2> HIDE DEF r, b
  <2>2. left \in Nat
    BY <2>1
  <2> HIDE DEF left
  <2>3. WithGap(left) \in Nat
    BY <2>2, GapAdds
  <2>. QED BY <1>4, <2>1, <2>3, Sub0Of DEF left
<1> HIDE DEF missing, owed, r
<1>8. CASE Goto("enter") /\ UNCHANGED local
  <2>1. Ready'
    BY <1>8 DEF Goto, Ready
  <2>. QED BY <1>1, <1>3, <1>6, <1>8, <2>1, GotoKeepsIInv DEF Places
<1>9. CASE local' = [local EXCEPT !.toRepay = missing, !.owedBefore = owed] /\ Goto("secondRepay")
  <2>1. local' \in LocalType /\ local'.plan = local.plan /\ local'.prop = local.prop
    BY <1>3, <1>7, <1>9 DEF LocalType
  <2>2. pc' = "secondRepay"
    BY <1>9 DEF Goto
  <2>3. Ready'
    BY <1>3, <2>1, <2>2 DEF Ready
  <2>. QED BY <1>1, <1>6, <1>9, <2>1, <2>3, GotoKeepsIInv DEF Places
<1>10. CASE Goto("reborrow") /\ UNCHANGED local
  <2>1. Ready'
    BY <1>3, <1>10 DEF Goto, Ready
  <2>. QED BY <1>1, <1>3, <1>6, <1>10, <2>1, GotoKeepsIInv DEF Places
<1>. QED BY <1>2, <1>8, <1>9, <1>10

LEMMA ReborrowKeepsIInv ==
  ASSUME IInv, Reborrow
  PROVE  IInv'
<1> DEFINE b == local.plan.repay
<1>1. pc = "reborrow" /\ BorrowToProportions(b, FALSE)
  BY DEF Reborrow
<1>2. b \in Tokens /\ Share(Other(b), local.prop) # 0
  BY <1>1 DEF IInv, Ready
<1> HIDE DEF b
<1>. QED BY <1>1, <1>2, BorrowToProportionsKeepsIInv

LEMMA FixLeftoversKeepsIInv ==
  ASSUME IInv, FixLeftovers
  PROVE  IInv'
<1> DEFINE target == TargetAmounts(price, balance, local.prop)
           c == IF balance[Asset] > target[Asset] THEN Asset ELSE Token
<1>1. pc = "fix" /\ (BorrowToProportions(c, TRUE) \/ (Goto("enter") /\ UNCHANGED amounts /\ UNCHANGED local))
  BY DEF FixLeftovers
<1>2. c \in Tokens /\ Other(c) \in Tokens /\ local \in LocalType /\ AmountsAreNatural
  BY TwoTokens DEF IInv, TypeOK
<1> HIDE DEF c
<1>3. Share(Other(c), local.prop) # 0
  <2>1. local.prop \in 0..One /\ local.prop \notin {0, One}
    BY <1>1, <1>2 DEF LocalType, IInv, Ready
  <2>. QED BY <1>2, <2>1, SharesAddUp
<1>4. CASE BorrowToProportions(c, TRUE)
  BY <1>1, <1>2, <1>3, <1>4, BorrowToProportionsKeepsIInv
<1>5. CASE Goto("enter") /\ UNCHANGED amounts /\ UNCHANGED local
  <2>1. AmountsAreNatural' /\ Ready'
    BY <1>2, <1>5, UnchangedAmounts DEF Goto, Ready
  <2>. QED BY <1>1, <1>2, <1>5, <2>1, GotoKeepsIInv DEF Places
<1>. QED BY <1>1, <1>4, <1>5

-----------------------------------------------------------------------------
(* IInv: a rebalance, and the market *)

LEMMA StartRebalanceKeepsIInv ==
  ASSUME IInv, NEW p \in Props, NEW addition \in Additions, StartRebalance(p, addition)
  PROVE  IInv'
<1>1. /\ p \notin {0, One} /\ pc' = "rebalance" /\ prop' = p /\ price' = price
      /\ saved' = [balance |-> balance, pool |-> pool, debt |-> debt]
      /\ local' = [Blank EXCEPT !.prop = p, !.addition = addition, !.depth = MaxDeepRecursion]
      /\ balance' = Exited /\ pool' = NoAmounts /\ debt' = debt
  BY DEF StartRebalance
<1>2. p \in 0..One /\ addition \in Nat /\ MaxDeepRecursion \in Int
  BY PositionAssumption DEF PositionAssumption
<1>3. local' \in LocalType /\ local'.prop = p
  BY <1>1, <1>2, BlankIsLocal DEF LocalType
<1>4. AmountsAreNatural'
  BY <1>1, ExitKeepsAmounts DEF IInv, TypeOK
<1>5. saved' \in SavedType
  BY <1>1 DEF IInv, TypeOK, AmountsAreNatural, SavedType
<1>6. Ready'
  BY <1>1, <1>3 DEF Ready
<1>7. pc' \in Places /\ price' \in PriceTable /\ prop' \in 0..One
  BY <1>1, <1>2 DEF Places, IInv, TypeOK
<1>. QED BY <1>3, <1>4, <1>5, <1>6, <1>7 DEF IInv, TypeOK

LEMMA OpenWithAdditionKeepsIInv ==
  ASSUME IInv, pc = "rebalance", NEW c \in Tokens, OpenWithAddition(c)
  PROVE  IInv'
<1> DEFINE add == local.addition
           a == balance[Asset]
           k == balance[Token]
           short == Worth(Sub0(add, a), Asset, Token, price)
           toSwap == short + MulDiv(short, 3, 1000)
           left == k - toSwap
           opening == OpeningOf(Token, left, a, "enter")
<1>1. local \in LocalType /\ price \in PriceTable /\ AmountsAreNatural /\ balance \in [Tokens -> Nat] /\ local.prop \notin {0, One}
  BY DEF IInv, TypeOK, AmountsAreNatural, Amounts, Ready
<1>2. add \in Nat /\ a \in Nat /\ k \in Nat /\ local.prop \in 0..One
  BY <1>1, TwoTokens DEF LocalType
<1>3. \A t \in Tokens : Share(Other(t), local.prop) # 0
  BY <1>1, <1>2, TwoTokens, SharesAddUp
<1>4. toSwap \in Nat
  <2> DEFINE n == Sub0(add, a)
  <2>1. n \in Nat
    BY <1>2, Sub0Of
  <2> HIDE DEF n
  <2>2. Worth(n, Asset, Token, price) \in Nat
    BY <1>1, <2>1, TwoTokens, WorthIsNat
  <2>3. short \in Nat
    BY <2>2 DEF n
  <2> HIDE DEF short
  <2>4. MulDiv(short, 3, 1000) \in Nat
    BY <2>3, MulDivIsNat
  <2>. QED BY <2>3, <2>4
<1>5. \/ Revert
      \/ OpenPosition(c, balance[c], balance[Other(c)])
      \/ c = Asset /\ a >= add /\ OpenPosition(Asset, a - add, k)
      \/ c = Token /\ a >= add /\ OpenPosition(Token, k, a - add)
      \/ c = Token /\ OpenPosition(Token, k, a)
      \/ /\ c = Token /\ ~(k <= toSwap) /\ ~OpensWrongly(Token, left, a)
         /\ \E s \in Slippages : Swap(Token, toSwap, s)
         /\ local' = [local EXCEPT !.open = opening] /\ Goto("borrow")
  <2>1. c # Asset => c = Token
    BY TwoTokens
  <2> HIDE DEF toSwap
  <2>. QED BY <1>2, <2>1 DEF OpenWithAddition, toSwap
<1> HIDE DEF toSwap
<1>6. CASE Revert
  BY <1>6, RevertKeepsIInv
<1>7. CASE OpenPosition(c, balance[c], balance[Other(c)])
  <2> DEFINE hasC == balance[c]
             has == balance[Other(c)]
  <2>1. hasC \in Nat /\ has \in Nat /\ hasC <= balance[c] /\ OpenPosition(c, hasC, has)
    BY <1>1, <1>7, TwoTokens
  <2> HIDE DEF hasC, has
  <2>. QED BY <1>3, <2>1, OpenPositionKeepsIInv
<1>8. CASE c = Asset /\ a >= add /\ OpenPosition(Asset, a - add, k)
  <2> DEFINE hasC == a - add
  <2>1. hasC \in Nat /\ hasC <= a
    BY <1>2, <1>8
  <2> HIDE DEF hasC
  <2>2. hasC <= balance[Asset] /\ OpenPosition(Asset, hasC, k)
    BY <1>8, <2>1 DEF hasC
  <2> HIDE DEF k
  <2>. QED BY <1>2, <1>3, <2>1, <2>2, TwoTokens, OpenPositionKeepsIInv
<1>9. CASE c = Token /\ a >= add /\ OpenPosition(Token, k, a - add)
  <2> DEFINE has == a - add
  <2>1. has \in Nat /\ k <= balance[Token] /\ OpenPosition(Token, k, has)
    BY <1>2, <1>9
  <2> HIDE DEF has, k
  <2>. QED BY <1>2, <1>3, <2>1, TwoTokens, OpenPositionKeepsIInv
<1>10. CASE c = Token /\ OpenPosition(Token, k, a)
  <2>1. k <= balance[Token]
    BY <1>2
  <2> HIDE DEF k, a
  <2>. QED BY <1>2, <1>3, <1>10, <2>1, TwoTokens, OpenPositionKeepsIInv
<1>11. CASE /\ ~(k <= toSwap) /\ ~OpensWrongly(Token, left, a)
            /\ \E s \in Slippages : Swap(Token, toSwap, s)
            /\ local' = [local EXCEPT !.open = opening] /\ Goto("borrow")
  <2>1. PICK s \in Slippages : Swap(Token, toSwap, s)
    BY <1>11
  <2>2. toSwap <= balance[Token] /\ left \in Nat
    BY <1>2, <1>4, <1>11
  <2>3. AmountsAreNatural' /\ balance'[Token] = balance[Token] - toSwap
    BY <1>1, <1>4, <2>1, <2>2, TwoTokens, SwapKeepsAmounts
  <2>4. balance'[Token] = left
    BY <2>3
  <2>5. local' = [local EXCEPT !.open = opening] /\ Goto("borrow") /\ ~OpensWrongly(Token, left, a)
    BY <1>11
  <2> HIDE DEF left, a
  <2>6. opening \in OpeningType /\ opening.c = Token /\ opening.amountIn <= left
    BY <1>1, <1>2, <1>3, <2>2, <2>5, TwoTokens, OpeningFits
  <2> HIDE DEF opening
  <2>7. local' \in LocalType /\ local'.open = opening
    BY <1>1, <2>5, <2>6 DEF LocalType
  <2>8. pc' = "borrow"
    BY <2>5 DEF Goto
  <2>9. Ready'
    BY <2>4, <2>6, <2>7, <2>8 DEF Ready
  <2>. QED BY <2>3, <2>5, <2>7, <2>9, GotoKeepsIInv DEF Places
<1>. QED BY <1>5, <1>6, <1>7, <1>8, <1>9, <1>10, <1>11

\* What a rebalance does of the token there is too much of: it opens a position
\* under it when little of it is owed, or repays some of it.
RebalanceOf(c) ==
  \/ Goto("enter") /\ UNCHANGED amounts /\ UNCHANGED local
  \/ Owed(c).debt < DustAmount /\ OpenWithAddition(c)
  \/ Revert
  \/ \E n \in Nat : Repay(c, Repayment(c, n)) /\ local' = [local EXCEPT !.depth = @ - 1] /\ Goto("rebalance")

LEMMA RebalanceCases ==
  ASSUME IInv, RebalanceAssets
  PROVE  pc = "rebalance" /\ \E c \in Tokens : RebalanceOf(c)
<1> DEFINE c == IF CostRequired[Asset] > CostNow[Asset] THEN Token ELSE Asset
           b == Other(c)
           required == (CostRequired[b] - CostNow[b]) \div price[b]
           toRepay == Least(Worth(required, b, c, price), Owed(c).debt)
<1>1. pc = "rebalance"
  BY DEF RebalanceAssets
<1>2. \/ Goto("enter") /\ UNCHANGED amounts /\ UNCHANGED local
      \/ Owed(c).debt < DustAmount /\ OpenWithAddition(c)
      \/ Revert
      \/ /\ ~(toRepay < DustAmount)
         /\ Repay(c, Repayment(c, toRepay)) /\ local' = [local EXCEPT !.depth = @ - 1] /\ Goto("rebalance")
  BY DEF RebalanceAssets
<1>3. c \in Tokens /\ b \in Tokens /\ local \in LocalType /\ AmountsAreNatural /\ price \in PriceTable
  BY TwoTokens DEF IInv, TypeOK
<1>4. local.prop \in 0..One /\ local.addition \in Nat /\ balance \in [Tokens -> Nat] /\ debt \in DebtTable
  BY <1>3 DEF LocalType, AmountsAreNatural, Amounts
<1>5. toRepay \in Int
  <2>1. \A t \in Tokens : CostNow[t] \in Int
    <3>1. \A t \in Tokens : balance[t] * price[t] \in Int
      BY <1>3, <1>4 DEF PriceTable
    <3>. QED BY <3>1 DEF CostNow
  <2>2. \A t \in Tokens : CostRequired[t] \in Int
    <3> DEFINE reserved == local.addition * price[Asset]
               total == CostNow[Asset] + CostNow[Token] - reserved
    <3>1. reserved \in Int
      BY <1>3, <1>4, TwoTokens DEF PriceTable
    <3> HIDE DEF reserved
    <3>2. total \in Int
      BY <2>1, <3>1, TwoTokens
    <3>3. \A t \in Tokens : CostRequired[t] = MulDiv(total, Share(t, local.prop), One) + (IF t = Asset THEN reserved ELSE 0)
      BY DEF CostRequired, reserved
    <3> HIDE DEF total
    <3>4. \A t \in Tokens : MulDiv(total, Share(t, local.prop), One) \in Int
      <4> TAKE t \in Tokens
      <4> DEFINE s == Share(t, local.prop)
      <4>1. s \in Nat /\ One \in Nat \ {0}
        BY <1>4, SharesAddUp, OneIsPositive
      <4> HIDE DEF s
      <4>2. total * s \in Int
        BY <3>2, <4>1
      <4>3. (total * s) \div One \in Int
        BY <4>1, <4>2
      <4>. QED BY <4>3 DEF MulDiv, s
    <3>. QED BY <3>1, <3>3, <3>4
  <2>3. price[b] \in Nat \ {0} /\ price[c] \in Nat \ {0}
    BY <1>3 DEF PriceTable
  <2>4. required \in Int
    <3> DEFINE gap == CostRequired[b] - CostNow[b]
    <3>1. gap \in Int
      BY <1>3, <2>1, <2>2
    <3> HIDE DEF gap
    <3>2. gap \div price[b] \in Int
      BY <2>3, <3>1
    <3>. QED BY <3>2 DEF gap
  <2>5. Owed(c).debt \in Int
    <3>1. debt[c].debt \in Nat
      BY <1>3, <1>4 DEF DebtTable
    <3>. QED BY <3>1, GapAdds DEF Owed
  <2> DEFINE w == Owed(c).debt
  <2> HIDE DEF required, w, b, c
  <2>6. required * price[b] \in Int
    BY <2>3, <2>4
  <2>7. (required * price[b]) \div price[c] \in Int
    BY <2>3, <2>6
  <2>8. Worth(required, b, c, price) \in Int
    BY <2>7 DEF Worth, MulDiv
  <2>9. Least(Worth(required, b, c, price), w) \in Int
    BY <2>5, <2>8 DEF Least, w
  <2>. QED BY <2>9 DEF w
<1> HIDE DEF toRepay, c
<1>6. ~(toRepay < DustAmount) => toRepay \in Nat
  BY <1>5, OneIsPositive
<1>7. RebalanceOf(c)
  BY <1>2, <1>6 DEF RebalanceOf
<1>. QED BY <1>1, <1>3, <1>7

LEMMA RebalanceAssetsKeepsIInv ==
  ASSUME IInv, RebalanceAssets
  PROVE  IInv'
<1>1. pc = "rebalance" /\ \E c \in Tokens : RebalanceOf(c)
  BY RebalanceCases
<1>2. PICK c \in Tokens : RebalanceOf(c)
  BY <1>1
<1>3. local \in LocalType /\ AmountsAreNatural
  BY DEF IInv, TypeOK
<1>4. CASE Goto("enter") /\ UNCHANGED amounts /\ UNCHANGED local
  <2>1. AmountsAreNatural' /\ Ready'
    BY <1>3, <1>4, UnchangedAmounts DEF Goto, Ready
  <2>. QED BY <1>1, <1>3, <1>4, <2>1, GotoKeepsIInv DEF Places
<1>5. CASE OpenWithAddition(c)
  BY <1>1, <1>5, OpenWithAdditionKeepsIInv
<1>6. CASE Revert
  BY <1>1, <1>6, RevertKeepsIInv
<1>7. ASSUME NEW n \in Nat, Repay(c, Repayment(c, n)), local' = [local EXCEPT !.depth = @ - 1], Goto("rebalance")
      PROVE  IInv'
  <2>1. AmountsAreNatural'
    BY <1>3, <1>7, MaybeRepayKeepsAmounts
  <2>2. local.depth - 1 \in Int
    BY <1>3 DEF LocalType
  <2>3. local' \in LocalType /\ local'.prop = local.prop
    BY <1>3, <1>7, <2>2 DEF LocalType
  <2>4. pc' = "rebalance" /\ Ready'
    BY <1>1, <1>7, <2>3 DEF Goto, Ready, IInv
  <2>. QED BY <1>1, <1>7, <2>1, <2>3, <2>4, GotoKeepsIInv DEF Places
<1>. QED BY <1>2, <1>4, <1>5, <1>6, <1>7 DEF RebalanceOf

LEMMA MarketMovesKeepsIInv ==
  ASSUME IInv, MarketMoves
  PROVE  IInv'
<1> DEFINE cost == pool[Asset] * price'[Asset] + pool[Token] * price'[Token]
<1>1. /\ pc' = "ready" /\ price' \in Prices /\ prop' \in Props
      /\ pool' = [t \in Tokens |-> MulDiv(cost, Share(t, prop'), One) \div price'[t]]
      /\ balance' = balance /\ debt' = debt /\ local' = local
  BY DEF MarketMoves
<1>2. price' \in PriceTable /\ prop' \in 0..One
  BY <1>1, PositionAssumption DEF PositionAssumption, PriceTable
<1>3. pool \in [Tokens -> Nat] /\ balance \in Amounts /\ debt \in DebtTable /\ local \in LocalType
  BY DEF IInv, TypeOK, AmountsAreNatural, Amounts
<1>4. \A t \in Tokens : pool[t] \in Nat /\ price'[t] \in Nat \ {0}
  BY <1>2, <1>3 DEF PriceTable
<1>5. cost \in Nat
  <2>1. pool[Asset] * price'[Asset] \in Nat /\ pool[Token] * price'[Token] \in Nat
    BY <1>4, TwoTokens
  <2>. QED BY <2>1
<1> HIDE DEF cost
<1>6. ASSUME NEW t \in Tokens
      PROVE  MulDiv(cost, Share(t, prop'), One) \div price'[t] \in Nat
  <2> DEFINE s == Share(t, prop')
             u == price'[t]
             m == MulDiv(cost, s, One)
  <2>1. s \in Nat /\ u \in Nat \ {0}
    BY <1>2, <1>4, SharesAddUp
  <2> HIDE DEF s, u
  <2>2. m \in Nat
    BY <1>5, <2>1, OneIsPositive, MulDivIsNat
  <2> HIDE DEF m
  <2>3. m \div u \in Nat
    BY <2>1, <2>2, DivIsNat
  <2>. QED BY <2>3 DEF m, s, u
<1>7. AmountsAreNatural'
  BY <1>1, <1>3, <1>6 DEF AmountsAreNatural, Amounts
<1>8. Ready' /\ pc' \in Places /\ ~(pc' \notin {"idle", "ready"})
  BY <1>1 DEF Ready, Places
<1>. QED BY <1>1, <1>2, <1>3, <1>7, <1>8 DEF IInv, TypeOK

LEMMA InitIsIInv ==
  ASSUME Init
  PROVE  IInv
<1>1. NoAmounts \in Amounts /\ [t \in Tokens |-> NoDebt] \in DebtTable
  BY DEF NoAmounts, NoDebt, Amounts, DebtTable
<1>2. price \in PriceTable /\ prop \in 0..One /\ pc = "idle"
  BY PositionAssumption DEF Init, PositionAssumption, PriceTable
<1>. QED BY <1>1, <1>2, BlankIsLocal DEF Init, IInv, TypeOK, AmountsAreNatural, Places, Ready

LEMMA NextKeepsIInv ==
  ASSUME IInv, [Next]_vars
  PROVE  IInv'
<1>1. CASE Deposit
  BY <1>1, StartDepositKeepsIInv, RepayBeforeDepositKeepsIInv, BorrowForDepositKeepsIInv DEF Deposit
<1>2. CASE Withdraw
  BY <1>2, StartWithdrawKeepsIInv, ClosePlanKeepsIInv, CloseSwapKeepsIInv, CloseRepayKeepsIInv, CloseCheckKeepsIInv,
     HandOverKeepsIInv DEF Withdraw
<1>3. CASE WithdrawStep
  BY <1>3, StartStepKeepsIInv, StepPlanKeepsIInv, Swap1KeepsIInv, Repay1KeepsIInv, Swap2KeepsIInv, Repay2KeepsIInv,
     SecondRepayKeepsIInv, ReborrowKeepsIInv, FixLeftoversKeepsIInv DEF WithdrawStep
<1>4. CASE Rebalance
  BY <1>4, StartRebalanceKeepsIInv, RebalanceAssetsKeepsIInv DEF Rebalance
<1>5. CASE UNCHANGED vars
  BY <1>5 DEF vars, amounts, market, IInv, TypeOK, AmountsAreNatural, Ready
<1>. QED BY <1>1, <1>2, <1>3, <1>4, <1>5, BorrowKeepsIInv, EnterKeepsIInv, MarketMovesKeepsIInv DEF Next, Work

LEMMA IInvHolds == Spec => []IInv
<1>1. Init => IInv
  BY InitIsIInv
<1>2. IInv /\ [Next]_vars => IInv'
  BY NextKeepsIInv
<1>. QED BY <1>1, <1>2, PTL DEF Spec

\* THEOREM.  Whatever the swaps return and the lending platform has, through any
\* sequence of deposits, withdrawals, withdraw steps and rebalances, the strategy
\* never sells, repays, lends or enters to the pool more than it has, and never
\* repays more than it owes or frees more collateral than there is: no balance,
\* debt or collateral goes below zero (PairBasedStrategyLib, BorrowLib,
\* ConverterStrategyBaseLib).
THEOREM AmountsStayNatural == Spec => []AmountsAreNatural
<1>1. IInv => AmountsAreNatural
  BY DEF IInv, TypeOK
<1>. QED BY <1>1, IInvHolds, PTL

\* THEOREM.  The variables keep their types, through every place of a call.
THEOREM TypeIsKept == Spec => []TypeOK
<1>1. IInv => TypeOK
  BY DEF IInv
<1>. QED BY <1>1, IInvHolds, PTL

-----------------------------------------------------------------------------
(* Debts in one direction *)

LEMMA ThresholdIsAboveDust ==
  ASSUME ThresholdsAreAboveDust, NEW t \in Tokens
  PROVE  WithGap(DustAmount) <= Threshold[t] /\ DustAmount <= Threshold[t] /\ Threshold[t] \in Nat
<1>1. WithGap(DustAmount) \in Nat /\ DustAmount <= WithGap(DustAmount) /\ Threshold[t] \in Nat
  BY OneIsPositive, GapAdds
<1>. QED BY <1>1, OneIsPositive DEF ThresholdsAreAboveDust

LEMMA SmallIs ==
  ASSUME NEW t \in Tokens
  PROVE  /\ Small(t) <=> WithGap(debt[t].debt) <= Threshold[t]
         /\ Small(t)' <=> WithGap(debt'[t].debt) <= Threshold[t]
         /\ Owed(t).debt = WithGap(debt[t].debt) /\ Owed(t)'.debt = WithGap(debt'[t].debt)
  BY DEF Small, Owed

\* A debt that does not grow does not cease to be small.
LEMMA SmallStays ==
  ASSUME debt \in DebtTable, debt' \in DebtTable, NEW t \in Tokens, debt'[t].debt <= debt[t].debt, Small(t)
  PROVE  Small(t)'
<1> DEFINE d == debt[t].debt
           e == debt'[t].debt
<1>1. d \in Nat /\ e \in Nat /\ e <= d
  BY DEF DebtTable
<1>2. WithGap(d) <= Threshold[t]
  BY SmallIs
<1> HIDE DEF d, e
<1>3. WithGap(e) <= WithGap(d) /\ WithGap(e) \in Nat /\ WithGap(d) \in Nat /\ Threshold[t] \in Nat
  BY <1>1, GapGrows, GapAdds, OneIsPositive
<1>4. WithGap(e) <= Threshold[t]
  BY <1>2, <1>3
<1>. QED BY <1>4, SmallIs DEF e

LEMMA RepayLeavesSmall ==
  ASSUME AmountsAreNatural, NEW b \in Tokens, NEW amount \in Nat, NEW r, r = Repayment(b, amount), Repay(b, r)
  PROVE  \A t \in Tokens : Small(t) => Small(t)'
<1>1. Fits(b, amount, r)
  BY RepaymentFits
<1>2. AmountsAreNatural' /\ debt'[b].debt = debt[b].debt - r.paid /\ debt'[Other(b)] = debt[Other(b)]
  BY <1>1, RepayKeepsAmounts
<1>3. debt \in DebtTable /\ debt' \in DebtTable
  BY <1>2 DEF AmountsAreNatural
<1>4. ASSUME NEW t \in Tokens
      PROVE  debt'[t].debt <= debt[t].debt
  <2>1. debt[t].debt \in Nat
    BY <1>3 DEF DebtTable
  <2>2. CASE t = b
    <3>1. r.paid \in Nat
      BY <1>1 DEF Fits
    <3>. QED BY <1>2, <2>1, <2>2, <3>1
  <2>3. CASE t # b
    BY <1>2, <2>1, <2>3, TokenOf
  <2>. QED BY <2>2, <2>3
<1>. QED BY <1>3, <1>4, SmallStays

\* A repayment pays the debt, or all that is offered - or is too small to be made.
LEMMA RepaymentLeaves ==
  ASSUME AmountsAreNatural, NEW b \in Tokens, NEW amount \in Nat, NEW r, r = Repayment(b, amount)
  PROVE  \/ r.paid = debt[b].debt
         \/ r.paid = Least(amount, balance[b])
         \/ r.paid = 0 /\ (Owed(b).debt < DustAmount \/ amount < DustAmount \/ balance[b] < DustAmount)
<1> DEFINE d == debt[b].debt
           h == balance[b]
           w == WithGap(d)
           sent == Least(Least(amount, w), h)
           covered == Least(sent, d)
           freed == IF d = 0 THEN 0 ELSE MulDiv(debt[b].collateral, covered, d)
           closes == sent >= DustAmount
           paid == IF closes THEN covered ELSE 0
           given == IF closes THEN freed ELSE 0
<1>1. d \in Nat /\ h \in Nat /\ DustAmount \in Nat
  BY OneIsPositive DEF AmountsAreNatural, DebtTable, Amounts
<1>2. w \in Nat /\ d <= w
  BY <1>1, GapAdds
<1>3. r.paid = paid
  <2>1. r = [sent |-> sent, expected |-> freed, paid |-> paid, freed |-> given]
    BY DEF Repayment, Owed
  <2> HIDE DEF sent, freed, paid, given
  <2>. QED BY <2>1
<1>4. Owed(b).debt = w
  BY DEF Owed
<1> HIDE DEF d, w, h
<1>5. \/ paid = d
      \/ paid = Least(amount, h)
      \/ paid = 0 /\ (w < DustAmount \/ amount < DustAmount \/ h < DustAmount)
  BY <1>1, <1>2 DEF Least
<1>. QED BY <1>3, <1>4, <1>5 DEF d, h

Special == {"borrow", "deposit", "depositBorrow", "secondRepay", "reborrow"}

LEMMA PlainStep ==
  ASSUME Directed, pc \notin {"idle", "ready"}, saved' = saved \/ pc' = "idle", pc' \notin Special,
         \A t \in Tokens : Small(t) => Small(t)'
  PROVE  Directed'
<1>1. \E t \in Tokens : Small(t)'
  BY DEF Directed
<1>2. pc' \notin {"idle", "ready"} => \E t \in Tokens : WithGap(saved'.debt[t].debt) <= Threshold[t]
  BY DEF Directed
<1>. QED BY <1>1, <1>2 DEF Directed, Special

LEMMA SameDebts ==
  ASSUME debt' = debt
  PROVE  \A t \in Tokens : (Small(t) <=> Small(t)')
  BY DEF Small, Owed

LEMMA StartIsDirected ==
  ASSUME Directed, debt' = debt, saved' = [balance |-> balance, pool |-> pool, debt |-> debt],
         pc' \notin Special \/ (pc' = "deposit" /\ local'.base[Token] = balance'[Token])
  PROVE  Directed'
<1>1. PICK t \in Tokens : Small(t)
  BY DEF Directed
<1>2. WithGap(debt[t].debt) <= Threshold[t] /\ Small(t)'
  BY <1>1, SmallIs, SameDebts
<1>3. WithGap(saved'.debt[t].debt) <= Threshold[t]
  BY <1>2
<1>. QED BY <1>2, <1>3 DEF Directed, Special

LEMMA RevertIsDirected ==
  ASSUME Directed, pc \notin {"idle", "ready"}, Revert
  PROVE  Directed'
<1>1. pc' = "idle" /\ debt' = saved.debt
  BY DEF Revert, Done
<1>2. PICK t \in Tokens : WithGap(saved.debt[t].debt) <= Threshold[t]
  BY DEF Directed
<1>3. Small(t)'
  BY <1>1, <1>2, SmallIs
<1>. QED BY <1>1, <1>3 DEF Directed

\* A position is opened under a collateral whose own debt is small, or which is
\* too little.
LEMMA OpeningIsDirected ==
  ASSUME IInv, Directed, pc \notin {"idle", "ready"}, NEW c \in Tokens, NEW hasC \in Nat, NEW has \in Nat,
         Share(Other(c), local.prop) # 0, Small(c) \/ hasC <= Threshold[c], OpenPosition(c, hasC, has)
  PROVE  Directed'
<1>1. CASE OpensWrongly(c, hasC, has)
  BY <1>1, RevertIsDirected DEF OpenPosition
<1>2. CASE ~OpensWrongly(c, hasC, has)
  <2> DEFINE o == OpeningOf(c, hasC, has, "enter")
  <2>1. local' = [local EXCEPT !.open = o] /\ Goto("borrow") /\ UNCHANGED amounts
    BY <1>2 DEF OpenPosition
  <2>2. local \in LocalType /\ price \in PriceTable
    BY DEF IInv, TypeOK
  <2>3. o \in OpeningType /\ o.c = c /\ o.amountIn <= hasC
    BY <1>2, <2>2, OpeningFits
  <2> HIDE DEF o
  <2>4. local'.open = o
    BY <2>1, <2>2 DEF LocalType
  <2>5. pc' = "borrow" /\ saved' = saved /\ debt' = debt
    BY <2>1 DEF Goto, amounts
  <2>6. Small(c)' \/ o.amountIn <= Threshold[c]
    <3>1. CASE Small(c)
      BY <2>5, <3>1, SameDebts
    <3>2. CASE hasC <= Threshold[c]
      <4>1. o.amountIn \in Nat /\ Threshold[c] \in Nat
        BY <2>3, OneIsPositive DEF OpeningType
      <4>. QED BY <2>3, <3>2, <4>1
    <3>. QED BY <3>1, <3>2
  <2>7. Small(local.open.c)' \/ local'.open.amountIn <= Threshold[local'.open.c]
    BY <2>3, <2>4, <2>6 DEF Small, Owed
  <2>8. (\E t \in Tokens : Small(t)') /\ \E t \in Tokens : WithGap(saved'.debt[t].debt) <= Threshold[t]
    BY <2>5, SameDebts DEF Directed
  <2>. QED BY <2>5, <2>7, <2>8 DEF Directed
<1>. QED BY <1>1, <1>2

LEMMA BorrowIsDirected ==
  ASSUME IInv, Directed, IInv', Borrow
  PROVE  Directed'
<1> DEFINE o == local.open
           c == o.c
           b == Other(c)
<1>1. pc = "borrow"
  BY DEF Borrow
<1>2. o \in OpeningType
  BY <1>1 DEF IInv, Ready
<1>3. PICK available \in Available :
        LET loan == Loan(o.c, o.amountIn, o.x, o.y, available)
        IN  /\ debt' = [debt EXCEPT ![b] = [collateral |-> @.collateral + loan.collateral, debt |-> @.debt + loan.borrow]]
            /\ Goto(o.then)
  BY DEF Borrow
<1> DEFINE loan == Loan(o.c, o.amountIn, o.x, o.y, available)
<1>4. Small(c) \/ o.amountIn <= Threshold[c]
  BY <1>1 DEF Directed
<1> HIDE DEF o
<1>5. c \in Tokens /\ o.amountIn \in Nat /\ o.x \in Nat /\ o.y \in Nat \ {0} /\ o.then = "enter"
  BY <1>2 DEF OpeningType
<1>6. b \in Tokens /\ b # c
  BY <1>5, TwoTokens
<1>7. available \in Nat /\ price \in PriceTable /\ debt \in DebtTable
  BY PositionAssumption DEF PositionAssumption, IInv, TypeOK, AmountsAreNatural
<1>8. loan \in LoanType /\ (o.amountIn <= Threshold[c] => loan.collateral = 0 /\ loan.borrow = 0)
  BY <1>5, <1>7, LoanFits
<1>9. debt' = [debt EXCEPT ![b] = [collateral |-> @.collateral + loan.collateral, debt |-> @.debt + loan.borrow]]
      /\ pc' = "enter" /\ saved' = saved
  BY <1>3, <1>5 DEF Goto
<1> HIDE DEF loan, b, c
<1>10. CASE Small(c)
  <2>1. PICK t \in Tokens : t = c
    BY <1>5
  <2>2. debt'[t] = debt[t]
    BY <1>6, <1>7, <1>9, <2>1 DEF DebtTable
  <2>3. Small(t)'
    BY <1>10, <2>1, <2>2, SmallIs
  <2>4. \E u \in Tokens : WithGap(saved'.debt[u].debt) <= Threshold[u]
    BY <1>1, <1>9 DEF Directed
  <2>. QED BY <1>9, <2>3, <2>4 DEF Directed
<1>11. CASE o.amountIn <= Threshold[c]
  <2>1. debt'[b].debt = debt[b].debt + 0
    BY <1>6, <1>7, <1>8, <1>9, <1>11 DEF DebtTable
  <2>2. ASSUME NEW t \in Tokens
        PROVE  debt'[t].debt = debt[t].debt
    <3>1. CASE t = b
      <4>1. debt[b].debt \in Nat
        BY <1>6, <1>7 DEF DebtTable
      <4>. QED BY <2>1, <3>1, <4>1
    <3>2. CASE t # b
      BY <1>6, <1>7, <1>9, <3>2 DEF DebtTable
    <3>. QED BY <3>1, <3>2
  <2>3. \A t \in Tokens : Small(t) => Small(t)'
    BY <2>2, SmallIs
  <2>. QED BY <1>1, <1>9, <2>3, PlainStep DEF Special
<1>. QED BY <1>4, <1>10, <1>11

LEMMA RepayBeforeDepositIsDirected ==
  ASSUME ThresholdsAreAboveDust, IInv, Directed, RepayBeforeDeposit
  PROVE  Directed'
<1> DEFINE h == balance[Asset]
           base == local.base[Asset]
           n == h - base
           r == Repayment(Asset, n)
<1>1. pc = "deposit" /\ pc' = "depositBorrow" /\ local' = local /\ saved' = saved
  BY DEF RepayBeforeDeposit, Goto
<1>2. AmountsAreNatural /\ local \in LocalType
  BY DEF IInv, TypeOK
<1>3. h \in Nat /\ base \in Nat /\ base <= h /\ n \in Nat /\ local.base[Token] = balance[Token] /\ balance[Token] \in Nat
  <2>1. h \in Nat /\ base \in Nat /\ balance[Token] \in Nat
    BY <1>2, TwoTokens DEF AmountsAreNatural, Amounts, LocalType
  <2>2. base <= h /\ local.base[Token] = balance[Token]
    BY <1>1 DEF IInv, Ready, Directed
  <2>. QED BY <2>1, <2>2
<1>4. \E t \in Tokens : WithGap(saved'.debt[t].debt) <= Threshold[t]
  BY <1>1 DEF Directed
<1>5. WithGap(DustAmount) <= Threshold[Asset] /\ DustAmount <= Threshold[Asset] /\ Threshold[Asset] \in Nat
      /\ Threshold[Token] \in Nat /\ DustAmount \in Nat
  BY TwoTokens, OneIsPositive, ThresholdIsAboveDust
<1>6. CASE Owed(Asset).debt > Threshold[Asset]
  <2>1. Repay(Asset, r)
    BY <1>6 DEF RepayBeforeDeposit
  <2> HIDE DEF n, r
  <2>2. Fits(Asset, n, r)
    BY <1>2, <1>3, TwoTokens, RepaymentFits DEF r
  <2>3. /\ AmountsAreNatural' /\ debt'[Asset].debt = debt[Asset].debt - r.paid /\ debt'[Token] = debt[Token]
        /\ balance'[Asset] = h - r.paid
    BY <1>2, <1>3, <2>1, <2>2, TwoTokens, RepayKeepsAmounts
  <2>4. debt[Asset].debt \in Nat /\ WithGap(debt[Asset].debt) \in Nat /\ WithGap(debt[Asset].debt) > Threshold[Asset]
    <3>1. debt[Asset].debt \in Nat
      BY <1>2, TwoTokens DEF AmountsAreNatural, DebtTable
    <3>. QED BY <1>6, <3>1, GapAdds, TwoTokens, SmallIs
  <2>5. Small(Token) /\ Small(Token)'
    <3>1. ~Small(Asset)
      BY <1>5, <2>4, TwoTokens, SmallIs
    <3>2. Small(Token)
      BY <3>1, TwoTokens DEF Directed
    <3>. QED BY <2>3, <3>2, TwoTokens, SmallIs
  <2>6. \/ r.paid = debt[Asset].debt
        \/ r.paid = Least(n, h)
        \/ r.paid = 0 /\ (Owed(Asset).debt < DustAmount \/ n < DustAmount \/ h < DustAmount)
    BY <1>2, <1>3, TwoTokens, RepaymentLeaves DEF r
  <2>7. Small(Asset)' \/ Sub0(balance'[Asset], base) <= Threshold[Asset]
    <3>1. CASE r.paid = debt[Asset].debt
      <4>1. debt'[Asset].debt = 0
        BY <2>3, <2>4, <3>1
      <4>2. WithGap(debt'[Asset].debt) = 0
        BY <4>1, GapAdds
      <4>. QED BY <1>5, <4>2, TwoTokens, SmallIs
    <3>2. CASE r.paid = Least(n, h)
      <4>1. Least(n, h) = n
        BY <1>3 DEF Least, n
      <4>2. balance'[Asset] = base
        BY <1>3, <2>3, <3>2, <4>1 DEF n
      <4>. QED BY <1>3, <1>5, <4>2, Sub0Of
    <3>3. CASE r.paid = 0 /\ (Owed(Asset).debt < DustAmount \/ n < DustAmount \/ h < DustAmount)
      <4>1. balance'[Asset] = h
        BY <1>3, <2>3, <3>3
      <4>2. ~(Owed(Asset).debt < DustAmount)
        BY <1>5, <2>4, TwoTokens, SmallIs
      <4>3. n < DustAmount
        BY <1>3, <1>5, <3>3, <4>2 DEF n
      <4>4. Sub0(balance'[Asset], base) = n
        BY <1>3, <4>1, Sub0Of DEF n
      <4>. QED BY <1>3, <1>5, <4>3, <4>4
    <3>. QED BY <2>6, <3>1, <3>2, <3>3
  <2>8. \A t \in Tokens : Small(t)' \/ Sub0(balance'[t], local'.base[t]) <= Threshold[t]
    BY <1>1, <2>5, <2>7, TwoTokens
  <2>. QED BY <1>1, <1>4, <2>5, <2>8, TwoTokens DEF Directed
<1>7. CASE ~(Owed(Asset).debt > Threshold[Asset])
  <2>1. UNCHANGED amounts
    BY <1>7 DEF RepayBeforeDeposit
  <2>2. balance' = balance /\ debt' = debt
    BY <2>1 DEF amounts
  <2>3. Small(Asset)
    <3>1. debt[Asset].debt \in Nat
      BY <1>2, TwoTokens DEF AmountsAreNatural, DebtTable
    <3>2. Owed(Asset).debt \in Nat
      BY <3>1, TwoTokens, SmallIs, GapAdds
    <3>. QED BY <1>5, <1>7, <3>2 DEF Small
  <2>4. Small(Asset)'
    BY <2>2, <2>3, SameDebts, TwoTokens
  <2>5. Sub0(balance'[Token], local'.base[Token]) <= Threshold[Token]
    BY <1>1, <1>3, <1>5, <2>2, Sub0Of
  <2>6. \A t \in Tokens : Small(t)' \/ Sub0(balance'[t], local'.base[t]) <= Threshold[t]
    BY <2>4, <2>5, TwoTokens
  <2>. QED BY <1>1, <1>4, <2>4, <2>6, TwoTokens DEF Directed
<1>. QED BY <1>6, <1>7

LEMMA BorrowForDepositIsDirected ==
  ASSUME IInv, Directed, BorrowForDeposit
  PROVE  Directed'
<1>1. pc = "depositBorrow" /\ debt' = debt /\ local \in LocalType
  BY DEF BorrowForDeposit, amounts, IInv, TypeOK
<1>2. CASE Goto("enter") /\ UNCHANGED local
  BY <1>1, <1>2, SameDebts, PlainStep DEF Goto, Special
<1>3. ASSUME NEW t \in Tokens, NEW o \in OpeningType, BorrowsFor(t, o)
      PROVE  Directed'
  <2>1. o.c = t /\ o.amountIn <= Sub0(balance[t], local.base[t]) /\ local' = [local EXCEPT !.open = o]
        /\ pc' = "borrow" /\ saved' = saved
    BY <1>3 DEF BorrowsFor, Goto
  <2>2. local'.open = o
    BY <1>1, <2>1 DEF LocalType
  <2>3. Small(t)' \/ o.amountIn <= Threshold[t]
    <3>1. CASE Small(t)
      BY <1>1, <3>1, SameDebts
    <3>2. CASE Sub0(balance[t], local.base[t]) <= Threshold[t]
      <4>1. balance[t] \in Nat /\ local.base[t] \in Nat /\ o.amountIn \in Nat /\ Threshold[t] \in Nat
        BY <1>1, OneIsPositive DEF IInv, TypeOK, AmountsAreNatural, Amounts, LocalType, OpeningType
      <4>2. Sub0(balance[t], local.base[t]) \in Nat
        BY <4>1, Sub0Of
      <4>. QED BY <2>1, <3>2, <4>1, <4>2
    <3>. QED BY <1>1, <3>1, <3>2 DEF Directed
  <2>4. Small(local.open.c)' \/ local'.open.amountIn <= Threshold[local'.open.c]
    BY <2>1, <2>2, <2>3 DEF Small, Owed
  <2>5. (\E u \in Tokens : Small(u)') /\ \E u \in Tokens : WithGap(saved'.debt[u].debt) <= Threshold[u]
    BY <1>1, <2>1, SameDebts DEF Directed
  <2>. QED BY <2>1, <2>4, <2>5 DEF Directed
<1>. QED BY <1>2, <1>3, DepositOpening

\* A position that must not be opposite to a debt is opened under a collateral
\* whose debt is less than the dust amount.
LEMMA ToProportionsIsDirected ==
  ASSUME ThresholdsAreAboveDust, IInv, Directed, pc \notin {"idle", "ready"}, NEW c \in Tokens, NEW checked \in BOOLEAN,
         Share(Other(c), local.prop) # 0, checked \/ Small(c) \/ balance[c] <= Threshold[c],
         BorrowToProportions(c, checked)
  PROVE  Directed'
<1> DEFINE hasC == balance[c]
           has == balance[Other(c)]
<1>1. hasC \in Nat /\ has \in Nat /\ debt[c].debt \in Nat
  BY TwoTokens DEF IInv, TypeOK, AmountsAreNatural, Amounts, DebtTable
<1>2. \/ Revert
      \/ (checked => ~(debt[c].debt >= DustAmount)) /\ OpenPosition(c, hasC, has)
  BY DEF BorrowToProportions
<1>3. CASE Revert
  BY <1>3, RevertIsDirected
<1>4. CASE (checked => ~(debt[c].debt >= DustAmount)) /\ OpenPosition(c, hasC, has)
  <2>1. Small(c) \/ hasC <= Threshold[c]
    <3>1. CASE checked
      <4>1. debt[c].debt <= DustAmount /\ DustAmount \in Nat
        BY <1>1, <1>4, <3>1, OneIsPositive
      <4> DEFINE d == debt[c].debt
      <4> HIDE DEF d
      <4>2. WithGap(d) <= WithGap(DustAmount) /\ WithGap(d) \in Nat /\ WithGap(DustAmount) \in Nat
        BY <1>1, <4>1, GapGrows, GapAdds DEF d
      <4>3. WithGap(d) <= Threshold[c]
        BY <4>2, ThresholdIsAboveDust
      <4>. QED BY <4>3, SmallIs DEF d
    <3>2. CASE ~checked
      BY <3>2
    <3>. QED BY <3>1, <3>2
  <2> HIDE DEF hasC, has
  <2>2. hasC \in Nat /\ has \in Nat /\ OpenPosition(c, hasC, has)
    BY <1>1, <1>4
  <2>. QED BY <2>1, <2>2, OpeningIsDirected
<1>. QED BY <1>2, <1>3, <1>4

LEMMA Repay2IsDirected ==
  ASSUME ThresholdsAreAboveDust, IInv, Directed, Repay2
  PROVE  Directed'
<1> DEFINE b == local.plan.repay
           n == AmountToRepay2(b)
<1>1. pc = "repay2"
  BY DEF Repay2
<1>2. \/ BorrowsInstead(b) /\ BorrowToProportions(b, TRUE)
      \/ n > Threshold[b] /\ local' = [local EXCEPT !.toRepay = n, !.owedBefore = NoLimit]
         /\ Goto("secondRepay") /\ UNCHANGED amounts
      \/ Goto("enter") /\ UNCHANGED amounts /\ UNCHANGED local
  BY DEF Repay2
<1>3. b \in Tokens /\ local \in LocalType
  BY <1>1 DEF IInv, Ready, TypeOK
<1>4. CASE BorrowsInstead(b) /\ BorrowToProportions(b, TRUE)
  <2> HIDE DEF b
  <2>1. Share(Other(b), local.prop) # 0
    BY <1>3, <1>4, BorrowsIntoShare
  <2>. QED BY <1>1, <1>3, <1>4, <2>1, ToProportionsIsDirected
<1> HIDE DEF n
<1>5. CASE n > Threshold[b] /\ local' = [local EXCEPT !.toRepay = n, !.owedBefore = NoLimit]
           /\ Goto("secondRepay") /\ UNCHANGED amounts
  <2>1. pc' = "secondRepay" /\ saved' = saved /\ debt' = debt
    BY <1>5 DEF Goto, amounts
  <2>2. local'.toRepay = n /\ local'.owedBefore = NoLimit /\ local'.plan = local.plan
    BY <1>3, <1>5 DEF LocalType
  <2>3. local'.toRepay > Threshold[local'.plan.repay]
    BY <1>5, <2>2
  <2>4. (\E t \in Tokens : Small(t)') /\ \E t \in Tokens : WithGap(saved'.debt[t].debt) <= Threshold[t]
    BY <1>1, <2>1, SameDebts DEF Directed
  <2>. QED BY <2>1, <2>2, <2>3, <2>4 DEF Directed
<1>6. CASE Goto("enter") /\ UNCHANGED amounts /\ UNCHANGED local
  BY <1>1, <1>6, SameDebts, PlainStep DEF Goto, Special, amounts
<1>. QED BY <1>2, <1>4, <1>5, <1>6

\* A second repayment that has left the debt as it was has left nothing to borrow
\* under: what there is of the token is below the dust amount.
LEMMA SecondRepayIsDirected ==
  ASSUME ThresholdsAreAboveDust, IInv, Directed, SecondRepay
  PROVE  Directed'
<1>1. pc = "secondRepay" /\ local \in LocalType /\ AmountsAreNatural /\ local.plan.repay \in Tokens
  BY DEF SecondRepay, IInv, TypeOK, Ready
<1>2. PICK b \in Tokens : b = local.plan.repay
  BY <1>1
<1> DEFINE m == local.toRepay
           r == Repayment(b, m)
           missing == Sub0(m, r.paid)
           d == debt[b].debt
           owed == WithGap(d - r.paid)
<1>3. Repay(b, r)
  BY <1>2 DEF SecondRepay
<1>4. \/ Goto("enter") /\ UNCHANGED local
      \/ /\ ~(missing <= Threshold[b]) /\ owed > Threshold[b]
         /\ local' = [local EXCEPT !.toRepay = missing, !.owedBefore = owed] /\ Goto("secondRepay")
      \/ /\ ~(owed > Threshold[b] /\ (local.owedBefore = NoLimit \/ owed < local.owedBefore))
         /\ Goto("reborrow") /\ UNCHANGED local
  BY <1>2 DEF SecondRepay
<1>5. m \in Nat /\ m > Threshold[b] /\ (local.owedBefore = NoLimit \/ (local.owedBefore = Owed(b).debt /\ ~Small(b)))
  BY <1>1, <1>2 DEF Directed, LocalType
<1> HIDE DEF m
<1>6. Fits(b, m, r)
  BY <1>1, <1>5, RepaymentFits
<1>7. /\ AmountsAreNatural' /\ debt'[b].debt = d - r.paid /\ balance'[b] = balance[b] - r.paid
      /\ \A t \in Tokens : Small(t) => Small(t)'
  <2>1. \A t \in Tokens : Small(t) => Small(t)'
    BY <1>1, <1>3, <1>5, RepayLeavesSmall
  <2> HIDE DEF r
  <2>. QED BY <1>1, <1>3, <1>5, <1>6, <2>1, RepayKeepsAmounts
<1>8. \/ r.paid = d
      \/ r.paid = Least(m, balance[b])
      \/ r.paid = 0 /\ (Owed(b).debt < DustAmount \/ m < DustAmount \/ balance[b] < DustAmount)
  BY <1>1, <1>5, RepaymentLeaves
<1> HIDE DEF r
<1>9. r.paid \in Nat /\ r.paid <= d /\ d \in Nat /\ balance[b] \in Nat /\ d - r.paid \in Nat
  <2>1. r.paid \in Nat /\ r.paid <= d /\ d \in Nat /\ balance[b] \in Nat
    BY <1>1, <1>6 DEF Fits, AmountsAreNatural, DebtTable, Amounts
  <2>. QED BY <2>1
<1>10. /\ Owed(b).debt = WithGap(d) /\ Owed(b)'.debt = owed
       /\ (Small(b) <=> WithGap(d) <= Threshold[b]) /\ (Small(b)' <=> owed <= Threshold[b])
  BY <1>7, SmallIs
<1>11. WithGap(d) \in Nat /\ owed \in Nat /\ Threshold[b] \in Nat /\ DustAmount \in Nat /\ DustAmount <= Threshold[b]
  <2> DEFINE left == d - r.paid
  <2> HIDE DEF left
  <2>1. left \in Nat
    BY <1>9 DEF left
  <2>2. WithGap(left) \in Nat
    BY <2>1, GapAdds
  <2>. QED BY <1>9, <2>2, GapAdds, OneIsPositive, ThresholdIsAboveDust DEF left
<1>12. saved' = saved /\ \E t \in Tokens : WithGap(saved'.debt[t].debt) <= Threshold[t]
  BY <1>1, <1>4 DEF Goto, Directed
<1>13. \E t \in Tokens : Small(t)'
  BY <1>7 DEF Directed
<1>14. CASE Goto("enter") /\ UNCHANGED local
  BY <1>1, <1>7, <1>12, <1>14, PlainStep DEF Goto, Special
<1>15. CASE /\ ~(missing <= Threshold[b]) /\ owed > Threshold[b]
            /\ local' = [local EXCEPT !.toRepay = missing, !.owedBefore = owed] /\ Goto("secondRepay")
  <2>1. pc' = "secondRepay"
    BY <1>15 DEF Goto
  <2>2. missing > Threshold[b]
    BY <1>5, <1>9, <1>11, <1>15, Sub0Of
  <2> HIDE DEF missing, owed
  <2>3. local'.toRepay = missing /\ local'.owedBefore = owed /\ local'.plan = local.plan
    BY <1>1, <1>15 DEF LocalType
  <2>4. ~Small(b)'
    BY <1>10, <1>11, <1>15
  <2>5. local'.owedBefore = Owed(local.plan.repay)'.debt /\ ~Small(local.plan.repay)'
    BY <1>2, <1>10, <2>3, <2>4 DEF Owed, Small
  <2>6. local'.toRepay > Threshold[local'.plan.repay]
    BY <1>2, <2>2, <2>3
  <2>. QED BY <1>12, <1>13, <2>1, <2>5, <2>6 DEF Directed
<1>16. CASE /\ ~(owed > Threshold[b] /\ (local.owedBefore = NoLimit \/ owed < local.owedBefore))
            /\ Goto("reborrow") /\ UNCHANGED local
  <2>1. pc' = "reborrow" /\ local' = local
    BY <1>16 DEF Goto
  <2>2. Small(b)' \/ balance'[b] <= Threshold[b]
    <3>1. CASE owed <= Threshold[b]
      BY <1>10, <3>1
    <3>2. CASE owed > Threshold[b]
      <4>1. local.owedBefore = WithGap(d) /\ ~(owed < WithGap(d)) /\ WithGap(d) > Threshold[b]
        BY <1>5, <1>10, <1>11, <1>16, <3>2
      <4>2. r.paid = 0
        <5> SUFFICES ASSUME r.paid # 0 PROVE FALSE
          OBVIOUS
        <5> DEFINE left == d - r.paid
                   k == d
        <5>1. left \in Nat /\ k \in Nat /\ left < k
          BY <1>9
        <5>3. owed = WithGap(left)
          OBVIOUS
        <5> HIDE DEF left, k, owed
        <5>2. WithGap(left) < WithGap(k)
          BY <5>1, GapGrows
        <5>. QED BY <4>1, <5>2, <5>3 DEF k
      <4>3. balance'[b] = balance[b]
        BY <1>7, <1>9, <4>2
      <4>4. balance[b] <= Threshold[b]
        <5>1. CASE r.paid = d
          <6>1. WithGap(d) = 0
            BY <1>9, <4>2, <5>1, GapAdds
          <6>. QED BY <1>11, <4>1, <6>1
        <5>2. CASE r.paid = Least(m, balance[b])
          BY <1>5, <1>9, <1>11, <4>2, <5>2 DEF Least
        <5>3. CASE r.paid = 0 /\ (Owed(b).debt < DustAmount \/ m < DustAmount \/ balance[b] < DustAmount)
          BY <1>5, <1>9, <1>10, <1>11, <4>1, <5>3
        <5>. QED BY <1>8, <5>1, <5>2, <5>3
      <4>. QED BY <4>3, <4>4
    <3>. QED BY <1>11, <3>1, <3>2
  <2>3. Small(local.plan.repay)' \/ balance'[local'.plan.repay] <= Threshold[local'.plan.repay]
    BY <1>2, <2>1, <2>2 DEF Small, Owed
  <2>. QED BY <1>12, <1>13, <2>1, <2>3 DEF Directed
<1>. QED BY <1>4, <1>14, <1>15, <1>16

\* Steps that leave the debts and go on, or end, or give back what there was.
LEMMA SameDebtsAreDirected ==
  ASSUME Directed, pc \notin {"idle", "ready"},
         Revert \/ (debt' = debt /\ pc' \notin Special /\ (saved' = saved \/ pc' = "idle"))
  PROVE  Directed'
<1>1. CASE Revert
  BY <1>1, RevertIsDirected
<1>2. CASE debt' = debt /\ pc' \notin Special /\ (saved' = saved \/ pc' = "idle")
  BY <1>2, SameDebts, PlainStep
<1>. QED BY <1>1, <1>2

LEMMA DepositIsDirected ==
  ASSUME ThresholdsAreAboveDust, IInv, Directed, Deposit
  PROVE  Directed'
<1>1. ASSUME NEW amount \in Deposits, StartDeposit(amount)
      PROVE  Directed'
  <2> DEFINE data == [Blank EXCEPT !.base = balance, !.prop = prop]
  <2>1. Begin("deposit", data) /\ balance' = [balance EXCEPT ![Asset] = @ + amount] /\ debt' = debt
    BY <1>1 DEF StartDeposit
  <2>2. data.base = balance
    BY BlankIsLocal DEF LocalType
  <2> HIDE DEF data
  <2>3. local'.base[Token] = balance'[Token]
    <3>1. balance \in [Tokens -> Nat]
      BY DEF IInv, TypeOK, AmountsAreNatural, Amounts
    <3>2. local' = data
      BY <2>1 DEF Begin
    <3>. QED BY <2>1, <2>2, <3>1, <3>2, TwoTokens
  <2>. QED BY <2>1, <2>3, StartIsDirected DEF Begin
<1>. QED BY <1>1, RepayBeforeDepositIsDirected, BorrowForDepositIsDirected DEF Deposit

LEMMA WithdrawIsDirected ==
  ASSUME IInv, Directed, Withdraw
  PROVE  Directed'
<1>1. ASSUME NEW asked \in Withdrawals, StartWithdraw(asked)
      PROVE  Directed'
  BY <1>1, StartIsDirected DEF StartWithdraw, Begin, Special
<1>2. CASE ClosePlan
  BY <1>2, SameDebtsAreDirected DEF ClosePlan, Goto, amounts, Special
<1>3. CASE CloseSwap
  BY <1>3, SameDebtsAreDirected DEF CloseSwap, Swap, Goto, Special
<1>4. CASE CloseRepay
  <2> DEFINE b == local.plan.repay
             h == balance[b]
             r == Repayment(b, h)
  <2>1. pc = "closeRepay" /\ (Revert \/ (Repay(b, r) /\ Goto("closeCheck")))
    BY <1>4 DEF CloseRepay
  <2>2. b \in Tokens /\ AmountsAreNatural
    BY <2>1 DEF IInv, TypeOK, Ready
  <2>3. h \in Nat
    BY <2>2 DEF AmountsAreNatural, Amounts
  <2>4. CASE Revert
    BY <2>1, <2>4, RevertIsDirected
  <2>5. CASE Repay(b, r) /\ Goto("closeCheck")
    <3> HIDE DEF b, h, r
    <3>1. \A t \in Tokens : Small(t) => Small(t)'
      BY <2>2, <2>3, <2>5, RepayLeavesSmall DEF r
    <3>. QED BY <2>1, <2>5, <3>1, PlainStep DEF Goto, Special
  <2>. QED BY <2>1, <2>4, <2>5
<1>5. CASE CloseCheck
  BY <1>5, SameDebtsAreDirected DEF CloseCheck, Goto, amounts, Special
<1>6. CASE HandOver
  BY <1>6, SameDebtsAreDirected DEF HandOver, Done, Special
<1>. QED BY <1>1, <1>2, <1>3, <1>4, <1>5, <1>6 DEF Withdraw

LEMMA StepSwapIsDirected ==
  ASSUME Directed, pc \notin {"idle", "ready"}, NEW next \in Places \ Special, StepSwap(next)
  PROVE  Directed'
<1>1. \/ Revert
      \/ ((\E n, s : Swap(local.plan.swap, n, s)) \/ UNCHANGED amounts)
         /\ pc' = next /\ saved' = saved
  BY DEF StepSwap
<1>. QED BY <1>1, SameDebtsAreDirected DEF Swap, amounts

LEMMA WithdrawStepIsDirected ==
  ASSUME ThresholdsAreAboveDust, IInv, Directed, WithdrawStep
  PROVE  Directed'
<1>1. ASSUME NEW s \in Steps, StartStep(s)
      PROVE  Directed'
  BY <1>1, StartIsDirected DEF StartStep, Begin, Special
<1>2. CASE StepPlan
  BY <1>2, SameDebtsAreDirected DEF StepPlan, Goto, amounts, Special
<1>3. CASE Swap1
  <2>1. pc = "swap1" /\ (StepSwap("repay1") \/ (Goto("repay1") /\ UNCHANGED amounts))
    BY <1>3 DEF Swap1
  <2>2. "repay1" \in Places \ Special
    BY DEF Places, Special
  <2>3. CASE StepSwap("repay1")
    BY <2>1, <2>2, <2>3, StepSwapIsDirected
  <2>4. CASE Goto("repay1") /\ UNCHANGED amounts
    BY <2>1, <2>4, SameDebtsAreDirected DEF Goto, amounts, Special
  <2>. QED BY <2>1, <2>3, <2>4
<1>4. CASE Repay1
  <2> DEFINE b == local.plan.repay
             h == balance[b]
             r == Repayment(b, h)
  <2>1. pc = "repay1" /\ pc' \notin Special /\ saved' = saved
    BY <1>4 DEF Repay1, Goto, Special
  <2>2. (b # None /\ Repay(b, r)) \/ debt' = debt
    BY <1>4 DEF Repay1, amounts
  <2>3. CASE b # None /\ Repay(b, r)
    <3>1. b \in Tokens /\ AmountsAreNatural
      BY <2>3 DEF IInv, TypeOK, LocalType, PlanType
    <3>2. h \in Nat
      BY <3>1 DEF AmountsAreNatural, Amounts
    <3> HIDE DEF b, h, r
    <3>3. \A t \in Tokens : Small(t) => Small(t)'
      BY <2>3, <3>1, <3>2, RepayLeavesSmall DEF r
    <3>. QED BY <2>1, <3>3, PlainStep
  <2>4. CASE debt' = debt
    BY <2>1, <2>4, SameDebtsAreDirected
  <2>. QED BY <2>2, <2>3, <2>4
<1>5. CASE Swap2
  <2>1. pc = "swap2" /\ \E next \in {"repay2", "enter"} : StepSwap(next)
    BY <1>5 DEF Swap2
  <2>2. {"repay2", "enter"} \subseteq Places \ Special
    BY DEF Places, Special
  <2>. QED BY <2>1, <2>2, StepSwapIsDirected
<1>6. CASE Repay2
  BY <1>6, Repay2IsDirected
<1>7. CASE SecondRepay
  BY <1>7, SecondRepayIsDirected
<1>8. CASE Reborrow
  <2>1. pc = "reborrow" /\ BorrowToProportions(local.plan.repay, FALSE)
    BY <1>8 DEF Reborrow
  <2>2. PICK b \in Tokens : b = local.plan.repay
    BY <2>1 DEF IInv, Ready
  <2>3. Share(Other(b), local.prop) # 0 /\ (Small(b) \/ balance[b] <= Threshold[b]) /\ BorrowToProportions(b, FALSE)
    BY <2>1, <2>2 DEF IInv, Ready, Directed
  <2>. QED BY <2>1, <2>3, ToProportionsIsDirected
<1>9. CASE FixLeftovers
  <2>1. pc = "fix" /\ ((\E c \in Tokens : BorrowToProportions(c, TRUE)) \/ (Goto("enter") /\ UNCHANGED amounts))
    BY <1>9, TwoTokens DEF FixLeftovers
  <2>2. ASSUME NEW c \in Tokens, BorrowToProportions(c, TRUE)
        PROVE  Directed'
    <3>1. local.prop \in 0..One /\ local.prop \notin {0, One} /\ Other(c) \in Tokens
      BY <2>1, TwoTokens DEF LocalType, IInv, TypeOK, Ready
    <3>2. Share(Other(c), local.prop) # 0
      BY <3>1, SharesAddUp
    <3>. QED BY <2>1, <2>2, <3>2, ToProportionsIsDirected
  <2>3. CASE Goto("enter") /\ UNCHANGED amounts
    BY <2>1, <2>3, SameDebtsAreDirected DEF Goto, amounts, Special
  <2>. QED BY <2>1, <2>2, <2>3
<1>. QED BY <1>1, <1>2, <1>3, <1>4, <1>5, <1>6, <1>7, <1>8, <1>9 DEF WithdrawStep

LEMMA OpenWithAdditionIsDirected ==
  ASSUME ThresholdsAreAboveDust, IInv, Directed, pc = "rebalance", NEW c \in Tokens, Small(c), OpenWithAddition(c)
  PROVE  Directed'
<1> DEFINE add == local.addition
           a == balance[Asset]
           k == balance[Token]
           short == Worth(Sub0(add, a), Asset, Token, price)
           toSwap == short + MulDiv(short, 3, 1000)
           left == k - toSwap
           opening == OpeningOf(Token, left, a, "enter")
<1>1. local \in LocalType /\ balance \in [Tokens -> Nat] /\ local.prop \notin {0, One}
  BY DEF IInv, TypeOK, AmountsAreNatural, Amounts, Ready
<1>2. add \in Nat /\ a \in Nat /\ k \in Nat /\ local.prop \in 0..One
  BY <1>1, TwoTokens DEF LocalType
<1>3. Share(Other(c), local.prop) # 0
  BY <1>1, <1>2, TwoTokens, SharesAddUp
<1>4. \/ Revert
      \/ \E hasC, has \in Nat : OpenPosition(c, hasC, has)
      \/ c = Token /\ (\E s \in Slippages : Swap(Token, toSwap, s))
         /\ local' = [local EXCEPT !.open = opening] /\ Goto("borrow")
  <2>1. c # Asset => c = Token
    BY TwoTokens
  <2>2. a >= add => a - add \in Nat
    BY <1>2
  <2>3. ~(a < add) => a >= add
    BY <1>2
  <2>4. balance[c] \in Nat /\ balance[Other(c)] \in Nat
    BY <1>1, TwoTokens
  <2> HIDE DEF toSwap
  <2>. QED BY <1>2, <2>1, <2>2, <2>3, <2>4 DEF OpenWithAddition, toSwap
<1> HIDE DEF opening, toSwap
<1>5. CASE Revert
  BY <1>5, RevertIsDirected
<1>6. ASSUME NEW hasC \in Nat, NEW has \in Nat, OpenPosition(c, hasC, has)
      PROVE  Directed'
  BY <1>3, <1>6, OpeningIsDirected
<1>7. CASE c = Token /\ (\E s \in Slippages : Swap(Token, toSwap, s))
           /\ local' = [local EXCEPT !.open = opening] /\ Goto("borrow")
  <2>1. pc' = "borrow" /\ saved' = saved /\ debt' = debt
    BY <1>7 DEF Goto, Swap
  <2>2. local'.open = opening
    BY <1>1, <1>7 DEF LocalType
  <2>3. opening.c = Token
    BY DEF opening, OpeningOf, Opening
  <2>4. Small(c)'
    BY <2>1, SameDebts
  <2>5. Small(local.open.c)'
    BY <1>7, <2>2, <2>3, <2>4 DEF Small, Owed
  <2>6. (\E t \in Tokens : Small(t)') /\ \E t \in Tokens : WithGap(saved'.debt[t].debt) <= Threshold[t]
    BY <2>1, <2>4 DEF Directed
  <2>. QED BY <2>1, <2>5, <2>6 DEF Directed
<1>. QED BY <1>4, <1>5, <1>6, <1>7

LEMMA RebalanceIsDirected ==
  ASSUME ThresholdsAreAboveDust, IInv, Directed, IInv', Rebalance
  PROVE  Directed'
<1>1. ASSUME NEW p \in Props, NEW addition \in Additions, StartRebalance(p, addition)
      PROVE  Directed'
  BY <1>1, StartIsDirected DEF StartRebalance, Special
<1>2. CASE RebalanceAssets
  <2>1. pc = "rebalance" /\ \E c \in Tokens : RebalanceOf(c)
    BY <1>2, RebalanceCases
  <2>2. PICK c \in Tokens : RebalanceOf(c)
    BY <2>1
  <2>3. CASE Goto("enter") /\ UNCHANGED amounts
    BY <2>1, <2>3, SameDebtsAreDirected DEF Goto, amounts, Special
  <2>4. CASE Owed(c).debt < DustAmount /\ OpenWithAddition(c)
    <3>1. debt[c].debt \in Nat
      BY DEF IInv, TypeOK, AmountsAreNatural, DebtTable
    <3>2. Owed(c).debt \in Nat
      BY <3>1, SmallIs, GapAdds
    <3>3. Small(c)
      BY <2>4, <3>2, ThresholdIsAboveDust, OneIsPositive DEF Small
    <3>. QED BY <2>1, <2>4, <3>3, OpenWithAdditionIsDirected
  <2>5. CASE Revert
    BY <2>1, <2>5, RevertIsDirected
  <2>6. ASSUME NEW n \in Nat, Repay(c, Repayment(c, n)), Goto("rebalance")
        PROVE  Directed'
    <3>1. \A t \in Tokens : Small(t) => Small(t)'
      BY <2>6, RepayLeavesSmall DEF IInv, TypeOK
    <3>. QED BY <2>1, <2>6, <3>1, PlainStep DEF Goto, Special
  <2>. QED BY <2>2, <2>3, <2>4, <2>5, <2>6 DEF RebalanceOf
<1>. QED BY <1>1, <1>2 DEF Rebalance

LEMMA InitIsDirected ==
  ASSUME Init
  PROVE  Directed
<1>1. pc = "idle" /\ debt[Asset].debt = 0 /\ 0 \in Nat
  BY TwoTokens DEF Init, NoDebt
<1>2. WithGap(debt[Asset].debt) = 0
  BY <1>1, GapAdds
<1>3. Small(Asset)
  BY <1>2, TwoTokens, OneIsPositive, SmallIs
<1>. QED BY <1>1, <1>3, TwoTokens DEF Directed

LEMMA NextIsDirected ==
  ASSUME ThresholdsAreAboveDust, IInv, Directed, IInv', [Next]_vars
  PROVE  Directed'
<1>1. CASE Enter
  BY <1>1, SameDebtsAreDirected DEF Enter, Done, Special
<1>2. CASE MarketMoves
  <2>1. pc' = "ready" /\ debt' = debt
    BY <1>2 DEF MarketMoves
  <2>. QED BY <2>1, SameDebts DEF Directed
<1>3. CASE UNCHANGED vars
  BY <1>3 DEF vars, amounts, market, Directed, Small, Owed
<1>. QED BY <1>1, <1>2, <1>3, DepositIsDirected, WithdrawIsDirected, WithdrawStepIsDirected, RebalanceIsDirected,
         BorrowIsDirected DEF Next, Work

LEMMA DirectedIsEnough ==
  ASSUME IInv, Directed
  PROVE  OneDirection
<1>1. PICK t \in Tokens : Small(t)
  BY DEF Directed
<1> DEFINE d == debt[t].debt
<1>2. d \in Nat
  BY DEF IInv, TypeOK, AmountsAreNatural, DebtTable
<1>3. WithGap(d) <= Threshold[t]
  BY <1>1, SmallIs
<1> HIDE DEF d
<1>4. d <= Threshold[t]
  BY <1>2, <1>3, GapAdds, OneIsPositive
<1>. QED BY <1>4 DEF OneDirection, d

\* THEOREM.  Where the thresholds are above the dust amount, as the defaults are,
\* the strategy never owes in both directions above the thresholds between calls,
\* whatever deposits, withdrawals, withdraw steps, rebalances and prices there
\* were: prepareToDeposit, which repays only the reverse debt, may rely on it
\* (ConverterStrategyBaseLib, BorrowLib, PairBasedStrategyLib).
THEOREM DebtsAreInOneDirection ==
  ASSUME ThresholdsAreAboveDust
  PROVE  Spec => []OneDirection
<1>1. Init => Directed
  BY InitIsDirected
<1>2. IInv /\ IInv' /\ Directed /\ [Next]_vars => Directed'
  BY NextIsDirected
<1>3. IInv /\ Directed => OneDirection
  BY DirectedIsEnough
<1>. QED BY <1>1, <1>2, <1>3, IInvHolds, PTL DEF Spec

-----------------------------------------------------------------------------
(* Closing positions: what the loop that closes positions knows at each of *)
(* its places                                                              *)

Loop == {"closing", "closeSwap", "closeRepay", "closeCheck"}

\* The token that an iteration sells, if any
ToSell == IF NothingOwed THEN Token ELSE Other(OwedFirst(OwedAll))

\* No debt grows in the loop.  A plan is of the balances it was made with (seen); a sale
\* lowers what is sold; an iteration that ends with the same balances had nothing to sell
\* and nothing to repay with, or its repayment cancelled its sale.
Closing ==
  /\ pc \in Loop => \A t \in Tokens : debt[t].debt <= saved.debt[t].debt
  /\ pc = "closing" => balance = local.seen
  /\ pc = "closeSwap" =>
       /\ balance = local.seen /\ local.plan.amount > 0
       /\ local.plan.swap = ToSell \/ (local.plan.swap = Token /\ Reached)
  /\ pc = "closeRepay" /\ local.plan.swap = None =>
       /\ balance = local.seen
       /\ local.plan.repay = OwedFirst(OwedAll) /\ Owed(local.plan.repay).debt >= DustAmount
       /\ NothingToSell(local.plan.repay)
  /\ pc = "closeRepay" /\ local.plan.swap # None => balance[local.plan.swap] < local.seen[local.plan.swap]
  /\ pc = "closeCheck" /\ balance = local.seen => Stuck \/ SaleCancelled
  /\ pc = "closed" => Reached \/ NothingOwed \/ Stuck \/ SaleCancelled

\* A repayment that pays nothing frees nothing, and was of less than the dust amount.
LEMMA NoRepayment ==
  ASSUME AmountsAreNatural, NEW b \in Tokens, NEW amount \in Nat, NEW r, r = Repayment(b, amount), r.paid = 0
  PROVE  r.freed = 0 /\ (Owed(b).debt >= DustAmount => Least(amount, balance[b]) < DustAmount)
<1> DEFINE d == debt[b].debt
           k == debt[b].collateral
           h == balance[b]
           w == WithGap(d)
           sent == Least(Least(amount, w), h)
           covered == Least(sent, d)
           freed == IF d = 0 THEN 0 ELSE MulDiv(k, covered, d)
           closes == sent >= DustAmount
           paid == IF closes THEN covered ELSE 0
           given == IF closes THEN freed ELSE 0
<1>1. d \in Nat /\ k \in Nat /\ h \in Nat /\ DustAmount \in Nat \ {0}
  BY OneIsPositive DEF AmountsAreNatural, DebtTable, Amounts
<1>2. w \in Nat /\ d <= w /\ (d = 0 => w = 0)
  BY <1>1, GapAdds
<1>3. r.paid = paid /\ r.freed = given
  <2>1. r = [sent |-> sent, expected |-> freed, paid |-> paid, freed |-> given]
    BY DEF Repayment, Owed
  <2> HIDE DEF sent, freed, paid, given
  <2>. QED BY <2>1
<1>4. Owed(b).debt = w
  BY DEF Owed
<1> HIDE DEF d, k, w, h
<1>5. covered = 0 => freed = 0
  <2>1. CASE d = 0
    BY <2>1
  <2>2. CASE d # 0
    <3>1. k * 0 = 0 /\ 0 \div d = 0
      BY <1>1, <2>2
    <3>. QED BY <2>2, <3>1 DEF MulDiv
  <2>. QED BY <2>1, <2>2
<1> HIDE DEF freed
<1>6. paid = 0
  BY <1>3
<1>7. given = 0
  BY <1>5, <1>6
<1>8. w >= DustAmount => Least(amount, h) < DustAmount
  BY <1>1, <1>2, <1>6 DEF Least
<1>. QED BY <1>3, <1>4, <1>7, <1>8 DEF h

\* A plan to sell and repay without a sale: there is nothing to sell.
LEMMA NoSale ==
  ASSUME NEW requested, NEW d, NEW c \in Tokens, NEW held \in Amounts,
         AmountToSell(requested, d, c, price, held[Other(c)]) \in Int,
         NEW p, p = PlanForSellAndRepay(requested, d, c, price, held), p.swap = None
  PROVE  held[c] <= Threshold[c] \/ AmountToSell(requested, d, c, price, held[Other(c)]) = 0
<1> DEFINE s == AmountToSell(requested, d, c, price, held[Other(c)])
           has == held[c]
           toSell == Least(s, has)
           amount == IF toSell > Threshold[c] THEN toSell ELSE Threshold[c] + 1
<1>1. s \in Int /\ has \in Nat /\ Threshold[c] \in Nat
  BY OneIsPositive DEF Amounts
<1>2. p = IF toSell # 0 /\ has >= amount THEN Plan(c, amount, Other(c)) ELSE Plan(None, 0, Other(c))
  BY DEF PlanForSellAndRepay
<1> HIDE DEF s, has
<1>3. ~(toSell # 0 /\ has >= amount)
  <2> HIDE DEF toSell, amount
  <2>1. Plan(c, amount, Other(c)).swap = c /\ c # None
    BY TwoTokens DEF Plan
  <2>. QED BY <1>2, <2>1
<1>4. has <= Threshold[c] \/ s = 0
  BY <1>1, <1>3 DEF Least
<1>. QED BY <1>4 DEF s, has

\* Leftovers with no share for the token of the pair: only that token is sold.
LEMMA LeftoversAreTokens ==
  ASSUME price \in PriceTable, NEW held \in Amounts, NEW p, p = PlanForLeftovers(price, held, 0)
  PROVE  p.repay = None /\ p.swap \in {None, Token}
<1> DEFINE target == TargetAmounts(price, held, 0)
           sold == IF held[Asset] < target[Asset] THEN Token ELSE Asset
           excess == held[sold] - target[sold]
<1>1. p = IF excess > Threshold[sold] THEN Plan(sold, excess, None) ELSE Plan(None, 0, None)
  BY DEF PlanForLeftovers
<1>2. held[Asset] \in Nat /\ Threshold[Asset] \in Nat /\ target[Asset] \in Nat /\ held[Asset] <= target[Asset]
  <2> DEFINE h == held[Asset]
             pA == price[Asset]
             rest == held[Token] * price[Token]
             own == h * pA
             cost == own + rest
             none == MulDiv(cost, 0, One)
  <2>1. h \in Nat /\ pA \in Nat \ {0} /\ Threshold[Asset] \in Nat /\ held[Token] \in Nat /\ price[Token] \in Nat
    BY TwoTokens, OneIsPositive DEF Amounts, PriceTable
  <2>2. target[Asset] = (cost - none) \div pA
    BY TwoTokens DEF TargetAmounts
  <2> HIDE DEF h, pA
  <2>3. own \in Nat /\ rest \in Nat
    BY <2>1
  <2> HIDE DEF rest
  <2>4. cost \in Nat /\ h * pA <= cost
    BY <2>3
  <2> HIDE DEF cost
  <2>5. none = 0
    <3>1. cost * 0 = 0 /\ 0 \div One = 0
      BY <2>4, OneIsPositive
    <3>. QED BY <3>1 DEF MulDiv
  <2>6. target[Asset] = cost \div pA
    BY <2>2, <2>4, <2>5
  <2>7. cost \div pA \in Nat /\ h <= cost \div pA
    BY <2>1, <2>4
  <2>. QED BY <2>1, <2>6, <2>7 DEF h
<1> HIDE DEF target
<1>3. CASE sold = Asset
  <2>1. ~(excess > Threshold[sold])
    BY <1>2, <1>3, TwoTokens
  <2>. QED BY <1>1, <2>1 DEF Plan
<1>4. CASE sold = Token
  <2> HIDE DEF sold, excess
  <2>. QED BY <1>1, <1>4 DEF Plan
<1>. QED BY <1>3, <1>4

\* What the loop plans, by what is owed and there is.
LEMMA PlanOfLoop ==
  ASSUME IInv, NEW plan, plan = BuildIterationPlan(PlanSwapRepay, local.request, 0, 0, price, balance, OwedAll)
  PROVE  /\ plan \in PlanType
         /\ plan.swap # None => plan.amount > 0 /\ (plan.swap = ToSell \/ (plan.swap = Token /\ Reached))
         /\ plan.swap = None /\ plan.repay # None =>
              plan.repay = OwedFirst(OwedAll) /\ Owed(plan.repay).debt >= DustAmount /\ NothingToSell(plan.repay)
         /\ plan.swap = None /\ plan.repay = None => Reached \/ NothingOwed
<1> DEFINE request == local.request
           there == balance[Asset]
           wanted == IF request = NoLimit THEN NoLimit ELSE Sub0(request, there)
           repays == wanted >= Threshold[Asset]
           b == OwedFirst(OwedAll)
           c == Other(b)
           inCollateral == IF b = Token \/ wanted = NoLimit THEN wanted ELSE Worth(wanted, Asset, Token, price)
<1>1. /\ request \in Nat /\ there \in Nat /\ balance \in Amounts /\ price \in PriceTable /\ debt \in DebtTable
      /\ NoLimit \in Nat /\ Threshold[Asset] \in Nat /\ DustAmount \in Nat
  BY TwoTokens, OneIsPositive DEF IInv, TypeOK, AmountsAreNatural, LocalType, Amounts
<1>2. b \in Tokens /\ c \in Tokens /\ Other(c) = b
  BY TwoTokens DEF OwedFirst
<1>3. plan = IF ~repays \/ OwedAll[b].debt < DustAmount THEN PlanForLeftovers(price, balance, 0)
             ELSE PlanForSellAndRepay(inCollateral, OwedAll[b], c, price, balance)
  BY DEF BuildIterationPlan, PlanRepaySwapRepay, PlanSwapRepay, PlanSwapOnly
<1>4. OwedAll[b] = Owed(b)
  BY <1>2 DEF OwedAll
<1>5. OwedAll \in OwedTable /\ DustIsOwed(OwedAll)
  BY <1>1, OwedIsTable
<1>6. plan \in PlanType /\ (plan.swap # None => Threshold[plan.swap] < plan.amount)
  <2>1. 0 \in 0..One
    BY OneIsPositive
  <2>. QED BY <1>1, <1>5, <2>1, PlanIsThere
<1>7. plan.swap # None => plan.amount > 0
  BY <1>6, OneIsPositive DEF PlanType
<1>8. Owed(b).debt \in Nat
  BY <1>2, <1>4, <1>5 DEF OwedTable, DebtType
<1>9. (Owed(b).debt < DustAmount) <=> NothingOwed
  <2>1. \A t \in Tokens : OwedAll[t] = Owed(t) /\ Owed(t).debt \in Nat
    BY <1>5 DEF OwedAll, OwedTable, DebtType
  <2>2. b = IF OwedAll[Asset].debt >= DustAmount THEN Asset ELSE Token
    BY DEF OwedFirst
  <2>3. OwedAll[Asset] = Owed(Asset) /\ Owed(Asset).debt \in Nat /\ Owed(Token).debt \in Nat
    BY <2>1, TwoTokens
  <2>4. NothingOwed <=> Owed(Asset).debt < DustAmount /\ Owed(Token).debt < DustAmount
    BY TwoTokens DEF NothingOwed
  <2> HIDE DEF b
  <2>5. CASE Owed(Asset).debt >= DustAmount
    BY <1>1, <2>2, <2>3, <2>4, <2>5
  <2>6. CASE ~(Owed(Asset).debt >= DustAmount)
    BY <1>1, <2>2, <2>3, <2>4, <2>6
  <2>. QED BY <2>5, <2>6
<1>10. ~repays => Reached
  BY <1>1 DEF Reached, Sub0
<1>11. CASE ~repays \/ Owed(b).debt < DustAmount
  <2>1. plan = PlanForLeftovers(price, balance, 0)
    BY <1>3, <1>4, <1>11
  <2>2. plan.repay = None /\ plan.swap \in {None, Token}
    BY <1>1, <2>1, LeftoversAreTokens
  <2>3. Reached \/ NothingOwed
    BY <1>9, <1>10, <1>11
  <2>4. NothingOwed => ToSell = Token
    BY DEF ToSell
  <2>. QED BY <1>6, <1>7, <2>2, <2>3, <2>4
<1>12. CASE ~(~repays \/ Owed(b).debt < DustAmount)
  <2> DEFINE d == OwedAll[b]
  <2>1. plan = PlanForSellAndRepay(inCollateral, d, c, price, balance)
    BY <1>3, <1>4, <1>12
  <2>2. d \in DebtType /\ IsOwed(d) /\ Owed(b).debt >= DustAmount
    BY <1>1, <1>2, <1>4, <1>5, <1>8, <1>12 DEF OwedTable, DustIsOwed
  <2>3. wanted \in Nat
    BY <1>1 DEF Sub0
  <2>4. inCollateral \in Nat /\ inCollateral = MissingFor(b)
    <3>1. Worth(wanted, Asset, Token, price) \in Nat
      BY <1>1, <2>3, TwoTokens, WorthIsNat
    <3>2. inCollateral = MissingFor(b)
      BY DEF MissingFor
    <3>. QED BY <2>3, <3>1, <3>2
  <2> HIDE DEF d, inCollateral, b, c, wanted
  <2>5. /\ plan.repay = b
        /\ plan.swap # None => plan.swap = c
    BY <1>1, <1>2, <2>1, <2>2, <2>4, SaleIsThere
  <2>6. ToSell = c
    BY <1>9, <1>12 DEF ToSell, b, c
  <2>7. plan.swap = None => NothingToSell(b)
    <3> SUFFICES ASSUME plan.swap = None PROVE NothingToSell(b)
      OBVIOUS
    <3> DEFINE has == balance[Other(c)]
    <3>1. has \in Nat
      BY <1>1, <1>2 DEF Amounts
    <3>2. AmountToSell(inCollateral, d, c, price, balance[Other(c)]) \in Int
      BY <1>1, <1>2, <2>2, <2>4, <3>1, AmountToSellIsInt
    <3>3. balance[c] <= Threshold[c] \/ AmountToSell(inCollateral, d, c, price, balance[Other(c)]) = 0
      BY <1>1, <1>2, <2>1, <3>2, NoSale
    <3>. QED BY <1>2, <1>4, <2>4, <3>3 DEF NothingToSell, d, c
  <2>8. b # None
    BY <1>2, TwoTokens
  <2>. QED BY <1>6, <1>7, <2>2, <2>5, <2>6, <2>7, <2>8 DEF b
<1>. QED BY <1>11, <1>12

\* Where a call goes on: straight to its end, but for three loops.
Leads ==
  /\ pc = "deposit" => pc' = "depositBorrow"
  /\ pc = "depositBorrow" => pc' \in {"borrow", "enter"}
  /\ pc = "borrow" => pc' = "enter"
  /\ pc \in {"enter", "closed"} => pc' = "idle"
  /\ pc = "closing" => pc' \in {"closeSwap", "closeRepay", "closed"}
  /\ pc = "closeSwap" => pc' \in {"closeRepay", "closeCheck", "closed"}
  /\ pc = "closeRepay" => pc' \in {"closeCheck", "idle"}
  /\ pc = "closeCheck" => pc' \in {"closing", "closed"}
  /\ pc = "step" => pc' \in {"swap1", "idle"}
  /\ pc = "swap1" => pc' \in {"repay1", "idle"}
  /\ pc = "repay1" => pc' \in {"swap2", "fix", "enter"}
  /\ pc = "swap2" => pc' \in {"repay2", "enter", "idle"}
  /\ pc = "repay2" => pc' \in {"borrow", "secondRepay", "enter", "idle"}
  /\ pc = "secondRepay" => pc' \in {"secondRepay", "reborrow", "enter"}
  /\ pc \in {"reborrow", "fix"} => pc' \in {"borrow", "enter", "idle"}
  /\ pc = "rebalance" => pc' \in {"rebalance", "borrow", "enter", "idle"}

LEMMA OpeningLeads ==
  ASSUME NEW c, NEW hasC, NEW has, OpenPosition(c, hasC, has)
  PROVE  pc' \in {"borrow", "idle"}
  BY DEF OpenPosition, Revert, Done, Goto

LEMMA ToProportionsLeads ==
  ASSUME NEW c, NEW checked, BorrowToProportions(c, checked)
  PROVE  pc' \in {"borrow", "idle"}
  BY OpeningLeads DEF BorrowToProportions, Revert, Done

LEMMA AdditionLeads ==
  ASSUME NEW c, OpenWithAddition(c)
  PROVE  pc' \in {"borrow", "idle"}
  BY OpeningLeads DEF OpenWithAddition, Revert, Done, Goto

\* A step of a call under way.
LEMMA StepLeads ==
  ASSUME IInv, pc \notin {"idle", "ready"}, Next
  PROVE  Leads
<1>1. CASE RepayBeforeDeposit \/ BorrowForDeposit
  BY <1>1 DEF RepayBeforeDeposit, BorrowForDeposit, Goto, Leads
<1>2. CASE Borrow
  <2>1. pc = "borrow" /\ pc' = local.open.then
    BY <1>2 DEF Borrow, Goto
  <2>2. local.open.then = "enter"
    BY <2>1 DEF IInv, Ready, OpeningType
  <2>. QED BY <2>1, <2>2 DEF Leads
<1>3. CASE Enter \/ HandOver
  BY <1>3 DEF Enter, HandOver, Revert, Done, Leads
<1>4. CASE ClosePlan
  <2>1. pc = "closing" /\ pc' \in {"closeSwap", "closeRepay", "closed"}
    BY <1>4 DEF ClosePlan, Goto
  <2>. QED BY <2>1 DEF Leads
<1>5. CASE CloseSwap
  <2>1. pc = "closeSwap" /\ pc' \in {"closeRepay", "closeCheck", "closed"}
    BY <1>5 DEF CloseSwap, Goto
  <2>. QED BY <2>1 DEF Leads
<1>6. CASE CloseRepay \/ CloseCheck
  BY <1>6 DEF CloseRepay, CloseCheck, Revert, Done, Goto, Leads
<1>7. CASE StepPlan
  <2>1. pc = "step" /\ pc' \in {"swap1", "idle"}
    BY <1>7 DEF StepPlan, Revert, Done, Goto
  <2>. QED BY <2>1 DEF Leads
<1>8. CASE Swap1
  <2>1. pc = "swap1" /\ pc' \in {"repay1", "idle"}
    BY <1>8 DEF Swap1, StepSwap, Revert, Done, Goto
  <2>. QED BY <2>1 DEF Leads
<1>9. CASE Repay1
  <2>1. pc = "repay1" /\ pc' \in {"swap2", "fix", "enter"}
    BY <1>9 DEF Repay1, Goto
  <2>. QED BY <2>1 DEF Leads
<1>10. CASE Swap2
  <2>1. pc = "swap2" /\ pc' \in {"repay2", "enter", "idle"}
    BY <1>10 DEF Swap2, StepSwap, Revert, Done
  <2>. QED BY <2>1 DEF Leads
<1>11. CASE Repay2
  <2>1. pc = "repay2" /\ pc' \in {"borrow", "secondRepay", "enter", "idle"}
    BY <1>11, ToProportionsLeads DEF Repay2, Goto
  <2>. QED BY <2>1 DEF Leads
<1>12. CASE SecondRepay
  <2>1. pc = "secondRepay" /\ pc' \in {"secondRepay", "reborrow", "enter"}
    BY <1>12 DEF SecondRepay, Goto
  <2>. QED BY <2>1 DEF Leads
<1>13. CASE Reborrow
  <2>1. pc = "reborrow" /\ pc' \in {"borrow", "idle"}
    BY <1>13, ToProportionsLeads DEF Reborrow
  <2>. QED BY <2>1 DEF Leads
<1>14. CASE FixLeftovers
  <2>1. pc = "fix" /\ pc' \in {"borrow", "enter", "idle"}
    BY <1>14, ToProportionsLeads DEF FixLeftovers, Goto
  <2>. QED BY <2>1 DEF Leads
<1>15. CASE RebalanceAssets
  <2>1. pc = "rebalance" /\ pc' \in {"rebalance", "borrow", "enter", "idle"}
    BY <1>15, AdditionLeads DEF RebalanceAssets, Revert, Done, Goto
  <2>. QED BY <2>1 DEF Leads
<1>. QED BY <1>1, <1>2, <1>3, <1>4, <1>5, <1>6, <1>7, <1>8, <1>9, <1>10, <1>11, <1>12, <1>13, <1>14, <1>15
     DEF Next, Work, Deposit, Withdraw, WithdrawStep, Rebalance, MarketMoves, StartDeposit, StartWithdraw, StartStep,
         StartRebalance, Begin

\* A step between calls comes to one of the starts.
LEMMA StartLeads ==
  ASSUME pc \in {"idle", "ready"}, Next
  PROVE  \/ pc' \in {"ready", "deposit", "step", "rebalance"}
         \/ \E asked \in Withdrawals : StartWithdraw(asked)
<1>1. CASE Work
  <2>1. pc' \in {"deposit", "step", "rebalance"} \/ \E asked \in Withdrawals : StartWithdraw(asked)
    BY <1>1 DEF Work, Deposit, Withdraw, WithdrawStep, Rebalance, StartDeposit, StartStep, StartRebalance, Begin,
       RepayBeforeDeposit, BorrowForDeposit, ClosePlan, CloseSwap, CloseRepay, CloseCheck, HandOver, StepPlan, Swap1,
       Repay1, Swap2, Repay2, SecondRepay, Reborrow, FixLeftovers, RebalanceAssets, Borrow, Enter
  <2>. QED BY <2>1
<1>2. CASE MarketMoves
  BY <1>2 DEF MarketMoves
<1>. QED BY <1>1, <1>2 DEF Next

\* In the loop only its own steps are taken.
LEMMA LoopSteps ==
  ASSUME pc \in Loop, Next
  PROVE  ClosePlan \/ CloseSwap \/ CloseRepay \/ CloseCheck
<1>1. ~Deposit /\ ~WithdrawStep /\ ~Rebalance /\ ~Borrow /\ ~Enter /\ ~MarketMoves
  BY DEF Loop, Deposit, WithdrawStep, Rebalance, StartDeposit, StartStep, StartRebalance, Begin, RepayBeforeDeposit,
     BorrowForDeposit, StepPlan, Swap1, Repay1, Swap2, Repay2, SecondRepay, Reborrow, FixLeftovers, RebalanceAssets,
     Borrow, Enter, MarketMoves
<1>2. ~HandOver /\ \A asked \in Withdrawals : ~StartWithdraw(asked)
  BY DEF Loop, HandOver, StartWithdraw, Begin
<1>. QED BY <1>1, <1>2 DEF Next, Work, Withdraw

LEMMA SameAmounts ==
  ASSUME balance' = balance, debt' = debt, price' = price, local'.request = local.request
  PROVE  /\ Reached' <=> Reached
         /\ NothingOwed' <=> NothingOwed
         /\ Stuck' <=> Stuck
         /\ OwedAll' = OwedAll /\ ToSell' = ToSell
         /\ \A b \in Tokens : Owed(b)' = Owed(b) /\ (NothingToSell(b)' <=> NothingToSell(b))
<1>1. \A b \in Tokens : Owed(b)' = Owed(b)
  BY DEF Owed
<1>2. OwedAll' = OwedAll
  BY <1>1 DEF OwedAll
<1>3. NothingOwed' <=> NothingOwed
  BY <1>1 DEF NothingOwed
<1>4. \A b \in Tokens : NothingToSell(b)' <=> NothingToSell(b)
  <2> SUFFICES ASSUME NEW b \in Tokens PROVE NothingToSell(b)' <=> NothingToSell(b)
    OBVIOUS
  <2>1. MissingFor(b)' = MissingFor(b)
    BY DEF MissingFor
  <2>2. Owed(b)' = Owed(b)
    BY <1>1
  <2>. QED BY <2>1, <2>2 DEF NothingToSell
<1>5. OwedFirst(OwedAll) \in Tokens /\ OwedFirst(OwedAll)' = OwedFirst(OwedAll)
  BY <1>2, TwoTokens DEF OwedFirst
<1> DEFINE first == OwedFirst(OwedAll)
<1>6. Stuck' <=> Stuck
  <2>1. NothingToSell(first)' <=> NothingToSell(first)
    <3>1. PICK f \in Tokens : f = first
      BY <1>5
    <3>2. f = first'
      BY <1>5, <3>1
    <3>3. NothingToSell(first) <=> NothingToSell(f)
      BY <3>1
    <3>4. NothingToSell(first)' <=> NothingToSell(f)'
      BY <3>2 DEF NothingToSell, MissingFor, Owed
    <3>. QED BY <1>4, <3>3, <3>4
  <2>. QED BY <1>5, <2>1 DEF Stuck
<1>7. ToSell' = ToSell
  BY <1>2, <1>3, <1>5 DEF ToSell
<1>8. Reached' <=> Reached
  BY DEF Reached
<1>. QED BY <1>1, <1>2, <1>3, <1>4, <1>6, <1>7, <1>8

LEMMA ClosePlanIsClosing ==
  ASSUME IInv, Closing, ClosePlan
  PROVE  Closing'
<1> DEFINE plan == BuildIterationPlan(PlanSwapRepay, local.request, 0, 0, price, balance, OwedAll)
           b == plan.repay
<1>1. /\ pc = "closing" /\ local' = [local EXCEPT !.plan = plan, !.spent = 0]
      /\ balance' = balance /\ debt' = debt /\ price' = price /\ saved' = saved
      /\ pc' = IF plan.swap # None THEN "closeSwap" ELSE IF plan.repay # None THEN "closeRepay" ELSE "closed"
  BY DEF ClosePlan, Goto, amounts, market
<1>2. /\ plan \in PlanType
      /\ plan.swap # None => plan.amount > 0 /\ (plan.swap = ToSell \/ (plan.swap = Token /\ Reached))
      /\ plan.swap = None /\ plan.repay # None =>
           plan.repay = OwedFirst(OwedAll) /\ Owed(plan.repay).debt >= DustAmount /\ NothingToSell(plan.repay)
      /\ plan.swap = None /\ plan.repay = None => Reached \/ NothingOwed
  BY PlanOfLoop
<1> HIDE DEF plan
<1>3. local \in LocalType
  BY DEF IInv, TypeOK
<1>4. local'.plan = plan /\ local'.seen = local.seen /\ local'.request = local.request
  BY <1>1, <1>3 DEF LocalType
<1>5. /\ Reached' <=> Reached
      /\ NothingOwed' <=> NothingOwed
      /\ OwedAll' = OwedAll /\ ToSell' = ToSell
      /\ \A t \in Tokens : Owed(t)' = Owed(t) /\ (NothingToSell(t)' <=> NothingToSell(t))
  BY <1>1, <1>4, SameAmounts
<1>6. balance' = local'.seen /\ \A t \in Tokens : debt'[t].debt <= saved'.debt[t].debt
  BY <1>1, <1>4 DEF Closing, Loop
<1>7. CASE plan.swap # None
  <2>1. pc' = "closeSwap"
    BY <1>1, <1>7
  <2>2. local'.plan.swap = ToSell' \/ (local'.plan.swap = Token /\ Reached')
    BY <1>2, <1>4, <1>5, <1>7
  <2>. QED BY <1>2, <1>4, <1>6, <1>7, <2>1, <2>2 DEF Closing
<1>8. CASE plan.swap = None /\ plan.repay # None
  <2>1. pc' = "closeRepay" /\ b \in Tokens
    BY <1>1, <1>2, <1>8 DEF PlanType
  <2>2. PICK f \in Tokens : f = b
    BY <2>1
  <2>3. f = OwedFirst(OwedAll) /\ Owed(f).debt >= DustAmount /\ NothingToSell(f) /\ local'.plan.repay = f
    BY <1>2, <1>4, <1>8, <2>2
  <2>4. f = OwedFirst(OwedAll)'
    BY <1>5, <2>3 DEF OwedFirst
  <2>5. Owed(f)'.debt >= DustAmount /\ NothingToSell(f)'
    BY <1>5, <2>3
  <2>6. Owed(local.plan.repay)'.debt >= DustAmount /\ NothingToSell(local.plan.repay)'
    BY <2>3, <2>5 DEF NothingToSell, MissingFor, Owed
  <2>. QED BY <1>4, <1>6, <1>8, <2>1, <2>3, <2>4, <2>6 DEF Closing
<1>9. CASE plan.swap = None /\ plan.repay = None
  <2>1. pc' = "closed" /\ (Reached' \/ NothingOwed')
    BY <1>1, <1>2, <1>5, <1>9
  <2>. QED BY <2>1 DEF Closing, Loop
<1>. QED BY <1>7, <1>8, <1>9

LEMMA CloseSwapIsClosing ==
  ASSUME IInv, Closing, CloseSwap
  PROVE  Closing'
<1> DEFINE p == local.plan
           next == IF p.swap = Token /\ Reached' THEN "closed" ELSE IF p.repay # None THEN "closeRepay" ELSE "closeCheck"
<1>1. pc = "closeSwap" /\ pc' = next /\ saved' = saved
  BY DEF CloseSwap, Goto
<1>2. PICK s \in Slippages : Swap(p.swap, p.amount, s)
  BY DEF CloseSwap
<1>3. local \in LocalType /\ price \in PriceTable /\ AmountsAreNatural
  BY DEF IInv, TypeOK
<1>4. p.swap \in Tokens /\ p.amount <= balance[p.swap] /\ p.amount > 0 /\ p.amount \in Int /\ balance = local.seen
  BY <1>1, <1>3 DEF IInv, Ready, Closing, LocalType, PlanType
<1>5. local'.plan = p /\ local'.seen = local.seen
  BY <1>3 DEF CloseSwap, LocalType
<1>6. debt' = debt /\ balance'[p.swap] = balance[p.swap] - p.amount /\ balance[p.swap] \in Nat
  <2> DEFINE u == p.swap
             n == p.amount
  <2>1. u \in Tokens /\ n \in Nat /\ n <= balance[u] /\ Swap(u, n, s)
    BY <1>2, <1>4
  <2>2. balance[u] \in Nat
    BY <1>3, <2>1 DEF AmountsAreNatural, Amounts
  <2> HIDE DEF u, n
  <2>3. debt' = debt /\ balance'[u] = balance[u] - n
    BY <1>3, <2>1, SwapKeepsAmounts
  <2>. QED BY <2>2, <2>3 DEF u, n
<1>7. \A t \in Tokens : debt'[t].debt <= saved'.debt[t].debt
  BY <1>1, <1>6 DEF Closing, Loop
<1>8. balance'[local'.plan.swap] < local'.seen[local'.plan.swap]
  BY <1>4, <1>5, <1>6
<1>9. local'.plan.swap # None /\ balance' # local'.seen
  <2>1. PICK u \in Tokens : u = p.swap
    BY <1>4
  <2>2. balance'[u] < local'.seen[u] /\ balance'[u] \in Int
    BY <1>4, <1>5, <1>6, <1>8, <2>1
  <2>3. balance' # local'.seen
    BY <2>2
  <2>. QED BY <1>5, <2>1, <2>3, TwoTokens
<1>10. next = "closed" => Reached'
  OBVIOUS
<1>11. pc' \in {"closeRepay", "closeCheck", "closed"}
  BY <1>1
<1>. QED BY <1>1, <1>7, <1>8, <1>9, <1>10, <1>11 DEF Closing

LEMMA CloseCheckIsClosing ==
  ASSUME IInv, Closing, CloseCheck
  PROVE  Closing'
<1>1. /\ pc = "closeCheck" /\ local' = [local EXCEPT !.seen = balance]
      /\ balance' = balance /\ debt' = debt /\ price' = price /\ saved' = saved
      /\ pc' = IF balance = local.seen THEN "closed" ELSE "closing"
  BY DEF CloseCheck, Goto, amounts, market
<1>2. local \in LocalType
  BY DEF IInv, TypeOK
<1>3. local'.plan = local.plan /\ local'.seen = balance /\ local'.request = local.request
  BY <1>1, <1>2 DEF LocalType
<1>4. Stuck' <=> Stuck
  BY <1>1, <1>3, SameAmounts
<1>5. SaleCancelled' <=> SaleCancelled
  BY <1>1, <1>3 DEF SaleCancelled
<1>6. CASE balance = local.seen
  <2>1. pc' = "closed" /\ (Stuck' \/ SaleCancelled')
    BY <1>1, <1>4, <1>5, <1>6 DEF Closing
  <2>. QED BY <2>1 DEF Closing, Loop
<1>7. CASE balance # local.seen
  <2>1. pc' = "closing" /\ balance' = local'.seen
    BY <1>1, <1>3, <1>7
  <2>2. \A t \in Tokens : debt'[t].debt <= saved'.debt[t].debt
    BY <1>1 DEF Closing, Loop
  <2>. QED BY <2>1, <2>2 DEF Closing
<1>. QED BY <1>6, <1>7

LEMMA CloseRepayIsClosing ==
  ASSUME IInv, Closing, CloseRepay
  PROVE  Closing'
<1> DEFINE r == Repayment(local.plan.repay, balance[local.plan.repay])
<1>1. pc = "closeRepay" /\ saved \in SavedType /\ local \in LocalType /\ AmountsAreNatural /\ local.plan.repay \in Tokens
  BY DEF CloseRepay, IInv, TypeOK, Ready
<1>2. PICK b \in Tokens : b = local.plan.repay
  BY <1>1
<1>3. CASE Revert
  BY <1>3 DEF Revert, Done, Closing, Loop
<1>4. CASE Repay(b, r) /\ local'.plan = local.plan /\ local'.seen = local.seen /\ local'.request = local.request
           /\ Goto("closeCheck")
  <2> DEFINE o == Other(b)
             h == balance[b]
             d == debt[b].debt
             k == debt[b].collateral
  <2>1. /\ o \in Tokens /\ o # b /\ \A t \in Tokens : t = b \/ t = o
        /\ h \in Nat /\ balance[o] \in Nat /\ d \in Nat /\ k \in Nat
        /\ \A t \in Tokens : saved.debt[t].debt \in Nat /\ debt[t].debt <= saved.debt[t].debt
    BY <1>1, TwoTokens, TokenOf DEF AmountsAreNatural, Amounts, DebtTable, SavedType, Closing, Loop
  <2>2. Fits(b, h, r)
    BY <1>1, <1>2, <2>1, RepaymentFits
  <2>3. Repay(b, r) /\ r = Repayment(b, h)
    BY <1>2, <1>4
  <2> HIDE DEF o, h, r
  <2>4. debt'[b].debt = d - r.paid /\ debt'[o] = debt[o] /\ balance'[b] = h - r.paid /\ balance'[o] = balance[o] + r.freed
    BY <1>1, <2>1, <2>2, <2>3, RepayKeepsAmounts DEF o, h
  <2>5. r.paid \in Nat /\ r.paid <= d /\ r.freed \in Nat
    BY <2>2 DEF Fits
  <2>6. pc' = "closeCheck" /\ saved' = saved /\ price' = price
    BY <1>4 DEF Goto, market
  <2>7. \A t \in Tokens : debt'[t].debt <= saved'.debt[t].debt
    <3>1. d - r.paid <= d /\ d <= saved.debt[b].debt
      BY <2>1, <2>5
    <3>2. debt'[b].debt <= saved'.debt[b].debt
      BY <2>1, <2>4, <2>5, <2>6, <3>1
    <3>3. debt'[o].debt <= saved'.debt[o].debt
      BY <2>1, <2>4, <2>6
    <3>. QED BY <2>1, <3>2, <3>3
  <2>8. r.paid = 0 => r.freed = 0 /\ (Owed(b).debt >= DustAmount => h < DustAmount)
    <3>1. Least(h, h) = h
      BY DEF Least
    <3>. QED BY <1>1, <2>1, <2>3, <3>1, NoRepayment DEF h
  <2>9. ASSUME balance' = local'.seen
        PROVE  Stuck' \/ SaleCancelled'
    <3>1. CASE local.plan.swap = None
      <4>1. /\ balance = local.seen
            /\ local.plan.repay = OwedFirst(OwedAll) /\ Owed(local.plan.repay).debt >= DustAmount
            /\ NothingToSell(local.plan.repay)
        BY <1>1, <3>1 DEF Closing
      <4>2. b = OwedFirst(OwedAll) /\ Owed(b).debt >= DustAmount /\ NothingToSell(b)
        BY <1>2, <4>1
      <4>3. balance' = balance
        BY <1>4, <2>9, <4>1
      <4>4. r.paid = 0
        BY <2>1, <2>4, <2>5, <4>3 DEF h
      <4>5. r.freed = 0 /\ h < DustAmount
        BY <2>8, <4>2, <4>4
      <4>6. debt' = debt
        <5>1. debt' = [debt EXCEPT ![b] = [collateral |-> k - r.freed, debt |-> d - r.paid]]
          BY <2>3 DEF Repay
        <5>2. debt[b] = [collateral |-> k, debt |-> d]
          BY <1>1 DEF AmountsAreNatural, DebtTable
        <5>3. k - r.freed = k /\ d - r.paid = d
          BY <2>1, <4>4, <4>5
        <5> HIDE DEF k, d
        <5>4. debt' = [debt EXCEPT ![b] = debt[b]]
          BY <5>1, <5>2, <5>3
        <5>. QED BY <1>1, <5>4 DEF AmountsAreNatural, DebtTable
      <4>7. Stuck' <=> Stuck
        BY <1>4, <2>6, <4>3, <4>6, SameAmounts
      <4>8. Stuck
        BY <4>2, <4>5 DEF Stuck, h
      <4>. QED BY <4>7, <4>8
    <3>2. CASE local.plan.swap # None
      <4>1. local.plan.swap \in Tokens /\ balance[local.plan.swap] < local.seen[local.plan.swap]
        BY <1>1, <3>2 DEF Closing, LocalType, PlanType
      <4>2. PICK s \in Tokens : s = local.plan.swap
        BY <4>1
      <4>3. balance[s] < balance'[s]
        BY <1>4, <2>9, <4>1, <4>2
      <4>4. s # b
        BY <2>1, <2>4, <2>5, <4>3 DEF h
      <4>5. s = o
        BY <2>1, <4>4
      <4>6. r.freed # 0
        BY <2>1, <2>4, <4>3, <4>5
      <4>7. r.paid # 0
        BY <2>8, <4>6
      <4>8. debt'[b].debt < saved'.debt[b].debt
        <5>1. d - r.paid < d /\ d <= saved.debt[b].debt
          BY <2>1, <2>5, <4>7
        <5>. QED BY <2>1, <2>4, <2>5, <2>6, <5>1
      <4>9. local'.plan.swap # None /\ local'.plan.repay = b /\ b # None
        BY <1>2, <1>4, <3>2, TwoTokens
      <4>. QED BY <4>8, <4>9 DEF SaleCancelled
    <3>. QED BY <3>1, <3>2
  <2>. QED BY <2>6, <2>7, <2>9 DEF Closing
<1>5. Revert \/ (Repay(local.plan.repay, r) /\ Goto("closeCheck") /\ \E e : local' = [local EXCEPT !.expected = e])
  <2> HIDE DEF r
  <2>. QED BY DEF CloseRepay, r
<1>6. (\E e : local' = [local EXCEPT !.expected = e]) =>
        local'.plan = local.plan /\ local'.seen = local.seen /\ local'.request = local.request
  BY <1>1 DEF LocalType
<1>. QED BY <1>2, <1>3, <1>4, <1>5, <1>6

LEMMA StartWithdrawIsClosing ==
  ASSUME IInv, NEW asked \in Withdrawals, StartWithdraw(asked)
  PROVE  Closing'
<1>1. /\ pc' = "closing" /\ local'.seen = balance' /\ debt' = debt /\ saved'.debt = debt
      /\ debt \in DebtTable
  <2> DEFINE target == IF asked = NoLimit THEN NoLimit ELSE MulDiv(asked - balance[Asset], 101, 100)
             ratio == LiquidityToExit(target)
             after == [t \in Tokens |-> balance[t] + [u \in Tokens |-> MulDiv(pool[u], ratio, One)][t]]
             first == after[Asset]
             request == IF asked = NoLimit THEN NoLimit ELSE MulDiv(balance[Asset] + target, 105, 100)
  <2>1. /\ balance' = after /\ debt' = debt
        /\ Begin("closing", [Blank EXCEPT !.asked = asked, !.expected = first, !.seen = after, !.request = request])
    BY DEF StartWithdraw
  <2> HIDE DEF after, first, request
  <2>. QED BY <2>1 DEF Begin, Blank, IInv, TypeOK, AmountsAreNatural
<1>2. \A t \in Tokens : debt'[t].debt <= saved'.debt[t].debt
  BY <1>1 DEF DebtTable
<1>. QED BY <1>1, <1>2 DEF Closing

LEMMA NextIsClosing ==
  ASSUME IInv, Closing, [Next]_vars
  PROVE  Closing'
<1>1. CASE pc' \notin Loop \union {"closed"}
  BY <1>1 DEF Closing, Loop
<1>2. CASE pc \in {"idle", "ready"} /\ Next
  BY <1>1, <1>2, StartLeads, StartWithdrawIsClosing DEF Loop
<1>3. CASE pc \notin {"idle", "ready"} /\ Next
  <2>1. CASE pc \notin Loop
    <3>1. pc' \notin Loop \union {"closed"}
      BY <1>3, <2>1, StepLeads DEF Leads, Loop, IInv, TypeOK, Places
    <3>. QED BY <1>1, <3>1
  <2>2. CASE pc \in Loop
    <3>1. ClosePlan \/ CloseSwap \/ CloseRepay \/ CloseCheck
      BY <1>3, <2>2, LoopSteps
    <3>. QED BY <3>1, ClosePlanIsClosing, CloseSwapIsClosing, CloseRepayIsClosing, CloseCheckIsClosing
  <2>. QED BY <2>1, <2>2
<1>4. CASE UNCHANGED vars
  <2>1. balance' = balance /\ debt' = debt /\ price' = price /\ local' = local /\ saved' = saved /\ pc' = pc
    BY <1>4 DEF vars, amounts, market
  <2>2. /\ Reached' <=> Reached
        /\ NothingOwed' <=> NothingOwed
        /\ Stuck' <=> Stuck
        /\ OwedAll' = OwedAll /\ ToSell' = ToSell
        /\ \A t \in Tokens : Owed(t)' = Owed(t) /\ (NothingToSell(t)' <=> NothingToSell(t))
    BY <2>1, SameAmounts
  <2>3. SaleCancelled' <=> SaleCancelled
    BY <2>1 DEF SaleCancelled
  <2>4. CASE pc = "closeRepay" /\ local.plan.swap = None
    <3>1. PICK b \in Tokens : b = local.plan.repay
      BY <2>4 DEF IInv, Ready
    <3>2. b = OwedFirst(OwedAll) /\ Owed(b).debt >= DustAmount /\ NothingToSell(b) /\ balance = local.seen
      BY <2>4, <3>1 DEF Closing
    <3>3. b = OwedFirst(OwedAll)'
      BY <2>2, <3>2 DEF OwedFirst
    <3>4. Owed(b)'.debt >= DustAmount /\ NothingToSell(b)'
      BY <2>2, <3>2
    <3>5. Owed(local.plan.repay)'.debt >= DustAmount /\ NothingToSell(local.plan.repay)' /\ local'.plan.repay = b
      BY <2>1, <3>1, <3>4 DEF NothingToSell, MissingFor, Owed
    <3>. QED BY <2>1, <2>4, <3>2, <3>3, <3>5 DEF Closing, Loop
  <2>5. CASE ~(pc = "closeRepay" /\ local.plan.swap = None)
    BY <2>1, <2>2, <2>3, <2>5 DEF Closing, Loop
  <2>. QED BY <2>4, <2>5
<1>. QED BY <1>2, <1>3, <1>4

LEMMA ClosingIsEnough ==
  ASSUME Closing
  PROVE  ShortOnlyWhenStuck
  BY DEF Closing, ShortOnlyWhenStuck

\* THEOREM.  The loop that closes positions leaves its caller short of what was asked for
\* only when nothing is owed any more, or when there is nothing to repay the next debt with
\* and nothing to sell for it, or when the last repayment freed exactly what was sold for
\* it: whatever the prices, swaps and amounts (ConverterStrategyBaseLib
\* _closePositionsToGetAmount with IterationPlanLib).
THEOREM LoopEndsShortOnlyWhenStuck == Spec => []ShortOnlyWhenStuck
<1>1. Init => Closing
  BY DEF Init, Closing, Loop
<1>2. IInv /\ Closing /\ [Next]_vars => Closing'
  BY NextIsClosing
<1>3. Closing => ShortOnlyWhenStuck
  BY ClosingIsEnough
<1>. QED BY <1>1, <1>2, <1>3, IInvHolds, PTL DEF Spec

OwedInAll == debt[Asset].debt + debt[Token].debt

\* A repayment lowers the debts by what is paid.
LEMMA RepayOfTheSum ==
  ASSUME AmountsAreNatural, NEW b \in Tokens, NEW amount \in Nat, NEW r, Fits(b, amount, r), Repay(b, r)
  PROVE  /\ OwedInAll' = OwedInAll - r.paid
         /\ OwedInAll \in Nat
<1>1. debt'[b].debt = debt[b].debt - r.paid /\ debt'[Other(b)] = debt[Other(b)] /\ r.paid \in Nat
  BY RepayKeepsAmounts DEF Fits
<1>2. debt[Asset].debt \in Nat /\ debt[Token].debt \in Nat
  BY TwoTokens DEF AmountsAreNatural, DebtTable
<1>3. (b = Asset /\ Other(b) = Token) \/ (b = Token /\ Other(b) = Asset)
  BY TwoTokens
<1>. QED BY <1>1, <1>2, <1>3 DEF OwedInAll

LEMMA RepayOfNothing ==
  ASSUME AmountsAreNatural, NEW b \in Tokens, NEW r, Repay(b, r), r.paid = 0, r.freed = 0
  PROVE  debt' = debt /\ balance' = balance
<1> DEFINE o == Other(b)
           d == debt[b].debt
           k == debt[b].collateral
<1>1. d \in Nat /\ k \in Nat /\ debt \in DebtTable /\ debt[b] = [collateral |-> k, debt |-> d]
      /\ balance \in Amounts /\ balance[b] \in Nat /\ balance[o] \in Nat /\ o \in Tokens
  BY TwoTokens DEF AmountsAreNatural, Amounts, DebtTable
<1>2. /\ balance' = [balance EXCEPT ![b] = @ - r.paid, ![o] = @ + r.freed]
      /\ debt' = [debt EXCEPT ![b] = [collateral |-> k - r.freed, debt |-> d - r.paid]]
  BY DEF Repay
<1>3. k - r.freed = k /\ d - r.paid = d /\ balance[b] - r.paid = balance[b] /\ balance[o] + r.freed = balance[o]
  BY <1>1
<1> HIDE DEF d, k, o
<1>4. debt' = [debt EXCEPT ![b] = debt[b]]
  BY <1>1, <1>2, <1>3
<1>5. balance' = balance
  BY <1>1, <1>2, <1>3, TwoTokens DEF Amounts, o
<1>. QED BY <1>1, <1>4, <1>5 DEF DebtTable
-----------------------------------------------------------------------------
(* How far a call is from its end                                          *)

\* Places in the order of a call: each step leads to a lower phase, but for the loop that
\* closes positions, the second repayments and the repayments of a rebalance.
Phase(place) ==
  CASE place \in {"idle", "ready"} -> 0
    [] place \in {"enter", "closed"} -> 1
    [] place = "borrow" -> 2
    [] place \in {"reborrow", "fix", "depositBorrow"} -> 3
    [] place \in {"secondRepay", "rebalance", "deposit"} -> 4
    [] place \in Loop \union {"repay2"} -> 5
    [] place = "swap2" -> 6
    [] place = "repay1" -> 7
    [] place = "swap1" -> 8
    [] OTHER -> 9

\* A loop goes round as long as debts are repaid - or its given number of times,
RoundsLeft ==
  IF pc = "rebalance" THEN local.depth
  ELSE IF pc \in Loop \union {"secondRepay"} THEN OwedInAll ELSE 0
\* as long as there is something to sell for the next debt,
LeftToSell == IF pc \in Loop THEN balance[ToSell] ELSE 0
\* or once more after the first repayment, or after balances have changed.
OnceMore ==
  IF \/ pc \in Loop /\ balance # local.seen
     \/ pc = "secondRepay" /\ local.owedBefore = NoLimit
  THEN 1 ELSE 0
PlaceInLoop == IF pc = "closing" THEN 3 ELSE IF pc = "closeSwap" THEN 2 ELSE IF pc = "closeRepay" THEN 1 ELSE 0

Measure ==
  [phase |-> Phase(pc), rounds |-> RoundsLeft, sell |-> LeftToSell, again |-> OnceMore, place |-> PlaceInLoop]
Measures == [phase : Nat, rounds : Nat, sell : Nat, again : Nat, place : Nat]

\* The lexicographic order of the measures, which has no infinite descent.
Lower(m, n) ==
  \/ m.phase < n.phase
  \/ (m.phase = n.phase /\ m.rounds < n.rounds)
  \/ (m.phase = n.phase /\ m.rounds = n.rounds /\ m.sell < n.sell)
  \/ (m.phase = n.phase /\ m.rounds = n.rounds /\ m.sell = n.sell /\ m.again < n.again)
  \/ (m.phase = n.phase /\ m.rounds = n.rounds /\ m.sell = n.sell /\ m.again = n.again /\ m.place < n.place)

\* A debt in its 256 bits is not the value that stands for no limit.
WithinLimit == \A t \in Tokens : Owed(t).debt < NoLimit
MakesProgress == [][pc \notin {"idle", "ready"} /\ WithinLimit => Lower(Measure', Measure)]_vars

\* What the rounds are counted with.
Counted ==
  /\ pc = "secondRepay" => local.owedBefore \in {NoLimit, Owed(local.plan.repay).debt}
  /\ pc = "rebalance" => local.depth \in Nat

LEMMA PhaseFalls ==
  ASSUME Leads, pc \in Places, pc \notin {"idle", "ready"},
         ~(pc \in Loop /\ pc' \in Loop), ~(pc = "secondRepay" /\ pc' = pc), ~(pc = "rebalance" /\ pc' = pc)
  PROVE  Lower(Measure', Measure)
<1>1. Phase(pc') < Phase(pc)
  <2>1. CASE pc \in {"deposit", "depositBorrow", "borrow", "enter", "closed"}
    BY <2>1 DEF Leads, Phase, Loop
  <2>2. CASE pc \in Loop
    BY <2>2 DEF Leads, Phase, Loop
  <2>3. CASE pc \in {"step", "swap1", "repay1", "swap2"}
    BY <2>3 DEF Leads, Phase, Loop
  <2>4. CASE pc \in {"repay2", "secondRepay", "reborrow", "fix", "rebalance"}
    BY <2>4 DEF Leads, Phase, Loop
  <2>. QED BY <2>1, <2>2, <2>3, <2>4 DEF Places, Loop
<1>. QED BY <1>1 DEF Lower, Measure

\* The steps of the loop that closes positions, round after round.
LEMMA LoopFalls ==
  ASSUME IInv, Closing, pc \in Loop, pc' \in Loop, ClosePlan \/ CloseSwap \/ CloseRepay \/ CloseCheck
  PROVE  Lower(Measure', Measure)
<1>1. Phase(pc) = 5 /\ Phase(pc') = 5
  BY DEF Phase, Loop
<1>2. AmountsAreNatural /\ local \in LocalType /\ price \in PriceTable
  BY DEF IInv, TypeOK
<1>3. ToSell \in Tokens
  BY TwoTokens DEF ToSell, OwedFirst
<1>4. /\ RoundsLeft = OwedInAll /\ RoundsLeft' = OwedInAll'
      /\ LeftToSell = balance[ToSell] /\ LeftToSell' = balance'[ToSell']
      /\ OnceMore = (IF balance # local.seen THEN 1 ELSE 0) /\ OnceMore' = (IF balance' # local'.seen THEN 1 ELSE 0)
  <2>1. RoundsLeft = OwedInAll /\ RoundsLeft' = OwedInAll'
    BY DEF RoundsLeft, Loop
  <2>2. LeftToSell = balance[ToSell] /\ LeftToSell' = balance'[ToSell']
    BY DEF LeftToSell
  <2>3. OnceMore = (IF balance # local.seen THEN 1 ELSE 0) /\ OnceMore' = (IF balance' # local'.seen THEN 1 ELSE 0)
    BY DEF OnceMore, Loop
  <2>. QED BY <2>1, <2>2, <2>3
<1>5. debt' = debt => ToSell' = ToSell /\ OwedInAll' = OwedInAll
  <2> SUFFICES ASSUME debt' = debt PROVE ToSell' = ToSell /\ OwedInAll' = OwedInAll
    OBVIOUS
  <2>1. \A t \in Tokens : Owed(t)' = Owed(t)
    BY DEF Owed
  <2>2. OwedAll' = OwedAll /\ (NothingOwed' <=> NothingOwed)
    BY <2>1 DEF OwedAll, NothingOwed
  <2>3. OwedFirst(OwedAll)' = OwedFirst(OwedAll)
    BY <2>2 DEF OwedFirst
  <2>. QED BY <2>2, <2>3 DEF ToSell, OwedInAll
<1>6. CASE ClosePlan
  <2>1. /\ pc = "closing" /\ pc' \in {"closeSwap", "closeRepay"} /\ balance' = balance /\ debt' = debt
        /\ local'.seen = local.seen
    <3>1. pc = "closing" /\ pc' \in {"closeSwap", "closeRepay", "closed"} /\ balance' = balance /\ debt' = debt
      BY <1>6 DEF ClosePlan, Goto, amounts
    <3>2. local'.seen = local.seen
      BY <1>2, <1>6 DEF ClosePlan, LocalType
    <3>. QED BY <3>1, <3>2 DEF Loop
  <2>2. ToSell' = ToSell /\ RoundsLeft' = RoundsLeft /\ LeftToSell' = LeftToSell /\ OnceMore' = OnceMore
    BY <1>4, <1>5, <2>1
  <2>3. PlaceInLoop' < PlaceInLoop
    BY <2>1 DEF PlaceInLoop
  <2>. QED BY <1>1, <2>2, <2>3 DEF Lower, Measure
<1>7. CASE CloseSwap
  <2>1. pc = "closeSwap" /\ \E s \in Slippages : Swap(local.plan.swap, local.plan.amount, s)
    BY <1>7 DEF CloseSwap
  <2>2. /\ local.plan.swap \in Tokens /\ local.plan.amount <= balance[local.plan.swap]
        /\ local.plan.amount > 0 /\ local.plan.amount \in Int
        /\ local.plan.swap = ToSell \/ (local.plan.swap = Token /\ Reached)
    BY <1>2, <2>1 DEF IInv, Ready, Closing, LocalType, PlanType
  <2>3. PICK u \in Tokens, n \in Nat, s \in Slippages :
          u = local.plan.swap /\ n = local.plan.amount /\ n > 0 /\ n <= balance[u] /\ Swap(u, n, s)
    BY <2>1, <2>2
  <2>4. debt' = debt /\ balance'[u] = balance[u] - n /\ balance[Other(u)] <= balance'[Other(u)]
    BY <1>2, <2>3, SwapKeepsAmounts
  <2>5. u = ToSell
    <3> SUFFICES ASSUME u = Token, Reached PROVE FALSE
      BY <2>2, <2>3
    <3>1. balance[Asset] <= balance'[Asset]
      BY <2>4, TwoTokens
    <3>2. local'.request = local.request
      BY <1>2, <1>7 DEF CloseSwap, LocalType
    <3>3. balance[Asset] \in Nat /\ balance'[Asset] \in Nat /\ Threshold[Asset] \in Nat /\ local.request \in Nat
      BY <1>2, <2>3, SwapKeepsAmounts, TwoTokens, OneIsPositive DEF AmountsAreNatural, Amounts, LocalType
    <3>4. Reached'
      BY <3>1, <3>2, <3>3 DEF Reached
    <3>5. pc' = "closed"
      BY <1>7, <2>3, <3>4 DEF CloseSwap, Goto
    <3>. QED BY <3>5 DEF Loop
  <2>6. balance[u] \in Nat
    BY <1>2 DEF AmountsAreNatural, Amounts
  <2>7. RoundsLeft' = RoundsLeft /\ LeftToSell' < LeftToSell
    <3>1. LeftToSell = balance[u] /\ LeftToSell' = balance'[u]
      BY <1>4, <1>5, <2>4, <2>5
    <3>. QED BY <1>4, <1>5, <2>3, <2>4, <2>6, <3>1
  <2>. QED BY <1>1, <2>7 DEF Lower, Measure
<1>8. CASE CloseRepay
  <2>1. pc = "closeRepay" /\ local.plan.repay \in Tokens
    BY <1>8 DEF CloseRepay, IInv, Ready
  <2>2. PICK b \in Tokens : b = local.plan.repay
    BY <2>1
  <2> DEFINE h == balance[b]
             r == Repayment(b, h)
  <2>3. h \in Nat
    BY <1>2 DEF AmountsAreNatural, Amounts
  <2>4. ~Revert
    BY DEF Revert, Done, Loop
  <2>5. Repay(b, r) /\ pc' = "closeCheck"
    BY <1>8, <2>2, <2>4 DEF CloseRepay, Goto
  <2>6. local'.seen = local.seen
    BY <1>2, <1>8, <2>4 DEF CloseRepay, LocalType
  <2> HIDE DEF h
  <2>7. Fits(b, h, r)
    BY <1>2, <2>3, RepaymentFits
  <2>8. r.paid = 0 => r.freed = 0
    BY <1>2, <2>3, NoRepayment
  <2> HIDE DEF r
  <2>9. RoundsLeft' = RoundsLeft - r.paid /\ RoundsLeft \in Nat
    <3>1. /\ OwedInAll' = OwedInAll - r.paid
          /\ OwedInAll \in Nat
      BY <1>2, <2>3, <2>5, <2>7, RepayOfTheSum
    <3>. QED BY <1>4, <3>1
  <2>10. r.paid \in Nat
    BY <2>7 DEF Fits
  <2>11. CASE r.paid # 0
    <3>1. RoundsLeft' < RoundsLeft
      BY <2>9, <2>10, <2>11
    <3>. QED BY <1>1, <3>1 DEF Lower, Measure
  <2>12. CASE r.paid = 0
    <3>1. debt' = debt /\ balance' = balance
      BY <1>2, <2>5, <2>8, <2>12, RepayOfNothing
    <3>2. RoundsLeft' = RoundsLeft /\ LeftToSell' = LeftToSell /\ OnceMore' = OnceMore
      BY <1>4, <1>5, <2>6, <3>1
    <3>3. PlaceInLoop' < PlaceInLoop
      BY <2>1, <2>5 DEF PlaceInLoop
    <3>. QED BY <1>1, <3>2, <3>3 DEF Lower, Measure
  <2>. QED BY <2>11, <2>12
<1>9. CASE CloseCheck
  <2>1. /\ balance' = balance /\ debt' = debt /\ local' = [local EXCEPT !.seen = balance]
        /\ pc' = IF balance = local.seen THEN "closed" ELSE "closing"
    BY <1>9 DEF CloseCheck, Goto, amounts
  <2>2. balance # local.seen /\ local'.seen = balance'
    BY <1>2, <2>1 DEF Loop, LocalType
  <2>3. RoundsLeft' = RoundsLeft /\ LeftToSell' = LeftToSell /\ OnceMore' < OnceMore
    BY <1>4, <1>5, <2>1, <2>2
  <2>. QED BY <1>1, <2>3 DEF Lower, Measure
<1>. QED BY <1>6, <1>7, <1>8, <1>9

\* The second repayments: one that pays nothing after the first is the last one.
LEMMA SecondRepayFalls ==
  ASSUME IInv, Counted, SecondRepay, pc' = "secondRepay"
  PROVE  Counted' /\ (WithinLimit => Lower(Measure', Measure))
<1>1. pc = "secondRepay" /\ local.plan.repay \in Tokens /\ AmountsAreNatural /\ local \in LocalType
  BY DEF SecondRepay, IInv, TypeOK, Ready
<1>2. PICK b \in Tokens : b = local.plan.repay
  BY <1>1
<1> DEFINE d == debt[b].debt
           n == local.toRepay
           r == Repayment(b, n)
           missing == Sub0(n, r.paid)
           owed == WithGap(d - r.paid)
<1>3. n \in Nat /\ d \in Nat
  BY <1>1 DEF LocalType, AmountsAreNatural, DebtTable
<1>4. /\ Repay(b, r)
      /\ local.owedBefore = NoLimit \/ owed < local.owedBefore
      /\ local' = [local EXCEPT !.toRepay = missing, !.owedBefore = owed]
  BY <1>2 DEF SecondRepay, Goto
<1> HIDE DEF n, missing
<1>5. Fits(b, n, r)
  BY <1>1, <1>3, RepaymentFits
<1>6. r.paid = 0 => r.freed = 0
  BY <1>1, <1>3, NoRepayment
<1> HIDE DEF r
<1>7. r.paid \in Nat /\ r.paid <= d
  BY <1>5 DEF Fits
<1>8. debt'[b].debt = d - r.paid /\ d - r.paid \in Nat
  BY <1>1, <1>3, <1>4, <1>5, <1>7, RepayKeepsAmounts
<1>9. local'.owedBefore = owed /\ local'.plan.repay = b
  BY <1>1, <1>2, <1>4 DEF LocalType
<1>10. Counted'
  <2>1. Owed(b)'.debt = owed
    BY <1>8 DEF Owed
  <2>2. Owed(local.plan.repay)'.debt = owed
    BY <1>8, <1>9 DEF Owed
  <2>. QED BY <1>9, <2>2 DEF Counted
<1>11. Phase(pc) = 4 /\ Phase(pc') = 4
  BY <1>1 DEF Phase, Loop
<1>12. /\ RoundsLeft = OwedInAll /\ RoundsLeft' = OwedInAll'
       /\ LeftToSell = 0 /\ LeftToSell' = 0
       /\ OnceMore = (IF local.owedBefore = NoLimit THEN 1 ELSE 0) /\ OnceMore' = (IF local'.owedBefore = NoLimit THEN 1 ELSE 0)
  <2>1. RoundsLeft = OwedInAll /\ RoundsLeft' = OwedInAll'
    BY <1>1 DEF RoundsLeft, Loop
  <2>2. LeftToSell = 0 /\ LeftToSell' = 0
    BY <1>1 DEF LeftToSell, Loop
  <2>3. OnceMore = (IF local.owedBefore = NoLimit THEN 1 ELSE 0) /\ OnceMore' = (IF local'.owedBefore = NoLimit THEN 1 ELSE 0)
    BY <1>1 DEF OnceMore, Loop
  <2>. QED BY <2>1, <2>2, <2>3
<1>13. /\ OwedInAll' = OwedInAll - r.paid
       /\ OwedInAll \in Nat
  BY <1>1, <1>3, <1>4, <1>5, RepayOfTheSum
<1>14. CASE r.paid # 0
  <2>1. RoundsLeft' < RoundsLeft
    BY <1>7, <1>12, <1>13, <1>14
  <2>. QED BY <1>10, <1>11, <2>1 DEF Lower, Measure
<1>15. CASE r.paid = 0 /\ WithinLimit
  <2>1. RoundsLeft' = RoundsLeft
    BY <1>12, <1>13, <1>15
  <2>2. owed = WithGap(d) /\ owed \in Nat /\ owed < NoLimit
    <3>1. d - r.paid = d
      BY <1>3, <1>15
    <3>2. WithGap(d) \in Nat
      BY <1>3, GapAdds
    <3>3. WithGap(d) < NoLimit
      BY <1>15 DEF WithinLimit, Owed
    <3>. QED BY <3>1, <3>2, <3>3
  <2>3. local.owedBefore \in {NoLimit, WithGap(d)}
    BY <1>1, <1>2 DEF Counted, Owed
  <2>4. local.owedBefore = NoLimit /\ local'.owedBefore # NoLimit
    BY <1>4, <1>9, <2>2, <2>3, OneIsPositive
  <2>5. OnceMore' < OnceMore
    BY <1>12, <2>4
  <2>. QED BY <1>10, <1>11, <1>12, <2>1, <2>5 DEF Lower, Measure
<1>. QED BY <1>10, <1>14, <1>15

\* The repayments of a rebalance are counted.
LEMMA RebalanceFalls ==
  ASSUME IInv, Counted, RebalanceAssets, pc' = "rebalance"
  PROVE  Lower(Measure', Measure) /\ Counted'
<1>1. pc = "rebalance" /\ local \in LocalType /\ local.depth \in Nat
  BY DEF RebalanceAssets, IInv, TypeOK, Counted
<1>2. \A c : ~OpenWithAddition(c)
  BY AdditionLeads
<1>3. ~Revert
  BY DEF Revert, Done
<1>4. ~Goto("enter")
  BY DEF Goto
<1>5. local.depth # 0 /\ local' = [local EXCEPT !.depth = @ - 1]
  BY <1>2, <1>3, <1>4 DEF RebalanceAssets
<1>6. local'.depth = local.depth - 1
  BY <1>1, <1>5 DEF LocalType
<1>7. Counted'
  BY <1>1, <1>5, <1>6 DEF Counted
<1>8. Phase(pc) = Phase(pc') /\ RoundsLeft = local.depth /\ RoundsLeft' = local'.depth
  BY <1>1 DEF RoundsLeft
<1>9. RoundsLeft' < RoundsLeft
  BY <1>1, <1>6, <1>8
<1>. QED BY <1>7, <1>8, <1>9 DEF Lower, Measure

\* Where a call comes to one of the counted loops
LEMMA CountedSteps ==
  ASSUME Next, IInv
  PROVE  /\ pc' = "secondRepay" => Repay2 \/ SecondRepay
         /\ pc' = "rebalance" => RebalanceAssets \/ \E p \in Props, addition \in Additions : StartRebalance(p, addition)
<1>1. CASE pc \in {"idle", "ready"}
  <2>1. CASE MarketMoves
    BY <2>1 DEF MarketMoves
  <2>2. CASE Deposit \/ Withdraw \/ WithdrawStep \/ Borrow \/ Enter
    BY <1>1, <2>2 DEF Deposit, Withdraw, WithdrawStep, StartDeposit, StartWithdraw, StartStep, Begin,
       RepayBeforeDeposit, BorrowForDeposit, ClosePlan, CloseSwap, CloseRepay, CloseCheck, HandOver, StepPlan, Swap1,
       Repay1, Swap2, Repay2, SecondRepay, Reborrow, FixLeftovers, Borrow, Enter
  <2>3. CASE Rebalance
    BY <1>1, <2>3 DEF Rebalance, RebalanceAssets, StartRebalance
  <2>. QED BY <2>1, <2>2, <2>3 DEF Next, Work
<1>2. CASE pc \notin {"idle", "ready"}
  <2>1. pc \in Places /\ Leads
    BY <1>2, StepLeads DEF IInv, TypeOK
  <2>2. pc' = "secondRepay" => pc \in {"repay2", "secondRepay"}
    BY <1>2, <2>1 DEF Leads, Places
  <2>3. pc' = "rebalance" => pc = "rebalance"
    BY <1>2, <2>1 DEF Leads, Places
  <2>4. pc \in {"repay2", "secondRepay"} => Repay2 \/ SecondRepay
    BY DEF Next, Work, Deposit, Withdraw, WithdrawStep, Rebalance, MarketMoves, StartDeposit, StartWithdraw, StartStep,
       StartRebalance, Begin, RepayBeforeDeposit, BorrowForDeposit, ClosePlan, CloseSwap, CloseRepay, CloseCheck,
       HandOver, StepPlan, Swap1, Repay1, Swap2, StepSwap, Reborrow, FixLeftovers, RebalanceAssets, Borrow, Enter
  <2>5. pc = "rebalance" => RebalanceAssets
    BY DEF Next, Work, Deposit, Withdraw, WithdrawStep, Rebalance, MarketMoves, StartDeposit, StartWithdraw, StartStep,
       StartRebalance, Begin, RepayBeforeDeposit, BorrowForDeposit, ClosePlan, CloseSwap, CloseRepay, CloseCheck,
       HandOver, StepPlan, Swap1, Repay1, Swap2, Repay2, SecondRepay, Reborrow, FixLeftovers, Borrow, Enter
  <2>. QED BY <2>2, <2>3, <2>4, <2>5
<1>. QED BY <1>1, <1>2

LEMMA NextIsCounted ==
  ASSUME IInv, Counted, [Next]_vars
  PROVE  Counted'
<1>1. CASE pc' \notin {"secondRepay", "rebalance"}
  BY <1>1 DEF Counted
<1>2. CASE Next /\ pc' = "secondRepay"
  <2>1. CASE SecondRepay
    BY <1>2, <2>1, SecondRepayFalls
  <2>2. CASE Repay2
    <3>1. local' = [local EXCEPT !.toRepay = AmountToRepay2(local.plan.repay), !.owedBefore = NoLimit]
      <4>1. ~BorrowToProportions(local.plan.repay, TRUE) /\ ~Goto("enter")
        BY <1>2, ToProportionsLeads DEF Goto
      <4>. QED BY <2>2, <4>1 DEF Repay2
    <3>2. local'.owedBefore = NoLimit
      BY <3>1 DEF IInv, TypeOK, LocalType
    <3>. QED BY <1>2, <3>2 DEF Counted
  <2>. QED BY <1>2, <2>1, <2>2, CountedSteps
<1>3. CASE Next /\ pc' = "rebalance"
  <2>1. CASE RebalanceAssets
    BY <1>3, <2>1, RebalanceFalls
  <2>2. CASE \E p \in Props, addition \in Additions : StartRebalance(p, addition)
    <3>1. local'.depth = MaxDeepRecursion
      BY <2>2 DEF StartRebalance, Blank
    <3>. QED BY <1>3, <3>1, PositionAssumption DEF Counted, PositionAssumption
  <2>. QED BY <1>3, <2>1, <2>2, CountedSteps
<1>4. CASE UNCHANGED vars
  <2>1. pc' = pc /\ local' = local /\ debt' = debt
    BY <1>4 DEF vars, amounts, market
  <2>2. Owed(local.plan.repay)' = Owed(local.plan.repay)
    BY <2>1 DEF Owed
  <2>. QED BY <2>1, <2>2 DEF Counted
<1>. QED BY <1>1, <1>2, <1>3, <1>4

\* Every step of a call lowers its measure.
LEMMA StepFalls ==
  ASSUME IInv, Closing, Counted, Next, pc \notin {"idle", "ready"}, WithinLimit
  PROVE  Lower(Measure', Measure)
<1>1. CASE pc \in Loop /\ pc' \in Loop
  BY <1>1, LoopFalls, LoopSteps
<1>2. CASE pc = "secondRepay" /\ pc' = pc
  <2>1. ~Repay2
    BY <1>2 DEF Repay2
  <2>. QED BY <1>2, <2>1, CountedSteps, SecondRepayFalls
<1>3. CASE pc = "rebalance" /\ pc' = pc
  <2>1. \A p \in Props, addition \in Additions : ~StartRebalance(p, addition)
    BY <1>3 DEF StartRebalance
  <2>. QED BY <1>3, <2>1, CountedSteps, RebalanceFalls
<1>. QED BY <1>1, <1>2, <1>3, StepLeads, PhaseFalls DEF IInv, TypeOK

LEMMA MeasureIsNatural ==
  ASSUME IInv, Counted
  PROVE  Measure \in Measures
<1>1. Phase(pc) \in Nat
  BY DEF Phase
<1>2. RoundsLeft \in Nat
  <2>1. OwedInAll \in Nat
    BY TwoTokens DEF OwedInAll, IInv, TypeOK, AmountsAreNatural, DebtTable
  <2>. QED BY <2>1 DEF RoundsLeft, Counted
<1>3. LeftToSell \in Nat
  <2>1. ToSell \in Tokens
    BY TwoTokens DEF ToSell, OwedFirst
  <2>. QED BY <2>1 DEF LeftToSell, IInv, TypeOK, AmountsAreNatural, Amounts
<1>4. OnceMore \in Nat /\ PlaceInLoop \in Nat
  BY DEF OnceMore, PlaceInLoop
<1>. QED BY <1>1, <1>2, <1>3, <1>4 DEF Measure, Measures

\* THEOREM.  No call goes round for ever, whatever the prices, swaps, loans and amounts:
\* each of its steps lowers a measure of natural numbers in their lexicographic order -
\* the phase of the call; the debts left to repay, or the recursions left to a rebalance;
\* the tokens left to sell.  So the loop that closes positions ends though it has no bound
\* on its iterations, and so do the second repayments of a withdraw step
\* (ConverterStrategyBaseLib _closePositionsToGetAmount, PairBasedStrategyLib
\* _secondRepay, BorrowLib.rebalanceAssets).
THEOREM CallsMakeProgress == Spec => [](Measure \in Measures) /\ MakesProgress
<1>1. Init => Closing /\ Counted
  BY DEF Init, Closing, Counted, Loop
<1>2. IInv /\ Closing /\ Counted /\ [Next]_vars => Closing' /\ Counted'
  BY NextIsClosing, NextIsCounted
<1>3. IInv /\ Counted => Measure \in Measures
  BY MeasureIsNatural
<1>4. IInv /\ Closing /\ Counted /\ [Next]_vars =>
        [pc \notin {"idle", "ready"} /\ WithinLimit => Lower(Measure', Measure)]_vars
  BY StepFalls
<1>. QED BY <1>1, <1>2, <1>3, <1>4, IInvHolds, PTL DEF Spec, MakesProgress

-----------------------------------------------------------------------------
(* What a withdrawal leaves                                                *)

\* The withdrawal's target is 1% over what was missing, its request 5% over that.
RequestOf(asked, there) ==
  IF asked = NoLimit THEN NoLimit ELSE MulDiv(there + MulDiv(asked - there, 101, 100), 105, 100)
Requested ==
  pc \in Loop \union {"closed"} =>
    /\ local.asked > saved.balance[Asset]
    /\ local.request = RequestOf(local.asked, saved.balance[Asset])

\* Each division rounds down; what is asked for on top is there all the same.
LEMMA GapIsLeft ==
  ASSUME NEW there \in Nat, NEW asked \in Nat, asked >= there + 100, asked # NoLimit,
         NEW request, request = RequestOf(asked, there),
         NEW has \in Nat, NEW threshold \in Nat, has + threshold > request,
         request - MulDiv(request, 100, 105) >= threshold
  PROVE  has > asked
<1> DEFINE x == asked - there
           a == there + (x * 101) \div 100
           r == (a * 105) \div 100
           back == (r * 100) \div 105
<1>1. x \in Nat /\ x >= 100
  OBVIOUS
<1>2. request = r /\ MulDiv(request, 100, 105) = back
  BY DEF RequestOf, MulDiv
<1>3. asked = there + x
  BY <1>1
<1> HIDE DEF x
<1>4. a \in Nat /\ a > asked
  BY <1>1, <1>3
<1> HIDE DEF a
<1>5. r \in Nat /\ 100 * r >= 105 * a - 99
  BY <1>4
<1> HIDE DEF r
<1>6. back \in Nat /\ 105 * back + 105 > 100 * r
  BY <1>5
<1>7. has > back
  <2> HIDE DEF back
  <2>. QED BY <1>2, <1>5, <1>6
<1> HIDE DEF back
<1>8. has >= a
  BY <1>4, <1>5, <1>6, <1>7
<1>. QED BY <1>4, <1>8

LEMMA NextIsRequested ==
  ASSUME IInv, Requested, [Next]_vars
  PROVE  Requested'
<1>1. CASE pc' \notin Loop \union {"closed"}
  BY <1>1 DEF Requested
<1>2. ASSUME pc \in Loop, local'.asked = local.asked, local'.request = local.request, saved' = saved
      PROVE  Requested'
  BY <1>2 DEF Requested
<1>3. ASSUME NEW asked \in Withdrawals, StartWithdraw(asked)
      PROVE  Requested'
  <2> DEFINE target == IF asked = NoLimit THEN NoLimit ELSE MulDiv(asked - balance[Asset], 101, 100)
             ratio == LiquidityToExit(target)
             after == [t \in Tokens |-> balance[t] + [u \in Tokens |-> MulDiv(pool[u], ratio, One)][t]]
             first == after[Asset]
             request == IF asked = NoLimit THEN NoLimit ELSE MulDiv(balance[Asset] + target, 105, 100)
  <2>1. /\ asked > balance[Asset]
        /\ Begin("closing", [Blank EXCEPT !.asked = asked, !.expected = first, !.seen = after, !.request = request])
    BY <1>3 DEF StartWithdraw
  <2>2. request = RequestOf(asked, balance[Asset])
    BY DEF RequestOf
  <2> HIDE DEF after, first, request
  <2>3. local'.asked = asked /\ local'.request = request /\ saved'.balance = balance
    BY <2>1 DEF Begin, Blank
  <2>. QED BY <2>1, <2>2, <2>3 DEF Requested
<1>4. CASE pc \in {"idle", "ready"} /\ Next
  BY <1>1, <1>3, <1>4, StartLeads DEF Loop
<1>5. CASE pc \notin {"idle", "ready"} /\ Next /\ pc' \in Loop \union {"closed"}
  <2>1. pc \in Loop
    BY <1>5, StepLeads DEF Leads, Loop, IInv, TypeOK, Places
  <2>2. ~Revert
    BY <1>5 DEF Revert, Done, Loop
  <2>3. local \in LocalType
    BY DEF IInv, TypeOK
  <2>4. local'.asked = local.asked /\ local'.request = local.request /\ saved' = saved
    <3>1. CASE ClosePlan
      BY <2>3, <3>1 DEF ClosePlan, Goto, LocalType
    <3>2. CASE CloseSwap
      BY <2>3, <3>2 DEF CloseSwap, Goto, LocalType
    <3>3. CASE CloseRepay
      BY <2>2, <2>3, <3>3 DEF CloseRepay, Goto, LocalType
    <3>4. CASE CloseCheck
      BY <2>3, <3>4 DEF CloseCheck, Goto, LocalType
    <3>. QED BY <1>5, <2>1, <3>1, <3>2, <3>3, <3>4, LoopSteps
  <2>. QED BY <1>2, <2>1, <2>4
<1>6. CASE UNCHANGED vars
  BY <1>6 DEF vars, amounts, market, Requested
<1>. QED BY <1>1, <1>4, <1>5, <1>6

\* Worth asking 5% more for, by less than which a request is taken for reached; and
\* missing more than its hundredth rounds to nothing.
GapCounts == local.request = NoLimit \/ (GapIsWorth /\ local.asked >= saved.balance[Asset] + 100)
\* No balance comes near the value that stands for no limit.
NoLimitIsFar == local.request = NoLimit => ~Reached

MeansUnlessStuck ==
  [][pc = "closed" /\ GapCounts /\ NoLimitIsFar => CanPay' \/ Stuck \/ SaleCancelled]_vars

LEMMA ClosedStep ==
  ASSUME pc = "closed", Next
  PROVE  HandOver
  BY DEF Next, Work, Deposit, Withdraw, WithdrawStep, Rebalance, MarketMoves, StartDeposit, StartWithdraw, StartStep,
     StartRebalance, Begin, RepayBeforeDeposit, BorrowForDeposit, ClosePlan, CloseSwap, CloseRepay, CloseCheck,
     StepPlan, Swap1, Repay1, Swap2, StepSwap, Repay2, SecondRepay, Reborrow, FixLeftovers, RebalanceAssets, Borrow, Enter

\* Something to pay with is in the underlying.
LEMMA UnderlyingPays ==
  ASSUME AmountsAreNatural', balance'[Asset] > 0
  PROVE  CanPay'
<1>1. balance'[Asset] \in Nat /\ pool'[Asset] \in Nat
  BY TwoTokens DEF AmountsAreNatural, Amounts
<1>2. balance'[Asset] + pool'[Asset] > 0
  BY <1>1
<1>. QED BY <1>2, TwoTokens DEF CanPay

LEMMA HandOverLeavesMeans ==
  ASSUME IInv, IInv', Closing, Requested, HandOver, GapCounts, NoLimitIsFar
  PROVE  CanPay' \/ Stuck \/ SaleCancelled
<1>1. pc = "closed" /\ local \in LocalType /\ saved \in SavedType /\ AmountsAreNatural /\ AmountsAreNatural'
  BY DEF HandOver, IInv, TypeOK
<1>2. Reached \/ NothingOwed \/ Stuck \/ SaleCancelled
  BY <1>1 DEF Closing
<1>3. /\ saved.balance[Asset] \in Nat /\ local.expected \in Nat /\ balance[Asset] \in Nat /\ local.asked \in Nat
      /\ Threshold[Asset] \in Nat
  BY <1>1, TwoTokens, OneIsPositive DEF SavedType, LocalType, AmountsAreNatural, Amounts
<1>4. CASE local.expected < saved.balance[Asset]
  <2>1. balance'[Asset] = saved.balance[Asset]
    BY <1>4 DEF HandOver, Revert
  <2>2. balance'[Asset] > 0
    BY <1>3, <1>4, <2>1
  <2>. QED BY <1>1, <2>2, UnderlyingPays
<1>5. CASE ~(local.expected < saved.balance[Asset]) /\ Reached
  <2>1. balance' = [balance EXCEPT ![Asset] = Sub0(@, local.asked)]
    BY <1>5 DEF HandOver
  <2>2. balance'[Asset] = Sub0(balance[Asset], local.asked)
    BY <1>1, <2>1, TwoTokens DEF AmountsAreNatural, Amounts
  <2>3. local.request # NoLimit
    BY <1>5 DEF NoLimitIsFar
  <2>4. local.request = RequestOf(local.asked, saved.balance[Asset]) /\ local.asked # NoLimit
    BY <1>1, <2>3 DEF Requested, RequestOf
  <2>5. /\ local.request - MulDiv(local.request, 100, 105) >= Threshold[Asset]
        /\ local.asked >= saved.balance[Asset] + 100
        /\ balance[Asset] + Threshold[Asset] > local.request
    BY <1>5, <2>3 DEF GapCounts, GapIsWorth, Reached
  <2>6. balance[Asset] > local.asked
    BY <1>3, <2>4, <2>5, GapIsLeft
  <2>7. balance'[Asset] > 0
    BY <1>3, <2>2, <2>6 DEF Sub0
  <2>. QED BY <1>1, <2>7, UnderlyingPays
<1>6. CASE ~(local.expected < saved.balance[Asset]) /\ NothingOwed
  <2>1. debt' = debt
    BY <1>6 DEF HandOver
  <2>2. ASSUME NEW t \in Tokens
        PROVE  debt'[t].debt < DustAmount
    <3> DEFINE d == debt[t].debt
    <3>1. d \in Nat
      BY <1>1 DEF AmountsAreNatural, DebtTable
    <3>2. WithGap(d) < DustAmount
      BY <1>6 DEF NothingOwed, Owed
    <3> HIDE DEF d
    <3>3. d < DustAmount
      BY <3>1, <3>2, GapAdds, OneIsPositive
    <3>. QED BY <2>1, <3>3 DEF d
  <2>. QED BY <2>2 DEF CanPay
<1>. QED BY <1>2, <1>4, <1>5, <1>6

\* THEOREM.  A withdrawal whose gap counts ends with all debts closed or with something
\* left to pay them off - unless the loop was stuck, or stopped at a repayment that freed
\* exactly what was sold for it, whatever the prices, swaps, loans and amounts.  So much of
\* the promise of _makeRequestedAmount (ConverterStrategyBase, "Ensures that either all
\* debts are closed, or a non-zero amount remains") the code keeps.
THEOREM WithdrawalLeavesMeansUnlessStuck == Spec => MeansUnlessStuck
<1>1. Init => Closing /\ Requested
  BY DEF Init, Closing, Requested, Loop
<1>2. IInv /\ Closing /\ Requested /\ [Next]_vars => Closing' /\ Requested'
  BY NextIsClosing, NextIsRequested
<1>3. IInv /\ IInv' /\ Closing /\ Requested /\ [Next]_vars =>
        [pc = "closed" /\ GapCounts /\ NoLimitIsFar => CanPay' \/ Stuck \/ SaleCancelled]_vars
  BY ClosedStep, HandOverLeavesMeans
<1>. QED BY <1>1, <1>2, <1>3, IInvHolds, PTL DEF Spec, MeansUnlessStuck
=============================================================================
