--------------------------- MODULE IterationPlan ----------------------------
(***************************************************************************)
(* IterationPlanLib: which swap and which repayment the next iteration of  *)
(* a withdrawal makes, from the balances, the debts and the prices.        *)
(* Proportions and ratios are out of One, as the code's are out of 1e18;   *)
(* all tokens have the same decimals.                                      *)
(***************************************************************************)
EXTENDS Integers

CONSTANTS
  One,                \* 1e18 of the code
  Threshold,          \* liquidationThresholds, per token
  DustAmount,         \* DUST_AMOUNT_TOKENS
  NoLimit             \* type(uint).max as a requested balance: above any amount

Asset == "asset"      \* the underlying
Token == "token"      \* the other token of the pair
Tokens == {Asset, Token}
Other(t) == IF t = Asset THEN Token ELSE Asset
None == "none"

ASSUME PlanAssumption ==
  /\ One \in Nat \ {0} /\ DustAmount \in Nat \ {0} /\ NoLimit \in Nat
  /\ Threshold \in [Tokens -> Nat]

PlanSwapRepay == "PLAN_SWAP_REPAY"
PlanRepaySwapRepay == "PLAN_REPAY_SWAP_REPAY"
PlanSwapOnly == "PLAN_SWAP_ONLY"

Least(a, b) == IF a < b THEN a ELSE b
Sub0(a, b) == IF a > b THEN a - b ELSE 0
\* a * b / c, rounded down after the product.
MulDiv(a, b, c) == (a * b) \div c
\* An amount of token t in terms of token u.
Worth(amount, t, u, prices) == MulDiv(amount, prices[t], prices[u])

Plan(swap, amount, repay) == [swap |-> swap, amount |-> amount, repay |-> repay]

\* Shares of both tokens that have the given proportion of the not-underlying.
TargetAmounts(prices, balance, prop) ==
  LET cost == balance[Asset] * prices[Asset] + balance[Token] * prices[Token]
      tokens == MulDiv(cost, prop, One)
  IN  [t \in Tokens |-> IF t = Token THEN tokens \div prices[Token] ELSE (cost - tokens) \div prices[Asset]]

\* The token above its target is sold down to it, when that is worth a swap.
PlanForLeftovers(prices, balance, prop) ==
  LET target == TargetAmounts(prices, balance, prop)
      sold == IF balance[Asset] < target[Asset] THEN Token ELSE Asset
      excess == balance[sold] - target[sold]
  IN  IF excess > Threshold[sold] THEN Plan(sold, excess, None) ELSE Plan(None, 0, None)

\* What of collateral c must be sold so that repaying with the proceeds frees
\* the requested amount, and never much more than pays the debt: 1% is added.
AmountToSell(requested, debt, c, prices, balanceBorrow) ==
  LET b == Other(c)
      paid == Least(balanceBorrow, debt.debt)
      collateral == debt.collateral - MulDiv(debt.collateral, paid, debt.debt)
      rest == debt.debt - paid
      alpha == MulDiv(prices[c], One, prices[b])
      health == MulDiv(alpha, collateral, rest)
      amount == MulDiv(Least(requested, collateral), One, health - One)
  IN  IF rest = 0 \/ health <= One THEN 0 ELSE MulDiv(101, Least(amount, MulDiv(rest, One, alpha)), 100)

\* Mutant: a sale too small for a swap is left out
PlanForSellAndRepayExact(requested, debt, c, prices, balance) ==
  LET toSell == Least(AmountToSell(requested, debt, c, prices, balance[Other(c)]), balance[c])
  IN  IF toSell > Threshold[c] THEN Plan(c, toSell, Other(c)) ELSE Plan(None, 0, Other(c))

\* The repayment is always planned; a sale too small for a swap is made a
\* little larger instead of left out.
PlanForSellAndRepay(requested, debt, c, prices, balance) ==
  LET b == Other(c)
      toSell == Least(AmountToSell(requested, debt, c, prices, balance[b]), balance[c])
      amount == IF toSell > Threshold[c] THEN toSell ELSE Threshold[c] + 1
  IN  IF toSell # 0 /\ balance[c] >= amount THEN Plan(c, amount, b) ELSE Plan(None, 0, b)

\* What a unit of the debt has in collateral; and when the estimate divides by zero.
PerDebt(prices, a, debt) == (MulDiv(One * debt.collateral, prices[a], prices[Other(a)])) \div debt.debt
EstimateReverts(prices, a, propB, debt) == propB = One /\ PerDebt(prices, a, debt) = 0

\* Repay b with all there is, sell collateral a and repay again.  If the debt
\* is too small to take all of a, a part of a is sold - or, when b is already
\* more than its share, a part of b.
EstimateSwapAmount(prices, balance, a, propB, debt, collateral, repaid) ==
  LET b == Other(a)
      x == One - propB
      y == propB
      costA == (balance[a] + collateral) * prices[a]
      costB == (balance[b] - repaid) * prices[b]
      costDebt == (debt.debt - repaid) * prices[b]
      alpha == PerDebt(prices, a, debt)
      secondRepay == MulDiv(x, costB + costA, MulDiv(y, alpha, One) + x)
      swapB == secondRepay > costDebt /\ y * costA < x * costB
      cost == IF secondRepay <= costDebt THEN costA
              ELSE (IF swapB THEN x * costB - y * costA ELSE y * costA - x * costB) \div (x + y)
  IN  [swapB |-> swapB, amount |-> cost \div prices[IF swapB THEN b ELSE a]]

PlanRepaySwapRepayOf(debt, a, propB, prices, balance, toReduce) ==
  LET b == Other(a)
      available == Least(balance[b], debt.debt)
      repaid == IF available >= DustAmount THEN available ELSE 0
      \* quoteRepay: the debt is taken with the gap, the collateral is that of the exact debt
      collateral == MulDiv(debt.collateral, Least(repaid, debt.exact), debt.exact)
      estimate == EstimateSwapAmount(prices, balance, a, propB, debt, collateral, repaid)
      required == Worth(toReduce, b, a, prices)
      raised == IF estimate.amount > required THEN estimate.amount ELSE required
  IN  IF estimate.swapB THEN Plan(b, estimate.amount, b)
      ELSE Plan(a, IF toReduce = 0 THEN estimate.amount ELSE Least(raised, balance[a] + collateral), b)

(***************************************************************************)
(* _buildIterationPlan.  owed[t] is the debt in token t, with its          *)
(* collateral in the other token: owed[Asset] is the reverse debt.  A      *)
(* reverse debt is repaid before a direct one; leftovers are swapped when  *)
(* nothing is owed or the requested balance is there.                      *)
(***************************************************************************)
OwedFirst(owed) == IF owed[Asset].debt >= DustAmount THEN Asset ELSE Token
PropOf(b, prop) == IF b = Token THEN prop ELSE One - prop

BuildIterationPlan(kind, requestedBalance, prop, toReduce, prices, balance, owed) ==
  LET requested == IF requestedBalance = NoLimit THEN NoLimit ELSE Sub0(requestedBalance, balance[Asset])
      repays == kind # PlanSwapOnly /\ requested >= Threshold[Asset]
      b == OwedFirst(owed)
      inCollateral == IF b = Token \/ requested = NoLimit THEN requested ELSE Worth(requested, Asset, Token, prices)
  IN  IF ~repays \/ owed[b].debt < DustAmount THEN PlanForLeftovers(prices, balance, prop)
      ELSE IF kind = PlanRepaySwapRepay
        THEN PlanRepaySwapRepayOf(owed[b], Other(b), PropOf(b, prop), prices, balance, toReduce)
        ELSE PlanForSellAndRepay(inCollateral, owed[b], Other(b), prices, balance)

PlanReverts(kind, prop, prices, owed) ==
  LET b == OwedFirst(owed)
  IN  /\ kind = PlanRepaySwapRepay /\ owed[b].debt >= DustAmount
      /\ EstimateReverts(prices, Other(b), PropOf(b, prop), owed[b])
=============================================================================
