------------------------ MODULE ConverterAccounting -------------------------
(***************************************************************************)
(* ConverterStrategyBase: what the strategy reports to its splitter        *)
(* (_csbs.investedAssets and the balance of underlying), the insurance,    *)
(* and the debt to it, under deposits, withdrawals, hard work, rebalances, *)
(* calls of TetuConverter and a moving market.                             *)
(*                                                                         *)
(* All amounts are worth in underlying.  What _calcInvestedAssets computes *)
(* is the worth of the tokens on balance plus locked: the worth of the     *)
(* pool position and of the collaterals, less the debts.  What the pool,   *)
(* the swaps and the converter do with amounts is a choice: value moves    *)
(* between balance, tokens and locked, and at most MaxLoss is lost or      *)
(* MaxGain won on the way.  A new price of a token is a change of locked.  *)
(* A call that reverts is a step that cannot be taken.                     *)
(***************************************************************************)
EXTENDS Integers

CONSTANTS
  Denominator,           \* DENOMINATOR, 100_000 in the code
  Gap,                   \* GAP_WITHDRAW
  Tolerance,             \* PRICE_CHANGE_PROFIT_TOLERANCE = HARDWORK_LOSS_TOLERANCE
  ReinvestPercent,       \* reinvestThresholdPercent
  LiquidationThreshold,  \* of underlying
  Requests,              \* amounts that the converter asks for
  MaxLoss, MaxGain,      \* lost or won by one series of swaps
  MaxReward,
  InitVault, InitInsurance,
  MaxTotal, MaxDebt      \* bounds of the model

ASSUME RatioAssumption ==
  /\ Denominator \in Nat \ {0} /\ Gap \in Nat
  /\ Tolerance \in 0..Denominator /\ ReinvestPercent \in 0..Denominator
  /\ LiquidationThreshold \in Nat \ {0}

ASSUME EnvironmentAssumption ==
  /\ Requests \subseteq Nat \ {0}
  /\ MaxLoss \in Nat /\ MaxGain \in Nat /\ MaxReward \in Nat
  /\ InitVault \in Nat /\ InitInsurance \in Nat
  /\ MaxTotal \in Nat /\ MaxDebt \in Nat

VARIABLES
  acc,       \* the accounts
  unsent,    \* what the last call's SendToInsurance event reports as unsent
  promise    \* result of the last call, if it was a requirePayAmountBack that sent nothing

vars == <<acc, unsent, promise>>

Assets == {"balance", "tokens"}      \* underlying and the other token, on balance

Accounts ==
  [balance : Nat, tokens : Nat, locked : Nat,
   invested : Nat,                   \* _csbs.investedAssets
   debtToInsurance : Int,            \* _csbs.debtToInsurance
   increase : Int,                   \* increase of the debts since the last checkpoint
   insurance : Nat,
   vault : Nat,                      \* underlying held by the vault and the splitter
   transit : Nat]                    \* paid to TetuConverter, not yet used by it

Real(a) == a.locked + a.tokens
Worth(a) == a.balance + Real(a)
Total(a) == Worth(a) + a.insurance + a.vault + a.transit

MinOf(x, y) == IF x < y THEN x ELSE y
MaxOf(x, y) == IF x < y THEN y ELSE x
Sub0(x, y) == IF x > y THEN x - y ELSE 0
DivInt(x, y) == IF x >= 0 THEN x \div y ELSE -((-x) \div y)    \* Solidity rounds toward zero

Capped(amount, total) == MinOf(amount, (Tolerance * total) \div Denominator)

\* Value moved by exits, entries, swaps, borrows and repays: the balances, the
\* tokens and the worth it may end with
Moved(a, balances, tokens, worths) ==
  {[a EXCEPT !.balance = x[1], !.tokens = x[2], !.locked = x[3] - x[1] - x[2]] :
     x \in {y \in balances \X tokens \X worths : y[1] + y[2] <= y[3]}}

\* Worth after losing at most loss and winning at most gain, of something
WorthWithin(a, loss, gain) ==
  Sub0(Worth(a), loss)..(Worth(a) + IF Worth(a) = 0 THEN 0 ELSE gain)

\* Leaving the pool, or closing a borrow: nothing on balance gets less
Released(a, loss) ==
  Moved(a, a.balance..Worth(a), a.tokens..Worth(a), WorthWithin(a, loss, 0))

(***************************************************************************)
(* Insurance                                                               *)
(***************************************************************************)
\* Mutant: what is on balance does not limit what is sent
SentAnyway(a, amount, total) == Capped(amount, total)

\* _sendToInsurance: what is sent of amount
Sent(a, amount, total) == Capped(MinOf(amount, a.balance), total)

SendToInsurance(a, amount, total) ==
  [a EXCEPT !.balance = @ - Sent(a, amount, total), !.insurance = @ + Sent(a, amount, total)]

\* coverPossibleStrategyLoss of the splitter: the insurance pays to the vault what it has
Covered(a, loss) == MinOf(loss, a.insurance)
CoverPossibleStrategyLoss(a, loss) ==
  [a EXCEPT !.insurance = @ - Covered(a, loss), !.vault = @ + Covered(a, loss)]

\* Mutant: the uncovered part of the loss is added to the debt too
CoverLossAddingUncovered(a, loss, inc) ==
  [CoverPossibleStrategyLoss(a, loss) EXCEPT !.debtToInsurance = @ + inc]

\* _coverLossAndCheckResults
CoverLossAndCheckResults(a, loss, inc) ==
  [CoverPossibleStrategyLoss(a, loss) EXCEPT
     !.debtToInsurance = @ + IF loss = 0 THEN 0 ELSE DivInt(inc * Covered(a, loss), loss)]

(***************************************************************************)
(* Invested assets                                                         *)
(***************************************************************************)
\* _updateInvestedAssets: the checkpoint's deltas are dropped
UpdateInvestedAssets(a) == [a EXCEPT !.invested = Real(a), !.increase = 0]

\* Result earned of fixPriceChanges
EarnedByPrices(a) == Sub0(Real(a), a.invested)

\* fixPriceChanges, _coverLossAfterPriceChanging
FixPriceChanges(a) ==
  LET fixed == UpdateInvestedAssets(a)
      lost == Sub0(a.invested, Real(a))
      toCover == Capped(lost, Worth(a))
  IN  IF EarnedByPrices(a) > 0 THEN [fixed EXCEPT !.debtToInsurance = @ + a.increase]
      ELSE IF lost # 0
           THEN CoverLossAndCheckResults(fixed, toCover, DivInt(a.increase * toCover, lost))
           ELSE fixed

\* Mutant: the cache is raised to the old total instead of being lowered to it
FixTooHighInvestedAssetsInverted(a, oldTotal) ==
  IF oldTotal > a.invested + a.balance THEN [a EXCEPT !.invested = oldTotal - a.balance] ELSE a

FixTooHighInvestedAssets(a, oldTotal) ==
  IF oldTotal < a.invested + a.balance /\ oldTotal > a.balance
  THEN [a EXCEPT !.invested = oldTotal - a.balance]
  ELSE a

(***************************************************************************)
(* Withdrawing and depositing.  A result has the accounts, the loss to be  *)
(* covered by the splitter, and the sent and unsent parts of the profit.   *)
(***************************************************************************)
Result(a, loss, sent, left) == [acc |-> a, loss |-> loss, sent |-> sent, unsent |-> left]

\* Mutant: only the profit made by prices goes to the insurance
IncomeOfPricesOnly(a, invested, balanceBefore, earned) ==
  LET sent == Sent(a, earned, invested + balanceBefore)
  IN  Result(SendToInsurance(a, earned, invested + balanceBefore),
             Sub0(Sub0(invested + balanceBefore, earned), a.invested + a.balance),
             sent, earned - sent)

\* calculateIncomeAfterWithdraw, a being the accounts after the withdraw
CalculateIncomeAfterWithdraw(a, invested, balanceBefore, earned) ==
  LET before == Sub0(invested + balanceBefore, earned)
      profit == Sub0(a.invested + a.balance, before)
      sent == Sent(a, profit, invested + balanceBefore)
  IN  Result(SendToInsurance(a, profit, invested + balanceBefore),
             Sub0(before, a.invested + a.balance), sent, profit - sent)

\* _makeRequestedAmount: the expected balance of the asset may not be less than
\* the balance; what the swaps lose may come out of it all the same
MakeRequestedAmount(a, asset) ==
  LET most == Worth(a) + MaxGain
      least == [x \in Assets |-> IF x = asset THEN Sub0(a[x], MaxLoss) ELSE 0]
  IN  Moved(a, least["balance"]..most, least["tokens"]..most, WorthWithin(a, MaxLoss, MaxGain))

\* _withdrawUniversal
WithdrawUniversal(a, amount, earned, invested) ==
  IF amount + earned # 0 /\ invested # 0
  THEN {CalculateIncomeAfterWithdraw(UpdateInvestedAssets(x), invested, a.balance, earned) :
          x \in MakeRequestedAmount(a, "balance")}
  ELSE {Result(a, 0, 0, 0)}

\* _beforeDeposit and _depositorEnter spend at most amount; entering never gains
Enter(a, amount) ==
  {UpdateInvestedAssets(x) :
     x \in Moved(a, Sub0(a.balance, amount)..Worth(a), 0..Worth(a), WorthWithin(a, MaxLoss, 0))}

\* Mutant: the profit stays in the strategy when a deposit follows
DepositKeepingProfit(a, amount, earned, invested) ==
  {Result(x, Sub0(invested + a.balance, x.invested + x.balance), 0, 0) :
     x \in Enter(a, Sub0(amount, earned))}

\* _depositToPoolUniversal
DepositToPoolUniversal(a, amount, earned, invested) ==
  LET toDeposit == Sub0(amount, earned)
      needToDeposit == toDeposit > (ReinvestPercent * invested) \div Denominator
      profit == earned > LiquidationThreshold
      sent == IF profit THEN Sent(a, earned, invested + a.balance) ELSE 0
      left == IF profit THEN earned - sent ELSE 0
      paid == IF profit THEN SendToInsurance(a, earned, invested + a.balance) ELSE a
  IN  IF needToDeposit
      THEN {Result(x, Sub0(invested + a.balance, x.invested + x.balance + sent), sent, left) :
              x \in Enter(paid, toDeposit)}
      ELSE IF profit /\ a.balance < earned
           THEN WithdrawUniversal(a, 0, earned, invested)
           ELSE {Result(paid, 0, sent, left)}

(***************************************************************************)
(* Calls of the splitter.  It covers the loss that a call returns.         *)
(***************************************************************************)
\* The bounds of the model, part of every call
InBounds ==
  /\ Total(acc) <= MaxTotal
  /\ acc.debtToInsurance \in -1..MaxDebt
  /\ acc.increase \in -1..1

NoPromise == [asset |-> "balance", amount |-> 0]

Ends(a, left, promised) ==
  /\ acc' = a /\ unsent' = left /\ promise' = promised
  /\ InBounds'

Done(a, left) == Ends(a, left, NoPromise)

\* The splitter sends amount and calls investAll -> _depositToPool
DepositToPool(amount, updateTotalAssetsBeforeInvest) ==
  LET a == [acc EXCEPT !.vault = @ - amount, !.balance = @ + amount]
      f == IF updateTotalAssetsBeforeInvest THEN FixPriceChanges(a) ELSE a
      earned == IF updateTotalAssetsBeforeInvest THEN EarnedByPrices(a) ELSE 0
  IN  /\ amount <= acc.vault /\ a.balance > 0
      /\ \E r \in DepositToPoolUniversal(f, a.balance, earned, f.invested) :
           Done(CoverPossibleStrategyLoss(r.acc, r.loss), r.unsent)

\* The fuse of a pair strategy is on: the amount is left on balance
DepositWhileFuseOn(amount) ==
  /\ amount <= acc.vault
  /\ Done([acc EXCEPT !.vault = @ - amount, !.balance = @ + amount], 0)

\* withdrawToSplitter -> _withdrawFromPool, for some amount more than the balance
\* has (only zero would make a difference); then some of the balance goes to the
\* splitter
WithdrawFromPool ==
  LET f == FixPriceChanges(acc)
  IN  \E r \in WithdrawUniversal(f, 1, EarnedByPrices(acc), f.invested) :
        LET c == CoverPossibleStrategyLoss(r.acc, r.loss)
        IN  \E n \in 0..c.balance :
              Done([c EXCEPT !.balance = @ - n, !.vault = @ + n], r.unsent)

\* _coverDebtToInsuranceFromRewards: what a reward of the given worth may pay of
\* the debt.  Tokens are sold; their sale is not limited to the debt when they are
\* worth no more than the debt and the threshold.
PaidInUnderlying(debt, reward) == IF debt > LiquidationThreshold THEN MinOf(debt, reward) ELSE 0
PaidInTokens(debt, reward) ==
  IF debt > LiquidationThreshold THEN 0..MinOf(debt + LiquidationThreshold, reward) ELSE {0}

\* Payments <<in underlying, in tokens>>, whichever reward comes first
Payments(debt, r, t) ==
  {x \in (0..r) \X (0..t) :
     \/ x[1] = PaidInUnderlying(debt, r) /\ x[2] \in PaidInTokens(debt - x[1], t)
     \/ x[2] \in PaidInTokens(debt, t) /\ x[1] = PaidInUnderlying(debt - x[2], r)}

\* What is left of the rewards: <<kept in underlying, kept in tokens, performance
\* fee to the insurance>>; what remains leaves
Shares(r, t) ==
  {x \in (0..(r + t)) \X (0..t) \X (0..(r + t)) : x[1] + x[2] + x[3] <= r + t}

\* _handleRewards, recycle: rewards r in underlying and t in tokens
HandleRewards(a, r, t) ==
  {[acc |-> [a EXCEPT !.balance = @ + x[2][1], !.tokens = @ + x[2][2],
                      !.insurance = @ + x[1][1] + x[1][2] + x[2][3],
                      !.debtToInsurance = @ - x[1][1] - x[1][2]],
    paidDebt |-> x[1][1] + x[1][2]] :
     x \in UNION {{p} \X Shares(r - p[1], t - p[2]) : p \in Payments(a.debtToInsurance, r, t)}}

\* doHardWork(reInvest = TRUE)
HardWork(r, t) ==
  LET f == FixPriceChanges(acc)
  IN  \E h \in HandleRewards(f, r, t) :
        LET invested == Real(h.acc)
            balance == h.acc.balance
            amount == IF invested # 0 /\ balance > (ReinvestPercent * invested) \div Denominator
                      THEN balance ELSE 0
            before == f.invested + balance
        IN  \E d \in DepositToPoolUniversal(h.acc, amount, EarnedByPrices(acc), invested) :
              LET after == d.acc.invested + d.acc.balance + d.sent
                  earned == Sub0(Sub0(after, before) + r + t, h.paidDebt)
              IN  Done(CoverPossibleStrategyLoss(d.acc, Sub0(Sub0(before, after), earned)), d.unsent)

EmergencyExit ==
  \E x \in Released(acc, 0) : Done(UpdateInvestedAssets(x), 0)

(***************************************************************************)
(* Calls of the operator.  What the iteration does is in UniswapV3Strategy;*)
(* here it is value moved between _rebalanceBefore and _rebalanceAfter.    *)
(***************************************************************************)
\* oldTotalAssets of _rebalanceBefore, from the fixed accounts
OldTotalAssets(f, earned) == f.invested + f.balance - earned

\* The work: worth w, of which b is on balance.  Then the profit is sent, the
\* loss is covered, and what is on balance may enter the pool.
Work(f, earned, oldTotal) ==
  LET worked == {x \in Moved(f, 0..(Worth(f) + MaxGain), {0}, WorthWithin(f, MaxLoss, MaxGain)) :
                   earned # 0 /\ x.balance # 0 => oldTotal # 0}
      settled(x) == LET p == SendToInsurance(x, earned, oldTotal)
                    IN  CoverLossAndCheckResults(p, Sub0(oldTotal, Worth(p)), Sub0(oldTotal, Worth(p)))
  IN  {Result(settled(x), 0, Sent(x, earned, oldTotal), earned - Sent(x, earned, oldTotal)) : x \in worked}

RebalanceAfter(a) ==
  {UpdateInvestedAssets(x) : x \in Moved(a, 0..a.balance, 0..Worth(a), {Worth(a)})}

RebalanceNoSwaps ==
  LET f == FixPriceChanges(acc)
      earned == EarnedByPrices(acc)
  IN  \E r \in Work(f, earned, OldTotalAssets(f, earned)) :
        \E x \in RebalanceAfter(r.acc) : Done(x, r.unsent)

\* rebalanceNoSwaps(false) when no rebalance is needed: the pool is left, the
\* profit is not looked at
RebalanceNotNeeded ==
  \E x \in Released(FixPriceChanges(acc), 0) : Done(UpdateInvestedAssets(x), 0)

WithdrawByAggStep ==
  LET f == FixPriceChanges(acc)
      earned == EarnedByPrices(acc)
      oldTotal == OldTotalAssets(f, earned)
  IN  \E r \in Work(f, earned, oldTotal) :
        \E x \in RebalanceAfter(r.acc) : Done(FixTooHighInvestedAssets(x, oldTotal), r.unsent)

(***************************************************************************)
(* Calls of TetuConverter                                                  *)
(***************************************************************************)
PlusGap(amount) == (amount * (Denominator + Gap)) \div Denominator

\* Mutant: the whole balance is promised
WithoutGapWhole(balance) == balance

WithoutGap(balance) == (balance * Denominator) \div (Denominator + Gap)

RequirePayAmountBack(asset, amount) ==
  LET f == FixPriceChanges(acc)
      earned == EarnedByPrices(acc)
      p == SendToInsurance(f, earned, f.invested + f.balance)
      left == earned - Sent(f, earned, f.invested + f.balance)
      available == p[asset] >= PlusGap(amount)
  IN  /\ amount # 0
      /\ \/ /\ available
            /\ Done(UpdateInvestedAssets([p EXCEPT ![asset] = @ - amount, !.transit = @ + amount]), left)
         \/ /\ ~available /\ f.invested = 0
            /\ Ends(UpdateInvestedAssets(p), left, [asset |-> asset, amount |-> WithoutGap(p[asset])])
         \/ /\ ~available /\ f.invested # 0
            /\ \E x \in MakeRequestedAmount(p, asset) :
                 Ends(UpdateInvestedAssets(x), left,
                      [asset |-> asset,
                       amount |-> IF x[asset] > PlusGap(amount) THEN amount ELSE WithoutGap(x[asset])])

\* The converter rebalances or closes a borrow and sends what is left of it
OnTransferAmounts ==
  \E x \in Released(acc, MaxLoss) : Done(UpdateInvestedAssets(x), 0)

\* The converter uses what it was paid to reduce a debt of the strategy
ConverterRepays ==
  /\ acc.transit > 0
  /\ Done([acc EXCEPT !.locked = @ + acc.transit, !.transit = 0], 0)

(***************************************************************************)
(* The world                                                               *)
(***************************************************************************)
\* There is, or at the last count there was, something to have a price
MarketMove ==
  /\ Real(acc) + acc.invested > 0
  /\ \E n \in 0..MaxTotal : Done([acc EXCEPT !.locked = n], 0)

\* Interest of the debts (+1) or of the collaterals (-1)
Accrue ==
  \E d \in {-1, 1} : /\ acc.locked > 0
                     /\ Done([acc EXCEPT !.locked = @ - d, !.increase = @ + d], 0)

-----------------------------------------------------------------------------
Init ==
  /\ acc = [balance |-> 0, tokens |-> 0, locked |-> 0, invested |-> 0, debtToInsurance |-> 0,
            increase |-> 0, insurance |-> InitInsurance, vault |-> InitVault, transit |-> 0]
  /\ unsent = 0
  /\ promise = NoPromise

SplitterCall ==
  \/ \E n \in 0..acc.vault, update \in BOOLEAN : DepositToPool(n, update)
  \/ \E n \in 1..acc.vault : DepositWhileFuseOn(n)
  \/ WithdrawFromPool
  \/ \E r, t \in 0..MaxReward : HardWork(r, t)
  \/ EmergencyExit

OperatorCall == RebalanceNoSwaps \/ RebalanceNotNeeded \/ WithdrawByAggStep

ConverterCall ==
  \/ \E asset \in Assets, n \in Requests \cup {promise.amount} : RequirePayAmountBack(asset, n)
  \/ OnTransferAmounts

Next ==
  \/ SplitterCall
  \/ OperatorCall
  \/ ConverterCall
  \/ ConverterRepays
  \/ MarketMove
  \/ Accrue

Spec == Init /\ [][Next]_vars

-----------------------------------------------------------------------------
TypeOK ==
  /\ acc \in Accounts
  /\ unsent \in Nat
  /\ promise \in [asset : Assets, amount : Nat]

\* What the shares of the vault are worth by the strategy's own report
Holdings == acc.vault + acc.balance + acc.invested

\* "Amount that was send OR can be claimed on the next call": after a
\* requirePayAmountBack that sent nothing, the amount it returned is on balance
\* with the gap, and no profit is left that the next call would first send away.
PromiseCanBePaid ==
  promise.amount # 0 =>
    /\ acc[promise.asset] >= PlusGap(promise.amount)
    /\ EarnedByPrices(acc) = 0

\* "Converter should make second call of requirePayAmountBack({amountOut}) to receive the
\* assets": asked at once for what it was promised, the strategy pays it, whatever it did
\* to fix the prices and the profit before it looked at its balance.
SecondCallPays ==
  [][promise.amount # 0 /\ RequirePayAmountBack(promise.asset, promise.amount)
       => acc'.transit = acc.transit + promise.amount]_vars

\* No call writes a value of investedAssets above what is really there, so
\* that the share price is never overstated by the strategy's own doing.
CacheNotOverstated == [][acc'.invested # acc.invested => acc'.invested <= Real(acc')]_vars

\* A deposit on fresh prices does not raise the share price: the profit goes
\* to the insurance, up to dust and to what the cap leaves unsent.
DepositKeepsSharePrice ==
  [][Holdings' > Holdings + unsent' + LiquidationThreshold
       => ~\E n \in 0..acc.vault : DepositToPool(n, TRUE)]_vars

\* "Withdraw cannot produce income": neither prices nor lucky swaps raise the
\* share price of those who stay, up to what the cap leaves unsent.
WithdrawKeepsSharePrice ==
  [][Holdings' > Holdings + unsent' => ~WithdrawFromPool]_vars

\* Hard work without rewards makes no income out of prices, up to dust, to what the cap
\* leaves unsent, and to what is lost when the profit is withdrawn from the pool: that loss
\* lowers what is sent of the profit, and _doHardWork has it covered once more.
HardWorkKeepsSharePrice ==
  [][Holdings' > Holdings + unsent' + MaxOf(LiquidationThreshold, MaxLoss) => ~HardWork(0, 0)]_vars

\* A withdraw step postpones the profit it cannot send: the share price rises
\* only if the balance alone is worth the old total.
StepKeepsSharePrice ==
  [][(Holdings' > Holdings /\ acc'.balance < OldTotalAssets(FixPriceChanges(acc), EarnedByPrices(acc)))
       => ~WithdrawByAggStep]_vars

\* "we don't add uncovered amount to the debts to the insurance": an operator's
\* call adds to the debt no more than the vault received and the interest.
DebtWithinCover ==
  [][acc'.debtToInsurance - acc.debtToInsurance
       > (acc'.vault - acc.vault) + (IF acc.increase > 0 THEN acc.increase ELSE 0)
       => ~OperatorCall]_vars

(***************************************************************************)
(* What the comments promise and the code does not do                      *)
(***************************************************************************)
\* "Swap can give us more amount out than expected ... To prevent it": a step
\* never raises the share price.
StepNeverRaisesSharePrice == [][Holdings' > Holdings => ~WithdrawByAggStep]_vars
=============================================================================
