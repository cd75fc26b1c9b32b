---------------------- MODULE ConverterAccountingProofs ----------------------
(***************************************************************************)
(* Theorems about ConverterAccounting: every amount stays in its domain,   *)
(* a promise to TetuConverter can be kept, the cache is never written      *)
(* above what is really there, no call makes the share price rise by       *)
(* income of prices, and the debt to the insurance grows by what is        *)
(* covered only - for all ratios, caps, losses and gains.                  *)
(***************************************************************************)
EXTENDS ConverterAccounting, TLAPS

(***************************************************************************)
(* Arithmetic                                                              *)
(***************************************************************************)
\* Dividing naturals gives a natural.
LEMMA DivNat ==
  ASSUME NEW x \in Nat, NEW y \in Nat \ {0}
  PROVE  x \div y \in Nat
OBVIOUS

\* So does multiplying; stated once, for products of two unknowns.
LEMMA MulNat ==
  ASSUME NEW x \in Nat, NEW y \in Nat
  PROVE  x * y \in Nat
OBVIOUS

LEMMA MulInt ==
  ASSUME NEW x \in Int, NEW y \in Int
  PROVE  x * y \in Int
OBVIOUS

LEMMA DivIntType ==
  ASSUME NEW x \in Int, NEW y \in Nat \ {0}
  PROVE  DivInt(x, y) \in Int
BY DEF DivInt

\* A natural number is not exceeded by the quotient of less than itself times the divisor.
LEMMA DivBound ==
  ASSUME NEW x \in Nat, NEW y \in Nat \ {0}, NEW b \in Nat, x <= b * y
  PROVE  x \div y <= b
<1> DEFINE q == x \div y
<1>1. q \in Nat /\ q * y <= x
  OBVIOUS
<1>2. q * y <= b * y
  BY <1>1, MulNat
<1>3. ~(b < q)
  <2> SUFFICES ASSUME b < q PROVE FALSE
    OBVIOUS
  <2>1. (q - b) * y = q * y - b * y /\ (q - b) * y > 0
    BY <1>1
  <2> QED
    BY <2>1, <1>2, <1>1, MulNat
<1> QED
  BY <1>1, <1>3

\* The gap: what is promised of a balance fits into it with its gap.
LEMMA GapFits ==
  ASSUME NEW b \in Nat
  PROVE  WithoutGap(b) \in Nat /\ PlusGap(WithoutGap(b)) <= b
<1> DEFINE n == WithoutGap(b)
           y == Denominator + Gap
<1>1. Denominator \in Nat \ {0} /\ y \in Nat \ {0}
  BY RatioAssumption
<1>2. b * Denominator \in Nat
  BY <1>1, MulNat
<1>3. n \in Nat /\ n * y <= b * Denominator
  BY <1>1, <1>2 DEF WithoutGap
<1>4. n * y \in Nat
  BY <1>1, <1>3, MulNat
<1>5. (n * y) \div Denominator <= b
  BY <1>1, <1>3, <1>4, DivBound
<1> QED
  BY <1>3, <1>5 DEF PlusGap

(***************************************************************************)
(* What the operators keep.  Fresh: the cache is not above what is there.  *)
(***************************************************************************)
Fresh(a) == a.invested <= Real(a)

\* Two accounts with the same report and the same value behind it
SameValue(a, b) == b.balance = a.balance /\ b.tokens = a.tokens /\ b.locked = a.locked

LEMMA RealType ==
  ASSUME NEW a \in Accounts
  PROVE  /\ Real(a) \in Nat /\ Worth(a) \in Nat
         /\ Worth(a) = a.balance + Real(a)
         /\ EarnedByPrices(a) \in Nat
BY DEF Accounts, Real, Worth, EarnedByPrices, Sub0

LEMMA CappedType ==
  ASSUME NEW amount \in Nat, NEW total \in Nat
  PROVE  Capped(amount, total) \in Nat /\ Capped(amount, total) <= amount
<1>1. Tolerance \in Nat /\ Denominator \in Nat \ {0}
  BY RatioAssumption
<1>2. Tolerance * total \in Nat
  BY <1>1, MulNat
<1>3. (Tolerance * total) \div Denominator \in Nat
  BY <1>1, <1>2, DivNat
<1> QED
  BY <1>3 DEF Capped, MinOf

\* What is sent is on balance, and no more than asked for.
LEMMA SentType ==
  ASSUME NEW a \in Accounts, NEW amount \in Nat, NEW total \in Nat
  PROVE  /\ Sent(a, amount, total) \in Nat
         /\ Sent(a, amount, total) <= a.balance
         /\ Sent(a, amount, total) <= amount
<1>1. a.balance \in Nat
  BY DEF Accounts
<1>2. MinOf(amount, a.balance) \in Nat
  BY <1>1 DEF MinOf
<1>3. Sent(a, amount, total) \in Nat /\ Sent(a, amount, total) <= MinOf(amount, a.balance)
  BY <1>2, CappedType DEF Sent
<1> QED
  BY <1>1, <1>3 DEF MinOf

LEMMA SendToInsuranceType ==
  ASSUME NEW a \in Accounts, NEW amount \in Nat, NEW total \in Nat
  PROVE  LET p == SendToInsurance(a, amount, total)
         IN  /\ p \in Accounts
             /\ p.tokens = a.tokens /\ p.locked = a.locked /\ p.invested = a.invested
             /\ p.balance <= a.balance
<1> DEFINE sent == Sent(a, amount, total)
           x == a.balance - sent
           y == a.insurance + sent
           p == SendToInsurance(a, amount, total)
<1>1. x \in Nat /\ x <= a.balance /\ y \in Nat
  <2>1. sent \in Nat /\ sent <= a.balance
    BY SentType
  <2>2. a.balance \in Nat /\ a.insurance \in Nat
    BY DEF Accounts
  <2> HIDE DEF sent
  <2> QED
    BY <2>1, <2>2
<1>2. p = [a EXCEPT !.balance = x, !.insurance = y]
  BY DEF SendToInsurance
<1> HIDE DEF x, y, p
<1>3. p \in Accounts /\ p.tokens = a.tokens /\ p.locked = a.locked /\ p.invested = a.invested
      /\ p.balance = x
  BY <1>1, <1>2 DEF Accounts
<1> QED
  BY <1>1, <1>3 DEF p

LEMMA CoverType ==
  ASSUME NEW a \in Accounts, NEW loss \in Nat
  PROVE  LET c == CoverPossibleStrategyLoss(a, loss)
         IN  /\ c \in Accounts /\ SameValue(a, c) /\ c.invested = a.invested
             /\ Covered(a, loss) \in Nat
<1> DEFINE x == a.insurance - Covered(a, loss)
           y == a.vault + Covered(a, loss)
           c == CoverPossibleStrategyLoss(a, loss)
<1>1. x \in Nat /\ y \in Nat /\ Covered(a, loss) \in Nat
  BY DEF Covered, MinOf, Accounts
<1>2. c = [a EXCEPT !.insurance = x, !.vault = y]
  BY DEF CoverPossibleStrategyLoss
<1> HIDE DEF x, y, c
<1>3. c \in Accounts /\ c.balance = a.balance /\ c.tokens = a.tokens /\ c.locked = a.locked
      /\ c.invested = a.invested
  BY <1>1, <1>2 DEF Accounts
<1> QED
  BY <1>1, <1>3 DEF c, SameValue

LEMMA CoverLossAndCheckResultsType ==
  ASSUME NEW a \in Accounts, NEW loss \in Nat, NEW inc \in Int
  PROVE  LET c == CoverLossAndCheckResults(a, loss, inc)
         IN  c \in Accounts /\ SameValue(a, c) /\ c.invested = a.invested
<1> DEFINE d == IF loss = 0 THEN 0 ELSE DivInt(inc * Covered(a, loss), loss)
           b == CoverPossibleStrategyLoss(a, loss)
<1>1. b \in Accounts /\ SameValue(a, b) /\ b.invested = a.invested /\ Covered(a, loss) \in Nat
  BY CoverType
<1>2. inc * Covered(a, loss) \in Int
  BY <1>1, MulInt
<1>3. d \in Int
  BY <1>2, DivIntType
<1> HIDE DEF d, b
<1>4. CoverLossAndCheckResults(a, loss, inc) = [b EXCEPT !.debtToInsurance = @ + d]
  BY DEF CoverLossAndCheckResults, d, b
<1> QED
  BY <1>1, <1>3, <1>4 DEF Accounts, SameValue

LEMMA UpdateType ==
  ASSUME NEW a \in Accounts
  PROVE  LET u == UpdateInvestedAssets(a)
         IN  u \in Accounts /\ SameValue(a, u) /\ u.invested = Real(a) /\ Fresh(u)
             /\ EarnedByPrices(u) = 0
<1> DEFINE x == Real(a)
           u == UpdateInvestedAssets(a)
<1>1. x \in Nat
  BY RealType
<1>2. u = [a EXCEPT !.invested = x, !.increase = 0]
  BY DEF UpdateInvestedAssets
<1>3. x = a.locked + a.tokens
  BY DEF Real
<1> HIDE DEF x, u
<1>4. u \in Accounts /\ u.balance = a.balance /\ u.tokens = a.tokens /\ u.locked = a.locked
      /\ u.invested = x
  <2> DEFINE b == [a EXCEPT !.invested = x]
  <2>1. u = [b EXCEPT !.increase = 0]
    BY <1>2
  <2>2. b \in Accounts /\ b.balance = a.balance /\ b.tokens = a.tokens /\ b.locked = a.locked
        /\ b.invested = x
    BY <1>1 DEF Accounts
  <2> HIDE DEF b
  <2> QED
    BY <2>1, <2>2 DEF Accounts
<1>5. Real(u) = x
  BY <1>3, <1>4 DEF Real
<1> QED
  BY <1>1, <1>4, <1>5 DEF SameValue, Fresh, EarnedByPrices, Sub0, x, u

\* After fixing the price changes the cache is exactly what is there.
LEMMA FixPriceChangesType ==
  ASSUME NEW a \in Accounts
  PROVE  LET f == FixPriceChanges(a)
         IN  f \in Accounts /\ SameValue(a, f) /\ f.invested = Real(f) /\ Fresh(f)
<1> DEFINE fixed == UpdateInvestedAssets(a)
           lost == Sub0(a.invested, Real(a))
           toCover == Capped(lost, Worth(a))
           inc == DivInt(a.increase * toCover, lost)
<1>1. fixed \in Accounts /\ SameValue(a, fixed) /\ fixed.invested = Real(a)
  BY UpdateType
<1>2. Real(a) \in Nat /\ Worth(a) \in Nat /\ a.invested \in Nat /\ a.increase \in Int
  BY RealType DEF Accounts
<1>3. lost \in Nat
  BY <1>2 DEF Sub0
<1>4. toCover \in Nat
  BY <1>2, <1>3, CappedType
<1> HIDE DEF fixed, lost, toCover
<1>5. CASE EarnedByPrices(a) > 0
  <2>1. FixPriceChanges(a) = [fixed EXCEPT !.debtToInsurance = @ + a.increase]
    BY <1>5 DEF FixPriceChanges, fixed
  <2> QED
    BY <1>1, <1>2, <2>1 DEF Accounts, SameValue, Fresh, Real
<1>6. CASE ~(EarnedByPrices(a) > 0) /\ lost # 0
  <2>1. a.increase * toCover \in Int
    BY <1>2, <1>4, MulInt
  <2>2. inc \in Int
    BY <1>3, <1>6, <2>1, DivIntType
  <2> HIDE DEF inc
  <2>3. FixPriceChanges(a) = CoverLossAndCheckResults(fixed, toCover, inc)
    BY <1>6 DEF FixPriceChanges, fixed, lost, toCover, inc
  <2>4. LET c == CoverLossAndCheckResults(fixed, toCover, inc)
        IN  c \in Accounts /\ SameValue(fixed, c) /\ c.invested = fixed.invested
    BY <1>1, <1>4, <2>2, CoverLossAndCheckResultsType
  <2> QED
    BY <1>1, <1>2, <2>3, <2>4 DEF SameValue, Fresh, Real
<1>7. CASE ~(EarnedByPrices(a) > 0) /\ lost = 0
  <2>1. FixPriceChanges(a) = fixed
    BY <1>7 DEF FixPriceChanges, fixed, lost
  <2> QED
    BY <1>1, <1>2, <2>1 DEF SameValue, Fresh, Real
<1> QED
  BY <1>5, <1>6, <1>7

(***************************************************************************)
(* Moving value                                                            *)
(***************************************************************************)
LEMMA MovedType ==
  ASSUME NEW a \in Accounts, NEW balances \in SUBSET Nat, NEW tokens \in SUBSET Nat,
         NEW worths \in SUBSET Nat, NEW x \in Moved(a, balances, tokens, worths)
  PROVE  /\ x \in Accounts
         /\ x.balance \in balances /\ x.tokens \in tokens
         /\ x.invested = a.invested
<1>1. PICK y \in balances \X tokens \X worths :
        /\ y[1] + y[2] <= y[3]
        /\ x = [a EXCEPT !.balance = y[1], !.tokens = y[2], !.locked = y[3] - y[1] - y[2]]
  BY DEF Moved
<1> DEFINE p == y[1]
           q == y[2]
           l == y[3] - y[1] - y[2]
           b == [a EXCEPT !.balance = p]
           c == [b EXCEPT !.tokens = q]
<1>2. p \in balances /\ q \in tokens /\ y[3] \in worths
  BY <1>1
<1>3. p \in Nat /\ q \in Nat /\ l \in Nat
  BY <1>1, <1>2
<1> HIDE DEF p, q, l
<1>4. x = [c EXCEPT !.locked = l]
  BY <1>1 DEF p, q, l
<1>5. b \in Accounts /\ b.balance = p /\ b.invested = a.invested
  BY <1>3 DEF Accounts
<1> HIDE DEF b
<1>6. c \in Accounts /\ c.balance = p /\ c.tokens = q /\ c.invested = a.invested
  BY <1>3, <1>5 DEF Accounts
<1> HIDE DEF c
<1> QED
  BY <1>2, <1>3, <1>4, <1>6 DEF Accounts

LEMMA WorthWithinType ==
  ASSUME NEW a \in Accounts, NEW loss \in Nat, NEW gain \in Nat
  PROVE  WorthWithin(a, loss, gain) \in SUBSET Nat
<1>1. Worth(a) \in Nat
  BY RealType
<1> QED
  BY <1>1 DEF WorthWithin, Sub0

LEMMA ReleasedType ==
  ASSUME NEW a \in Accounts, NEW loss \in Nat, NEW x \in Released(a, loss)
  PROVE  x \in Accounts /\ x.invested = a.invested
<1> DEFINE balances == a.balance..Worth(a)
           tokens == a.tokens..Worth(a)
           worths == WorthWithin(a, loss, 0)
<1>1. worths \in SUBSET Nat
  BY WorthWithinType
<1>2. balances \in SUBSET Nat /\ tokens \in SUBSET Nat
  BY RealType DEF Accounts
<1>3. x \in Moved(a, balances, tokens, worths)
  BY DEF Released
<1> HIDE DEF balances, tokens, worths
<1> QED
  BY <1>1, <1>2, <1>3, MovedType

LEMMA MakeRequestedAmountType ==
  ASSUME NEW a \in Accounts, NEW asset \in Assets, NEW x \in MakeRequestedAmount(a, asset)
  PROVE  x \in Accounts /\ x.invested = a.invested
<1> DEFINE most == Worth(a) + MaxGain
           least == [y \in Assets |-> IF y = asset THEN Sub0(a[y], MaxLoss) ELSE 0]
           balances == least["balance"]..most
           tokens == least["tokens"]..most
           worths == WorthWithin(a, MaxLoss, MaxGain)
<1>1. MaxLoss \in Nat /\ MaxGain \in Nat
  BY EnvironmentAssumption
<1>2. worths \in SUBSET Nat
  BY <1>1, WorthWithinType
<1>3. a["balance"] \in Nat /\ a["tokens"] \in Nat /\ Worth(a) \in Nat
  BY RealType DEF Accounts
<1>4. least["balance"] \in Nat /\ least["tokens"] \in Nat
  BY <1>1, <1>3 DEF Assets, Sub0
<1>5. x \in Moved(a, balances, tokens, worths)
  BY DEF MakeRequestedAmount
<1> HIDE DEF least
<1>6. balances \in SUBSET Nat /\ tokens \in SUBSET Nat
  BY <1>1, <1>3, <1>4
<1> HIDE DEF balances, tokens, worths
<1> QED
  BY <1>2, <1>5, <1>6, MovedType

\* After entering the pool the cache is what is there.
LEMMA EnterType ==
  ASSUME NEW a \in Accounts, NEW amount \in Nat, NEW x \in Enter(a, amount)
  PROVE  x \in Accounts /\ Fresh(x)
<1> DEFINE from == Sub0(a.balance, amount)..Worth(a)
<1>1. MaxLoss \in Nat
  BY EnvironmentAssumption
<1>2. WorthWithin(a, MaxLoss, 0) \in SUBSET Nat
  BY <1>1, WorthWithinType
<1>3. from \in SUBSET Nat /\ 0..Worth(a) \in SUBSET Nat
  BY RealType DEF Accounts, Sub0
<1>4. PICK y \in Moved(a, from, 0..Worth(a), WorthWithin(a, MaxLoss, 0)) :
        x = UpdateInvestedAssets(y)
  BY DEF Enter
<1> HIDE DEF from
<1>5. y \in Accounts
  BY <1>2, <1>3, <1>4, MovedType
<1> QED
  BY <1>4, <1>5, UpdateType

(***************************************************************************)
(* Results of withdrawing and depositing                                   *)
(***************************************************************************)
\* From a to b the cache was set to what is there or less, or it was not
\* written and what is there did not shrink.
Honest(a, b) == Fresh(b) \/ (b.invested = a.invested /\ Real(b) >= Real(a))

GoodResult(a, r) ==
  r.acc \in Accounts /\ r.loss \in Nat /\ r.sent \in Nat /\ r.unsent \in Nat /\ Honest(a, r.acc)

LEMMA ResultFields ==
  ASSUME NEW a, NEW loss, NEW sent, NEW left
  PROVE  LET r == Result(a, loss, sent, left)
         IN  r.acc = a /\ r.loss = loss /\ r.sent = sent /\ r.unsent = left
BY DEF Result

\* Sending to the insurance leaves the cache and what is behind it.
LEMMA SendIsHonest ==
  ASSUME NEW a \in Accounts, NEW amount \in Nat, NEW total \in Nat
  PROVE  LET p == SendToInsurance(a, amount, total)
         IN  /\ p \in Accounts /\ p.invested = a.invested /\ Real(p) = Real(a)
             /\ Honest(a, p) /\ (Fresh(a) => Fresh(p))
<1> DEFINE p == SendToInsurance(a, amount, total)
<1>1. p \in Accounts /\ p.tokens = a.tokens /\ p.locked = a.locked /\ p.invested = a.invested
  BY SendToInsuranceType
<1> HIDE DEF p
<1>2. Real(p) = Real(a) /\ Real(a) \in Nat
  BY <1>1, RealType DEF Real
<1>3. Honest(a, p) /\ (Fresh(a) => Fresh(p))
  BY <1>1, <1>2 DEF Honest, Fresh
<1> QED
  BY <1>1, <1>2, <1>3 DEF p

LEMMA CalculateIncomeType ==
  ASSUME NEW a \in Accounts, Fresh(a), NEW b, NEW invested \in Nat, NEW balanceBefore \in Nat,
         NEW earned \in Nat
  PROVE  GoodResult(b, CalculateIncomeAfterWithdraw(a, invested, balanceBefore, earned))
<1> DEFINE total == invested + balanceBefore
           before == Sub0(total, earned)
           now == a.invested + a.balance
           profit == Sub0(now, before)
           loss == Sub0(before, now)
           sent == Sent(a, profit, total)
           p == SendToInsurance(a, profit, total)
           r == CalculateIncomeAfterWithdraw(a, invested, balanceBefore, earned)
<1>1. total \in Nat /\ before \in Nat /\ now \in Nat
  BY DEF Sub0, Accounts
<1>2. profit \in Nat /\ loss \in Nat
  BY <1>1 DEF Sub0
<1>3. r = Result(p, loss, sent, profit - sent)
  BY DEF CalculateIncomeAfterWithdraw
<1> HIDE DEF total, before, now, profit, loss, r
<1>4. sent \in Nat /\ sent <= profit
  BY <1>1, <1>2, SentType
<1>5. p \in Accounts /\ Fresh(p)
  BY <1>1, <1>2, SendIsHonest
<1> HIDE DEF sent, p
<1>6. profit - sent \in Nat
  BY <1>2, <1>4
<1>7. GoodResult(b, r)
  BY <1>2, <1>3, <1>4, <1>5, <1>6, ResultFields DEF GoodResult, Honest
<1> QED
  BY <1>7 DEF r

LEMMA WithdrawUniversalType ==
  ASSUME NEW a \in Accounts, NEW amount \in Nat, NEW earned \in Nat, NEW invested \in Nat,
         NEW r \in WithdrawUniversal(a, amount, earned, invested)
  PROVE  GoodResult(a, r)
<1>1. a.balance \in Nat /\ Real(a) \in Nat
  BY RealType DEF Accounts
<1>2. CASE r = Result(a, 0, 0, 0)
  <2>1. Honest(a, a)
    BY <1>1 DEF Honest
  <2> QED
    BY <1>2, <2>1, ResultFields DEF GoodResult
<1>3. CASE \E x \in MakeRequestedAmount(a, "balance") :
             r = CalculateIncomeAfterWithdraw(UpdateInvestedAssets(x), invested, a.balance, earned)
  <2>1. PICK x \in MakeRequestedAmount(a, "balance") :
          r = CalculateIncomeAfterWithdraw(UpdateInvestedAssets(x), invested, a.balance, earned)
    BY <1>3
  <2>2. x \in Accounts
    BY MakeRequestedAmountType DEF Assets
  <2>3. UpdateInvestedAssets(x) \in Accounts /\ Fresh(UpdateInvestedAssets(x))
    BY <2>2, UpdateType
  <2> QED
    BY <1>1, <2>1, <2>3, CalculateIncomeType
<1> QED
  BY <1>2, <1>3 DEF WithdrawUniversal

LEMMA DepositToPoolUniversalType ==
  ASSUME NEW a \in Accounts, NEW amount \in Nat, NEW earned \in Nat, NEW invested \in Nat,
         NEW r \in DepositToPoolUniversal(a, amount, earned, invested)
  PROVE  GoodResult(a, r)
<1> DEFINE toDeposit == Sub0(amount, earned)
           total == invested + a.balance
           profit == earned > LiquidationThreshold
           sent == IF profit THEN Sent(a, earned, total) ELSE 0
           left == IF profit THEN earned - sent ELSE 0
           paid == IF profit THEN SendToInsurance(a, earned, total) ELSE a
           loss(x) == Sub0(total, x.invested + x.balance + sent)
<1>1. a.balance \in Nat /\ Real(a) \in Nat
  BY RealType DEF Accounts
<1>2. toDeposit \in Nat /\ total \in Nat
  BY <1>1 DEF Sub0
<1>3. \/ \E x \in Enter(paid, toDeposit) : r = Result(x, loss(x), sent, left)
      \/ r \in WithdrawUniversal(a, 0, earned, invested)
      \/ r = Result(paid, 0, sent, left)
  BY DEF DepositToPoolUniversal
<1>4. sent \in Nat /\ left \in Nat /\ paid \in Accounts /\ Honest(a, paid)
  <2> HIDE DEF total
  <2>1. CASE profit
    <3>1. Sent(a, earned, total) \in Nat /\ Sent(a, earned, total) <= earned
      BY <1>2, SentType
    <3>2. SendToInsurance(a, earned, total) \in Accounts /\ Honest(a, SendToInsurance(a, earned, total))
      BY <1>2, SendIsHonest
    <3> QED
      BY <2>1, <3>1, <3>2
  <2>2. CASE ~profit
    BY <1>1, <2>2 DEF Honest
  <2> QED
    BY <2>1, <2>2
<1> HIDE DEF toDeposit, sent, left, paid
<1>5. CASE \E x \in Enter(paid, toDeposit) : r = Result(x, loss(x), sent, left)
  <2>1. PICK x \in Enter(paid, toDeposit) : r = Result(x, loss(x), sent, left)
    BY <1>5
  <2>2. x \in Accounts /\ Fresh(x)
    BY <1>2, <1>4, EnterType
  <2>3. loss(x) \in Nat
    BY <1>2, <1>4, <2>2 DEF Sub0, Accounts
  <2> HIDE DEF loss
  <2> QED
    BY <1>4, <2>1, <2>2, <2>3, ResultFields DEF GoodResult, Honest
<1>6. CASE r \in WithdrawUniversal(a, 0, earned, invested)
  BY <1>6, WithdrawUniversalType
<1>7. CASE r = Result(paid, 0, sent, left)
  BY <1>4, <1>7, ResultFields DEF GoodResult
<1> QED
  BY <1>3, <1>5, <1>6, <1>7

(***************************************************************************)
(* The actions.  Keeps: what the step of an action leads to.               *)
(***************************************************************************)
Keeps ==
  /\ TypeOK'
  /\ PromiseCanBePaid'
  /\ acc'.invested # acc.invested => Fresh(acc')

\* A call that promises nothing keeps what has to be kept if its accounts are right.
LEMMA DoneKeeps ==
  ASSUME NEW a \in Accounts, NEW left \in Nat, a.invested # acc.invested => Fresh(a),
         Done(a, left)
  PROVE  Keeps
<1>1. acc' = a /\ unsent' = left /\ promise' = NoPromise
  BY DEF Done, Ends
<1>2. NoPromise \in [asset : Assets, amount : Nat] /\ NoPromise.amount = 0
  BY DEF NoPromise, Assets
<1>3. TypeOK'
  BY <1>1, <1>2 DEF TypeOK
<1>4. PromiseCanBePaid'
  BY <1>1, <1>2 DEF PromiseCanBePaid
<1> QED
  BY <1>1, <1>3, <1>4 DEF Keeps

\* What the splitter covers is not part of the report.
LEMMA CoverKeeps ==
  ASSUME NEW a \in Accounts, NEW loss \in Nat
  PROVE  LET c == CoverPossibleStrategyLoss(a, loss)
         IN  c \in Accounts /\ c.invested = a.invested /\ (Fresh(a) => Fresh(c))
<1> DEFINE c == CoverPossibleStrategyLoss(a, loss)
<1>1. c \in Accounts /\ SameValue(a, c) /\ c.invested = a.invested
  BY CoverType
<1> HIDE DEF c
<1>2. Fresh(a) => Fresh(c)
  BY <1>1 DEF SameValue, Fresh, Real
<1> QED
  BY <1>1, <1>2 DEF c

LEMMA HonestKeepsFresh ==
  ASSUME NEW a \in Accounts, NEW b \in Accounts, Fresh(a), Honest(a, b)
  PROVE  Fresh(b)
<1>1. Real(a) \in Nat /\ Real(b) \in Nat /\ a.invested \in Nat /\ b.invested \in Nat
  BY RealType DEF Accounts
<1> QED
  BY <1>1 DEF Honest, Fresh

LEMMA DepositToPoolKeeps ==
  ASSUME TypeOK, NEW amount \in Nat, NEW update \in BOOLEAN, DepositToPool(amount, update)
  PROVE  Keeps
<1> DEFINE x == acc.vault - amount
           y == acc.balance + amount
           a == [acc EXCEPT !.vault = x, !.balance = y]
           f == IF update THEN FixPriceChanges(a) ELSE a
           earned == IF update THEN EarnedByPrices(a) ELSE 0
<1>1. acc \in Accounts
  BY DEF TypeOK
<1>2. /\ amount <= acc.vault
      /\ \E r \in DepositToPoolUniversal(f, a.balance, earned, f.invested) :
           Done(CoverPossibleStrategyLoss(r.acc, r.loss), r.unsent)
  BY DEF DepositToPool
<1>3. x \in Nat /\ y \in Nat
  BY <1>1, <1>2 DEF Accounts
<1> HIDE DEF x, y
<1>4. a \in Accounts /\ a.invested = acc.invested
  BY <1>1, <1>3 DEF Accounts
<1> HIDE DEF a
<1>5. f \in Accounts /\ earned \in Nat /\ (f.invested # acc.invested => Fresh(f))
  <2>1. CASE update
    BY <1>4, <2>1, FixPriceChangesType, RealType
  <2>2. CASE ~update
    BY <1>4, <2>2
  <2> QED
    BY <2>1, <2>2
<1> HIDE DEF f, earned
<1>6. PICK r \in DepositToPoolUniversal(f, a.balance, earned, f.invested) :
        Done(CoverPossibleStrategyLoss(r.acc, r.loss), r.unsent)
  BY <1>2
<1>7. a.balance \in Nat /\ f.invested \in Nat
  BY <1>4, <1>5 DEF Accounts
<1>8. GoodResult(f, r)
  BY <1>5, <1>7, DepositToPoolUniversalType
<1>9. r.acc.invested # acc.invested => Fresh(r.acc)
  BY <1>5, <1>8, HonestKeepsFresh DEF GoodResult, Honest
<1> DEFINE c == CoverPossibleStrategyLoss(r.acc, r.loss)
<1>10. c \in Accounts /\ (c.invested # acc.invested => Fresh(c))
  BY <1>8, <1>9, CoverKeeps DEF GoodResult
<1> HIDE DEF c
<1>11. Done(c, r.unsent) /\ r.unsent \in Nat
  BY <1>6, <1>8 DEF c, GoodResult
<1> QED
  BY <1>10, <1>11, DoneKeeps

LEMMA DepositWhileFuseOnKeeps ==
  ASSUME TypeOK, NEW amount \in Nat, DepositWhileFuseOn(amount)
  PROVE  Keeps
<1> DEFINE x == acc.vault - amount
           y == acc.balance + amount
           a == [acc EXCEPT !.vault = x, !.balance = y]
<1>1. acc \in Accounts
  BY DEF TypeOK
<1>2. amount <= acc.vault /\ Done(a, 0)
  BY DEF DepositWhileFuseOn
<1>3. x \in Nat /\ y \in Nat
  BY <1>1, <1>2 DEF Accounts
<1> HIDE DEF x, y
<1>4. a \in Accounts /\ a.invested = acc.invested
  BY <1>1, <1>3 DEF Accounts
<1> HIDE DEF a
<1> QED
  BY <1>2, <1>4, DoneKeeps

LEMMA WithdrawFromPoolKeeps ==
  ASSUME TypeOK, WithdrawFromPool
  PROVE  Keeps
<1> DEFINE f == FixPriceChanges(acc)
           earned == EarnedByPrices(acc)
<1>1. f \in Accounts /\ Fresh(f) /\ earned \in Nat
  BY FixPriceChangesType, RealType DEF TypeOK
<1>2. PICK r \in WithdrawUniversal(f, 1, earned, f.invested) :
        LET c == CoverPossibleStrategyLoss(r.acc, r.loss)
        IN  \E n \in 0..c.balance :
              Done([c EXCEPT !.balance = @ - n, !.vault = @ + n], r.unsent)
  BY DEF WithdrawFromPool
<1> HIDE DEF f, earned
<1>3. f.invested \in Nat
  BY <1>1 DEF Accounts
<1>4. GoodResult(f, r)
  BY <1>1, <1>3, WithdrawUniversalType
<1>5. r.acc \in Accounts /\ r.loss \in Nat /\ r.unsent \in Nat /\ Fresh(r.acc)
  BY <1>1, <1>4, HonestKeepsFresh DEF GoodResult
<1> DEFINE c == CoverPossibleStrategyLoss(r.acc, r.loss)
<1>6. c \in Accounts /\ Fresh(c)
  BY <1>5, CoverKeeps
<1>7. PICK n \in 0..c.balance : Done([c EXCEPT !.balance = @ - n, !.vault = @ + n], r.unsent)
  BY <1>2
<1> HIDE DEF c
<1> DEFINE x == c.balance - n
           y == c.vault + n
           d == [c EXCEPT !.balance = x, !.vault = y]
<1>8. x \in Nat /\ y \in Nat
  BY <1>6, <1>7 DEF Accounts
<1>9. Done(d, r.unsent)
  BY <1>7
<1> HIDE DEF x, y
<1>10. d \in Accounts /\ d.tokens = c.tokens /\ d.locked = c.locked /\ d.invested = c.invested
  BY <1>6, <1>8 DEF Accounts
<1> HIDE DEF d
<1>11. Fresh(d)
  BY <1>6, <1>10 DEF Fresh, Real
<1> QED
  BY <1>5, <1>9, <1>10, <1>11, DoneKeeps

\* Rewards never lower what is on balance, and leave the cache alone.
LEMMA HandleRewardsType ==
  ASSUME NEW a \in Accounts, NEW r \in Nat, NEW t \in Nat, NEW h \in HandleRewards(a, r, t)
  PROVE  h.acc \in Accounts /\ h.paidDebt \in Nat /\ Honest(a, h.acc) /\ h.acc.invested = a.invested
<1>1. PICK p \in Payments(a.debtToInsurance, r, t) : \E s \in Shares(r - p[1], t - p[2]) :
        h = [acc |-> [a EXCEPT !.balance = @ + s[1], !.tokens = @ + s[2],
                               !.insurance = @ + p[1] + p[2] + s[3],
                               !.debtToInsurance = @ - p[1] - p[2]],
             paidDebt |-> p[1] + p[2]]
  <2>1. PICK x \in UNION {{p} \X Shares(r - p[1], t - p[2]) : p \in Payments(a.debtToInsurance, r, t)} :
          h = [acc |-> [a EXCEPT !.balance = @ + x[2][1], !.tokens = @ + x[2][2],
                                 !.insurance = @ + x[1][1] + x[1][2] + x[2][3],
                                 !.debtToInsurance = @ - x[1][1] - x[1][2]],
               paidDebt |-> x[1][1] + x[1][2]]
    BY DEF HandleRewards
  <2>2. PICK p \in Payments(a.debtToInsurance, r, t) : x \in {p} \X Shares(r - p[1], t - p[2])
    BY <2>1
  <2>3. x[1] = p /\ x[2] \in Shares(r - p[1], t - p[2])
    BY <2>2
  <2> QED
    BY <2>1, <2>3
<1>2. PICK s \in Shares(r - p[1], t - p[2]) :
        h = [acc |-> [a EXCEPT !.balance = @ + s[1], !.tokens = @ + s[2],
                               !.insurance = @ + p[1] + p[2] + s[3],
                               !.debtToInsurance = @ - p[1] - p[2]],
             paidDebt |-> p[1] + p[2]]
  BY <1>1
<1>3. p[1] \in 0..r /\ p[2] \in 0..t
  BY DEF Payments
<1>4. s[1] \in Nat /\ s[2] \in Nat /\ s[3] \in Nat
  BY <1>3 DEF Shares
<1> DEFINE v == a.balance + s[1]
           w == a.tokens + s[2]
           y == a.insurance + p[1] + p[2] + s[3]
           z == a.debtToInsurance - p[1] - p[2]
           b == [a EXCEPT !.balance = v]
           c == [b EXCEPT !.tokens = w]
           d == [c EXCEPT !.insurance = y]
           e == [d EXCEPT !.debtToInsurance = z]
<1>5. v \in Nat /\ w \in Nat /\ w >= a.tokens /\ y \in Nat /\ z \in Int
  BY <1>3, <1>4 DEF Accounts
<1>6. h.acc = [a EXCEPT !.balance = v, !.tokens = w, !.insurance = y, !.debtToInsurance = z]
      /\ h.paidDebt = p[1] + p[2]
  BY <1>2
<1> HIDE DEF v, w, y, z
<1>7. h.acc = e
  BY <1>6
<1>8. b \in Accounts /\ b.tokens = a.tokens /\ b.locked = a.locked /\ b.invested = a.invested
  BY <1>5 DEF Accounts
<1> HIDE DEF b
<1>9. c \in Accounts /\ c.tokens = w /\ c.locked = a.locked /\ c.invested = a.invested
  BY <1>5, <1>8 DEF Accounts
<1> HIDE DEF c
<1>10. d \in Accounts /\ d.tokens = w /\ d.locked = a.locked /\ d.invested = a.invested
  BY <1>5, <1>9 DEF Accounts
<1> HIDE DEF d
<1>11. e \in Accounts /\ e.tokens = w /\ e.locked = a.locked /\ e.invested = a.invested
  BY <1>5, <1>10 DEF Accounts
<1> HIDE DEF e
<1>12. Real(e) >= Real(a)
  BY <1>5, <1>11 DEF Real, Accounts
<1> QED
  BY <1>3, <1>6, <1>7, <1>11, <1>12 DEF Honest

LEMMA HardWorkKeeps ==
  ASSUME TypeOK, NEW r \in Nat, NEW t \in Nat, HardWork(r, t)
  PROVE  Keeps
<1> DEFINE f == FixPriceChanges(acc)
           priceProfit == EarnedByPrices(acc)
<1>1. f \in Accounts /\ Fresh(f) /\ priceProfit \in Nat
  BY FixPriceChangesType, RealType DEF TypeOK
<1>2. PICK h \in HandleRewards(f, r, t) :
        LET invested == Real(h.acc)
            balance == h.acc.balance
            amount == IF invested # 0 /\ balance > (ReinvestPercent * invested) \div Denominator
                      THEN balance ELSE 0
            before == f.invested + balance
        IN  \E d \in DepositToPoolUniversal(h.acc, amount, priceProfit, invested) :
              LET after == d.acc.invested + d.acc.balance + d.sent
                  earned == Sub0(Sub0(after, before) + r + t, h.paidDebt)
              IN  Done(CoverPossibleStrategyLoss(d.acc, Sub0(Sub0(before, after), earned)), d.unsent)
  BY DEF HardWork
<1> HIDE DEF f, priceProfit
<1>3. h.acc \in Accounts /\ h.paidDebt \in Nat /\ Fresh(h.acc)
  BY <1>1, HandleRewardsType, HonestKeepsFresh
<1> DEFINE invested == Real(h.acc)
           balance == h.acc.balance
           amount == IF invested # 0 /\ balance > (ReinvestPercent * invested) \div Denominator
                     THEN balance ELSE 0
           before == f.invested + balance
<1>4. PICK d \in DepositToPoolUniversal(h.acc, amount, priceProfit, invested) :
        LET after == d.acc.invested + d.acc.balance + d.sent
            earned == Sub0(Sub0(after, before) + r + t, h.paidDebt)
        IN  Done(CoverPossibleStrategyLoss(d.acc, Sub0(Sub0(before, after), earned)), d.unsent)
  BY <1>2
<1>5. invested \in Nat /\ amount \in Nat /\ before \in Nat
  BY <1>1, <1>3, RealType DEF Accounts
<1> HIDE DEF invested, amount, before
<1>6. GoodResult(h.acc, d)
  BY <1>1, <1>3, <1>5, DepositToPoolUniversalType
<1>7. d.acc \in Accounts /\ d.unsent \in Nat /\ d.sent \in Nat /\ Fresh(d.acc)
  BY <1>3, <1>6, HonestKeepsFresh DEF GoodResult
<1> DEFINE after == d.acc.invested + d.acc.balance + d.sent
           earned == Sub0(Sub0(after, before) + r + t, h.paidDebt)
           loss == Sub0(Sub0(before, after), earned)
           c == CoverPossibleStrategyLoss(d.acc, loss)
<1>8. after \in Nat
  BY <1>7 DEF Accounts
<1>9. Done(c, d.unsent)
  BY <1>4
<1> HIDE DEF after
<1>10. Sub0(after, before) \in Nat /\ Sub0(before, after) \in Nat
  BY <1>5, <1>8 DEF Sub0
<1>11. earned \in Nat
  BY <1>3, <1>10 DEF Sub0
<1> HIDE DEF earned
<1>12. loss \in Nat
  BY <1>10, <1>11 DEF Sub0
<1> HIDE DEF loss
<1>13. c \in Accounts /\ Fresh(c)
  BY <1>7, <1>12, CoverKeeps
<1> HIDE DEF c
<1> QED
  BY <1>7, <1>9, <1>13, DoneKeeps

\* Leaving the pool ends with a new count of what is there.
LEMMA ReleaseKeeps ==
  ASSUME NEW a \in Accounts, NEW loss \in Nat, NEW x \in Released(a, loss),
         Done(UpdateInvestedAssets(x), 0)
  PROVE  Keeps
<1> DEFINE u == UpdateInvestedAssets(x)
<1>1. u \in Accounts /\ Fresh(u)
  BY ReleasedType, UpdateType
<1> HIDE DEF u
<1>2. Done(u, 0)
  BY DEF u
<1> QED
  BY <1>1, <1>2, DoneKeeps

LEMMA EmergencyExitKeeps ==
  ASSUME TypeOK, EmergencyExit
  PROVE  Keeps
BY ReleaseKeeps DEF EmergencyExit, TypeOK

LEMMA RebalanceNotNeededKeeps ==
  ASSUME TypeOK, RebalanceNotNeeded
  PROVE  Keeps
<1>1. FixPriceChanges(acc) \in Accounts
  BY FixPriceChangesType DEF TypeOK
<1> QED
  BY <1>1, ReleaseKeeps DEF RebalanceNotNeeded

LEMMA OnTransferAmountsKeeps ==
  ASSUME TypeOK, OnTransferAmounts
  PROVE  Keeps
BY EnvironmentAssumption, ReleaseKeeps DEF OnTransferAmounts, TypeOK

\* The total before the work is what is there less the profit, a natural number.
LEMMA OldTotalType ==
  ASSUME NEW a \in Accounts
  PROVE  LET f == FixPriceChanges(a)
             earned == EarnedByPrices(a)
         IN  earned \in Nat /\ earned <= f.invested /\ OldTotalAssets(f, earned) \in Nat
<1> DEFINE f == FixPriceChanges(a)
           earned == EarnedByPrices(a)
<1>1. f \in Accounts /\ SameValue(a, f) /\ f.invested = Real(f)
  BY FixPriceChangesType
<1>2. Real(a) \in Nat /\ earned \in Nat /\ earned <= Real(a)
  BY RealType DEF EarnedByPrices, Sub0, Accounts
<1> HIDE DEF f, earned
<1>3. f.invested = Real(a)
  BY <1>1 DEF SameValue, Real
<1>4. OldTotalAssets(f, earned) \in Nat
  BY <1>1, <1>2, <1>3 DEF OldTotalAssets, Accounts
<1> QED
  BY <1>2, <1>3, <1>4 DEF f, earned

LEMMA WorkType ==
  ASSUME NEW f \in Accounts, NEW earned \in Nat, NEW oldTotal \in Nat,
         NEW r \in Work(f, earned, oldTotal)
  PROVE  r.acc \in Accounts /\ r.unsent \in Nat
<1> DEFINE p(x) == SendToInsurance(x, earned, oldTotal)
           lost(x) == Sub0(oldTotal, Worth(p(x)))
           settled(x) == CoverLossAndCheckResults(p(x), lost(x), lost(x))
           sent(x) == Sent(x, earned, oldTotal)
           balances == 0..(Worth(f) + MaxGain)
           worths == WorthWithin(f, MaxLoss, MaxGain)
<1>1. PICK x \in Moved(f, balances, {0}, worths) : r = Result(settled(x), 0, sent(x), earned - sent(x))
  BY DEF Work
<1>2. worths \in SUBSET Nat /\ balances \in SUBSET Nat
  <2>1. MaxLoss \in Nat /\ MaxGain \in Nat
    BY EnvironmentAssumption
  <2> QED
    BY <2>1, RealType, WorthWithinType
<1> HIDE DEF balances, worths
<1>3. x \in Accounts
  BY <1>1, <1>2, MovedType
<1>4. p(x) \in Accounts
  BY <1>3, SendToInsuranceType
<1>5. sent(x) \in Nat /\ sent(x) <= earned
  BY <1>3, SentType
<1> HIDE DEF p, sent
<1>6. Worth(p(x)) \in Nat
  BY <1>4, RealType
<1>7. lost(x) \in Nat
  BY <1>6 DEF Sub0
<1> HIDE DEF lost
<1>8. settled(x) \in Accounts
  BY <1>4, <1>7, CoverLossAndCheckResultsType
<1> HIDE DEF settled
<1>9. earned - sent(x) \in Nat
  BY <1>5
<1> QED
  BY <1>1, <1>8, <1>9, ResultFields

LEMMA RebalanceAfterType ==
  ASSUME NEW a \in Accounts, NEW x \in RebalanceAfter(a)
  PROVE  x \in Accounts /\ Fresh(x)
<1> DEFINE balances == 0..a.balance
           tokens == 0..Worth(a)
           worths == {Worth(a)}
<1>1. /\ balances \in SUBSET Nat
      /\ tokens \in SUBSET Nat
      /\ worths \in SUBSET Nat
  BY RealType DEF Accounts
<1>2. PICK y \in Moved(a, balances, tokens, worths) : x = UpdateInvestedAssets(y)
  BY DEF RebalanceAfter
<1> HIDE DEF balances, tokens, worths
<1>3. y \in Accounts
  BY <1>1, <1>2, MovedType
<1> QED
  BY <1>2, <1>3, UpdateType

LEMMA RebalanceNoSwapsKeeps ==
  ASSUME TypeOK, RebalanceNoSwaps
  PROVE  Keeps
<1> DEFINE f == FixPriceChanges(acc)
           earned == EarnedByPrices(acc)
           oldTotal == OldTotalAssets(f, earned)
<1>1. f \in Accounts /\ earned \in Nat /\ oldTotal \in Nat
  BY FixPriceChangesType, OldTotalType DEF TypeOK
<1>2. PICK r \in Work(f, earned, oldTotal) : \E x \in RebalanceAfter(r.acc) : Done(x, r.unsent)
  BY DEF RebalanceNoSwaps
<1> HIDE DEF f, earned, oldTotal
<1>3. r.acc \in Accounts /\ r.unsent \in Nat
  BY <1>1, WorkType
<1>4. PICK x \in RebalanceAfter(r.acc) : Done(x, r.unsent)
  BY <1>2
<1>5. x \in Accounts /\ Fresh(x)
  BY <1>3, RebalanceAfterType
<1> QED
  BY <1>3, <1>4, <1>5, DoneKeeps

\* The cache is only ever lowered to the old total.
LEMMA FixTooHighType ==
  ASSUME NEW a \in Accounts, Fresh(a), NEW oldTotal \in Nat
  PROVE  LET x == FixTooHighInvestedAssets(a, oldTotal) IN x \in Accounts /\ Fresh(x)
<1> DEFINE n == oldTotal - a.balance
           b == [a EXCEPT !.invested = n]
<1>1. CASE oldTotal < a.invested + a.balance /\ oldTotal > a.balance
  <2>1. n \in Nat /\ n <= a.invested
    BY <1>1 DEF Accounts
  <2>2. FixTooHighInvestedAssets(a, oldTotal) = b
    BY <1>1 DEF FixTooHighInvestedAssets
  <2> HIDE DEF n
  <2>3. b \in Accounts /\ b.tokens = a.tokens /\ b.locked = a.locked /\ b.invested = n
    BY <2>1 DEF Accounts
  <2> HIDE DEF b
  <2>4. Real(b) = Real(a) /\ Real(a) \in Nat /\ a.invested \in Nat
    BY <2>3, RealType DEF Real, Accounts
  <2>5. Fresh(b)
    BY <2>1, <2>3, <2>4 DEF Fresh
  <2> QED
    BY <2>2, <2>3, <2>5
<1>2. CASE ~(oldTotal < a.invested + a.balance /\ oldTotal > a.balance)
  BY <1>2 DEF FixTooHighInvestedAssets
<1> QED
  BY <1>1, <1>2

LEMMA WithdrawByAggStepKeeps ==
  ASSUME TypeOK, WithdrawByAggStep
  PROVE  Keeps
<1> DEFINE f == FixPriceChanges(acc)
           earned == EarnedByPrices(acc)
           oldTotal == OldTotalAssets(f, earned)
<1>1. f \in Accounts /\ earned \in Nat /\ oldTotal \in Nat
  BY FixPriceChangesType, OldTotalType DEF TypeOK
<1>2. PICK r \in Work(f, earned, oldTotal) :
        \E x \in RebalanceAfter(r.acc) : Done(FixTooHighInvestedAssets(x, oldTotal), r.unsent)
  BY DEF WithdrawByAggStep
<1> HIDE DEF f, earned, oldTotal
<1>3. r.acc \in Accounts /\ r.unsent \in Nat
  BY <1>1, WorkType
<1>4. PICK x \in RebalanceAfter(r.acc) : Done(FixTooHighInvestedAssets(x, oldTotal), r.unsent)
  BY <1>2
<1>5. x \in Accounts /\ Fresh(x)
  BY <1>3, RebalanceAfterType
<1> DEFINE y == FixTooHighInvestedAssets(x, oldTotal)
<1>6. y \in Accounts /\ Fresh(y)
  BY <1>1, <1>5, FixTooHighType
<1>7. Done(y, r.unsent)
  BY <1>4
<1> HIDE DEF y
<1> QED
  BY <1>3, <1>6, <1>7, DoneKeeps

\* The amount with its gap is at least the amount.
LEMMA PlusGapBound ==
  ASSUME NEW n \in Nat
  PROVE  PlusGap(n) \in Nat /\ n <= PlusGap(n)
<1> DEFINE z == n * (Denominator + Gap)
           q == z \div Denominator
<1>1. Denominator \in Nat \ {0} /\ Gap \in Nat
  BY RatioAssumption
<1>2. n * Gap \in Nat /\ n * Denominator \in Nat
  BY <1>1, MulNat
<1>3. z = n * Denominator + n * Gap
  BY <1>1
<1>4. z \in Nat /\ n * Denominator <= z
  BY <1>2, <1>3
<1> HIDE DEF z
<1>5. q \in Nat /\ z < q * Denominator + Denominator
  BY <1>1, <1>4
<1> HIDE DEF q
<1>6. ~(q < n)
  <2> SUFFICES ASSUME q < n PROVE FALSE
    OBVIOUS
  <2>1. q + 1 <= n
    BY <1>5
  <2>2. (n - (q + 1)) * Denominator \in Nat
    BY <1>1, <1>5, <2>1, MulNat
  <2>3. (n - (q + 1)) * Denominator = n * Denominator - (q * Denominator + Denominator)
    BY <1>1, <1>5
  <2>4. q * Denominator \in Nat
    BY <1>1, <1>5, MulNat
  <2> QED
    BY <1>1, <1>2, <1>4, <1>5, <2>2, <2>3, <2>4
<1>7. PlusGap(n) = q
  BY DEF PlusGap, q, z
<1> QED
  BY <1>5, <1>6, <1>7

\* What a call keeps that promises n of what is on balance, and has the gap for it.
LEMMA PromiseKeeps ==
  ASSUME NEW x \in Accounts, NEW left \in Nat, NEW asset \in Assets, NEW n \in Nat,
         PlusGap(n) <= x[asset],
         Ends(UpdateInvestedAssets(x), left, [asset |-> asset, amount |-> n])
  PROVE  Keeps
<1> DEFINE u == UpdateInvestedAssets(x)
           promised == [asset |-> asset, amount |-> n]
<1>1. u \in Accounts /\ SameValue(x, u) /\ Fresh(u) /\ EarnedByPrices(u) = 0
  BY UpdateType
<1> HIDE DEF u
<1>2. acc' = u /\ unsent' = left /\ promise' = promised
  BY DEF Ends, u
<1>3. promised \in [asset : Assets, amount : Nat] /\ promised.asset = asset /\ promised.amount = n
  OBVIOUS
<1> HIDE DEF promised
<1>4. u[asset] = x[asset]
  BY <1>1 DEF SameValue, Assets
<1>5. TypeOK'
  BY <1>1, <1>2, <1>3 DEF TypeOK
<1>6. EarnedByPrices(acc)' = 0
  <2>1. EarnedByPrices(acc)' = EarnedByPrices(acc')
    BY DEF EarnedByPrices, Real, Sub0
  <2> QED
    BY <1>1, <1>2, <2>1
<1>7. PlusGap(promise.amount)' = PlusGap(n)
  BY <1>2, <1>3 DEF PlusGap
<1>8. PromiseCanBePaid'
  BY <1>2, <1>3, <1>4, <1>6, <1>7 DEF PromiseCanBePaid
<1>9. Fresh(acc')
  BY <1>1, <1>2
<1> QED
  BY <1>5, <1>8, <1>9 DEF Keeps

LEMMA RequirePayAmountBackKeeps ==
  ASSUME TypeOK, NEW asset \in Assets, NEW amount \in Nat, RequirePayAmountBack(asset, amount)
  PROVE  Keeps
<1> DEFINE f == FixPriceChanges(acc)
           earned == EarnedByPrices(acc)
           total == f.invested + f.balance
           p == SendToInsurance(f, earned, total)
           sent == Sent(f, earned, total)
           left == earned - sent
           paid == [p EXCEPT ![asset] = @ - amount, !.transit = @ + amount]
           available == p[asset] >= PlusGap(amount)
<1>1. \/ available /\ Done(UpdateInvestedAssets(paid), left)
      \/ Ends(UpdateInvestedAssets(p), left, [asset |-> asset, amount |-> WithoutGap(p[asset])])
      \/ \E x \in MakeRequestedAmount(p, asset) :
           Ends(UpdateInvestedAssets(x), left,
                [asset |-> asset,
                 amount |-> IF x[asset] > PlusGap(amount) THEN amount ELSE WithoutGap(x[asset])])
  BY DEF RequirePayAmountBack
<1>2. f \in Accounts /\ earned \in Nat
  BY FixPriceChangesType, RealType DEF TypeOK
<1>3. total \in Nat
  BY <1>2 DEF Accounts
<1> HIDE DEF f, earned, total
<1>4. p \in Accounts /\ sent \in Nat /\ sent <= earned
  BY <1>2, <1>3, SendToInsuranceType, SentType
<1> HIDE DEF p, sent
<1>5. left \in Nat
  BY <1>2, <1>4
<1> HIDE DEF left
<1>6. \A a \in Accounts : a[asset] \in Nat
  BY DEF Assets, Accounts
<1>7. CASE available /\ Done(UpdateInvestedAssets(paid), left)
  <2> DEFINE u == UpdateInvestedAssets(paid)
             m == p[asset] - amount
             n == p.transit + amount
             b == [p EXCEPT ![asset] = m]
  <2>1. amount <= p[asset] /\ p[asset] \in Nat
    <3>1. PlusGap(amount) \in Nat /\ amount <= PlusGap(amount)
      BY PlusGapBound
    <3>2. p[asset] \in Nat
      BY <1>4, <1>6
    <3>3. p[asset] >= PlusGap(amount)
      BY <1>7
    <3> HIDE DEF available
    <3> QED
      BY <3>1, <3>2, <3>3
  <2>2. m \in Nat /\ n \in Nat
    BY <1>4, <2>1 DEF Accounts
  <2>3. paid = [b EXCEPT !.transit = n]
    BY <1>4 DEF Assets, Accounts
  <2> HIDE DEF m, n, paid
  <2>4. b \in Accounts
    <3>1. CASE asset = "balance"
      BY <1>4, <2>2, <3>1 DEF Accounts
    <3>2. CASE asset = "tokens"
      BY <1>4, <2>2, <3>2 DEF Accounts
    <3> QED
      BY <3>1, <3>2 DEF Assets
  <2> HIDE DEF b
  <2>5. paid \in Accounts
    BY <2>2, <2>3, <2>4 DEF Accounts
  <2>6. u \in Accounts /\ Fresh(u)
    BY <2>5, UpdateType
  <2>7. Done(u, left)
    BY <1>7
  <2> HIDE DEF u
  <2> QED
    BY <1>5, <2>6, <2>7, DoneKeeps
<1> HIDE DEF available
<1>8. CASE Ends(UpdateInvestedAssets(p), left, [asset |-> asset, amount |-> WithoutGap(p[asset])])
  BY <1>4, <1>5, <1>6, <1>8, GapFits, PromiseKeeps
<1>9. CASE \E x \in MakeRequestedAmount(p, asset) :
             Ends(UpdateInvestedAssets(x), left,
                  [asset |-> asset,
                   amount |-> IF x[asset] > PlusGap(amount) THEN amount ELSE WithoutGap(x[asset])])
  <2>1. PICK x \in MakeRequestedAmount(p, asset) :
          Ends(UpdateInvestedAssets(x), left,
               [asset |-> asset,
                amount |-> IF x[asset] > PlusGap(amount) THEN amount ELSE WithoutGap(x[asset])])
    BY <1>9
  <2> DEFINE n == IF x[asset] > PlusGap(amount) THEN amount ELSE WithoutGap(x[asset])
  <2>2. x \in Accounts /\ x[asset] \in Nat
    BY <1>4, <1>6, MakeRequestedAmountType
  <2>3. n \in Nat /\ PlusGap(n) <= x[asset]
    BY <2>2, GapFits, PlusGapBound
  <2>4. Ends(UpdateInvestedAssets(x), left, [asset |-> asset, amount |-> n])
    BY <2>1
  <2> HIDE DEF n
  <2> QED
    BY <1>5, <2>2, <2>3, <2>4, PromiseKeeps
<1> QED
  BY <1>1, <1>7, <1>8, <1>9

LEMMA ConverterRepaysKeeps ==
  ASSUME TypeOK, ConverterRepays
  PROVE  Keeps
<1> DEFINE x == acc.locked + acc.transit
           a == [acc EXCEPT !.locked = x, !.transit = 0]
<1>1. acc \in Accounts
  BY DEF TypeOK
<1>2. x \in Nat
  BY <1>1 DEF Accounts
<1>3. Done(a, 0)
  BY DEF ConverterRepays
<1> HIDE DEF x
<1>4. a \in Accounts /\ a.invested = acc.invested
  BY <1>1, <1>2 DEF Accounts
<1> HIDE DEF a
<1> QED
  BY <1>3, <1>4, DoneKeeps

LEMMA MarketMoveKeeps ==
  ASSUME TypeOK, MarketMove
  PROVE  Keeps
<1>1. acc \in Accounts
  BY DEF TypeOK
<1>2. PICK n \in 0..MaxTotal : Done([acc EXCEPT !.locked = n], 0)
  BY DEF MarketMove
<1> DEFINE a == [acc EXCEPT !.locked = n]
<1>3. a \in Accounts /\ a.invested = acc.invested
  BY <1>1 DEF Accounts
<1> HIDE DEF a
<1>4. Done(a, 0)
  BY <1>2 DEF a
<1> QED
  BY <1>3, <1>4, DoneKeeps

LEMMA AccrueKeeps ==
  ASSUME TypeOK, Accrue
  PROVE  Keeps
<1>1. acc \in Accounts
  BY DEF TypeOK
<1>2. PICK d \in {-1, 1} :
        /\ acc.locked > 0
        /\ Done([acc EXCEPT !.locked = @ - d, !.increase = @ + d], 0)
  BY DEF Accrue
<1> DEFINE x == acc.locked - d
           y == acc.increase + d
           a == [acc EXCEPT !.locked = x, !.increase = y]
<1>3. x \in Nat /\ y \in Int
  BY <1>1, <1>2 DEF Accounts
<1>4. Done(a, 0)
  BY <1>2
<1> HIDE DEF x, y
<1>5. a \in Accounts /\ a.invested = acc.invested
  BY <1>1, <1>3 DEF Accounts
<1> HIDE DEF a
<1> QED
  BY <1>4, <1>5, DoneKeeps

(***************************************************************************)
(* The theorems                                                            *)
(***************************************************************************)
LEMMA InitTypeOK == Init => TypeOK /\ PromiseCanBePaid
<1> SUFFICES ASSUME Init PROVE TypeOK /\ PromiseCanBePaid
  OBVIOUS
<1>1. InitVault \in Nat /\ InitInsurance \in Nat
  BY EnvironmentAssumption
<1>2. acc \in Accounts /\ unsent \in Nat
  BY <1>1 DEF Init, Accounts
<1>3. promise \in [asset : Assets, amount : Nat] /\ promise.amount = 0
  BY DEF Init, NoPromise, Assets
<1> QED
  BY <1>2, <1>3 DEF TypeOK, PromiseCanBePaid

LEMMA NextKeeps ==
  ASSUME TypeOK, Next
  PROVE  Keeps
<1>1. CASE SplitterCall
  <2>1. acc.vault \in Nat /\ MaxReward \in Nat
    BY EnvironmentAssumption DEF TypeOK, Accounts
  <2>2. CASE \E n \in 0..acc.vault, update \in BOOLEAN : DepositToPool(n, update)
    BY <2>1, <2>2, DepositToPoolKeeps
  <2>3. CASE \E n \in 1..acc.vault : DepositWhileFuseOn(n)
    BY <2>1, <2>3, DepositWhileFuseOnKeeps
  <2>4. CASE WithdrawFromPool
    BY <2>4, WithdrawFromPoolKeeps
  <2>5. CASE \E r, t \in 0..MaxReward : HardWork(r, t)
    BY <2>1, <2>5, HardWorkKeeps
  <2>6. CASE EmergencyExit
    BY <2>6, EmergencyExitKeeps
  <2> QED
    BY <1>1, <2>2, <2>3, <2>4, <2>5, <2>6 DEF SplitterCall
<1>2. CASE OperatorCall
  BY <1>2, RebalanceNoSwapsKeeps, RebalanceNotNeededKeeps, WithdrawByAggStepKeeps DEF OperatorCall
<1>3. CASE ConverterCall
  <2>1. Requests \cup {promise.amount} \subseteq Nat
    BY EnvironmentAssumption DEF TypeOK
  <2>2. CASE \E asset \in Assets, n \in Requests \cup {promise.amount} : RequirePayAmountBack(asset, n)
    BY <2>1, <2>2, RequirePayAmountBackKeeps
  <2> QED
    BY <1>3, <2>2, OnTransferAmountsKeeps DEF ConverterCall
<1> QED
  BY <1>1, <1>2, <1>3, ConverterRepaysKeeps, MarketMoveKeeps, AccrueKeeps DEF Next

LEMMA StutterKeeps ==
  ASSUME TypeOK, PromiseCanBePaid, UNCHANGED vars
  PROVE  Keeps
BY DEF vars, TypeOK, PromiseCanBePaid, EarnedByPrices, Real, PlusGap, Keeps

\* Every amount stays in its domain: no call of any interleaving makes a balance,
\* the cache of invested assets or what is reported as unsent negative.
THEOREM TypeCorrect == Spec => []TypeOK
<1>1. Init => TypeOK
  BY InitTypeOK
<1>2. TypeOK /\ [Next]_vars => TypeOK'
  <2>1. TypeOK /\ Next => TypeOK'
    BY NextKeeps DEF Keeps
  <2>2. TypeOK /\ UNCHANGED vars => TypeOK'
    BY DEF vars, TypeOK
  <2> QED
    BY <2>1, <2>2
<1> QED
  BY <1>1, <1>2, PTL DEF Spec

\* What requirePayAmountBack returns after sending nothing can be claimed by the
\* next call, whatever the gap, the cap, and what the swaps lost.
THEOREM PromiseKept == Spec => []PromiseCanBePaid
<1>1. Init => TypeOK /\ PromiseCanBePaid
  BY InitTypeOK
<1>2. TypeOK /\ PromiseCanBePaid /\ [Next]_vars => TypeOK' /\ PromiseCanBePaid'
  BY NextKeeps, StutterKeeps DEF Keeps
<1> QED
  BY <1>1, <1>2, PTL DEF Spec

\* No call writes a value of investedAssets above what is really there.
THEOREM CacheHonest == Spec => CacheNotOverstated
<1>1. TypeOK /\ [Next]_vars => [acc'.invested # acc.invested => acc'.invested <= Real(acc')]_vars
  BY NextKeeps DEF Keeps, Fresh
<1> QED
  BY <1>1, TypeCorrect, PTL DEF Spec, CacheNotOverstated

(***************************************************************************)
(* The share price.  Report: what the shares of the vault are worth by the *)
(* accounts of a state between two parts of a call.                        *)
(***************************************************************************)
Report(a) == a.vault + a.balance + a.invested

\* A product divided by a factor is the other one.
LEMMA ExactDivision ==
  ASSUME NEW x \in Nat \ {0}, NEW y \in Nat
  PROVE  (x * y) \div x = y
<1> DEFINE q == (x * y) \div x
<1>1. x * y \in Nat /\ x * y = y * x
  BY MulNat
<1>2. q \in Nat /\ q <= y
  BY <1>1, DivNat, DivBound
<1>3. x * y < (q + 1) * x
  BY <1>1, <1>2
<1> HIDE DEF q
<1>4. ~(q < y)
  <2> SUFFICES ASSUME q < y PROVE FALSE
    OBVIOUS
  <2>1. (y - (q + 1)) * x \in Nat
    BY <1>2, MulNat
  <2>2. (y - (q + 1)) * x = y * x - (q + 1) * x
    BY <1>2
  <2>3. (q + 1) * x \in Nat /\ y * x \in Nat
    BY <1>2, MulNat
  <2> QED
    BY <1>1, <1>3, <2>1, <2>2, <2>3
<1> QED
  BY <1>2, <1>4 DEF q

\* Moving value touches neither the vault, the insurance nor the debt to it.
LEMMA MovedBooks ==
  ASSUME NEW a \in Accounts, NEW balances \in SUBSET Nat, NEW tokens \in SUBSET Nat,
         NEW worths \in SUBSET Nat, NEW x \in Moved(a, balances, tokens, worths)
  PROVE  /\ x.vault = a.vault /\ x.debtToInsurance = a.debtToInsurance
         /\ Worth(x) \in worths
<1>1. PICK y \in balances \X tokens \X worths :
        /\ y[1] + y[2] <= y[3]
        /\ x = [a EXCEPT !.balance = y[1], !.tokens = y[2], !.locked = y[3] - y[1] - y[2]]
  BY DEF Moved
<1> DEFINE p == y[1]
           q == y[2]
           l == y[3] - y[1] - y[2]
           b == [a EXCEPT !.balance = p]
           c == [b EXCEPT !.tokens = q]
<1>2. y[3] \in worths /\ p \in Nat /\ q \in Nat /\ l \in Int /\ p + (l + q) = y[3]
  BY <1>1
<1>3. x = [c EXCEPT !.locked = l]
  BY <1>1
<1> HIDE DEF p, q, l
<1>4. b.balance = p /\ b.vault = a.vault /\ b.debtToInsurance = a.debtToInsurance /\ DOMAIN b = DOMAIN a
  BY DEF Accounts
<1> HIDE DEF b
<1>5. c.balance = p /\ c.tokens = q /\ c.vault = a.vault /\ c.debtToInsurance = a.debtToInsurance
      /\ DOMAIN c = DOMAIN a
  BY <1>4 DEF Accounts
<1> HIDE DEF c
<1>6. x.balance = p /\ x.tokens = q /\ x.locked = l
      /\ x.vault = a.vault /\ x.debtToInsurance = a.debtToInsurance
  BY <1>3, <1>5 DEF Accounts
<1>7. Worth(x) = y[3]
  BY <1>2, <1>6 DEF Worth, Real
<1> QED
  BY <1>2, <1>6, <1>7

\* The new count touches neither the vault, the balance nor the debt to the insurance.
LEMMA UpdateBooks ==
  ASSUME NEW a \in Accounts
  PROVE  LET u == UpdateInvestedAssets(a)
         IN  /\ u.vault = a.vault /\ u.debtToInsurance = a.debtToInsurance
             /\ u.balance + u.invested = Worth(a) /\ Worth(u) = Worth(a)
<1> DEFINE x == Real(a)
           u == UpdateInvestedAssets(a)
           b == [a EXCEPT !.invested = x]
<1>1. u = [b EXCEPT !.increase = 0]
  BY DEF UpdateInvestedAssets
<1>2. u.balance = a.balance /\ u.tokens = a.tokens /\ u.locked = a.locked /\ u.invested = x
      /\ Worth(a) = a.balance + x
  BY UpdateType, RealType DEF SameValue
<1> HIDE DEF x
<1>3. b.vault = a.vault /\ b.debtToInsurance = a.debtToInsurance /\ DOMAIN b = DOMAIN a
  BY DEF Accounts
<1> HIDE DEF b
<1>4. u.vault = a.vault /\ u.debtToInsurance = a.debtToInsurance
  BY <1>1, <1>3 DEF Accounts
<1> HIDE DEF u
<1>5. Worth(u) = Worth(a)
  BY <1>2 DEF Worth, Real
<1> QED
  BY <1>2, <1>4, <1>5 DEF u

\* What is sent leaves the balance, and nothing else of the report changes.
LEMMA SendBooks ==
  ASSUME NEW a \in Accounts, NEW amount \in Nat, NEW total \in Nat
  PROVE  LET p == SendToInsurance(a, amount, total)
         IN  /\ p.vault = a.vault /\ p.debtToInsurance = a.debtToInsurance
             /\ p.invested = a.invested /\ p.balance = a.balance - Sent(a, amount, total)
             /\ Real(p) = Real(a) /\ Worth(p) = Worth(a) - Sent(a, amount, total)
<1> DEFINE sent == Sent(a, amount, total)
           x == a.balance - sent
           y == a.insurance + sent
           b == [a EXCEPT !.balance = x]
           p == SendToInsurance(a, amount, total)
<1>1. p = [b EXCEPT !.insurance = y]
  BY DEF SendToInsurance
<1>2. p.tokens = a.tokens /\ p.locked = a.locked /\ p.invested = a.invested
  BY SendToInsuranceType
<1>3. sent \in Nat /\ a.balance \in Nat /\ Real(a) \in Nat /\ Worth(a) = a.balance + Real(a)
  BY SentType, RealType DEF Accounts
<1>4. x = a.balance - sent
  OBVIOUS
<1> HIDE DEF sent, x, y
<1>5. b.balance = x /\ b.vault = a.vault /\ b.debtToInsurance = a.debtToInsurance /\ DOMAIN b = DOMAIN a
  BY DEF Accounts
<1> HIDE DEF b
<1>6. p.balance = x /\ p.vault = a.vault /\ p.debtToInsurance = a.debtToInsurance
  BY <1>1, <1>5 DEF Accounts
<1> HIDE DEF p
<1>7. Real(p) = Real(a)
  BY <1>2 DEF Real
<1>8. Worth(p) = p.balance + Real(p)
  BY DEF Worth
<1> QED
  BY <1>2, <1>3, <1>4, <1>6, <1>7, <1>8 DEF p, sent

\* The vault receives what is covered of a loss.
LEMMA CoverBooks ==
  ASSUME NEW a \in Accounts, NEW loss \in Nat
  PROVE  LET c == CoverPossibleStrategyLoss(a, loss)
         IN  /\ Covered(a, loss) \in Nat /\ Covered(a, loss) <= loss
             /\ c.vault = a.vault + Covered(a, loss)
             /\ c.balance = a.balance /\ c.invested = a.invested
             /\ c.debtToInsurance = a.debtToInsurance /\ Worth(c) = Worth(a)
<1> DEFINE n == Covered(a, loss)
           x == a.insurance - n
           y == a.vault + n
           b == [a EXCEPT !.insurance = x]
           c == CoverPossibleStrategyLoss(a, loss)
<1>1. n \in Nat /\ n <= loss
  BY DEF Covered, MinOf, Accounts
<1>2. c = [b EXCEPT !.vault = y]
  BY DEF CoverPossibleStrategyLoss
<1>3. c.balance = a.balance /\ c.tokens = a.tokens /\ c.locked = a.locked /\ c.invested = a.invested
  BY CoverType DEF SameValue
<1> HIDE DEF n, x, y
<1>4. b.debtToInsurance = a.debtToInsurance /\ DOMAIN b = DOMAIN a
  BY DEF Accounts
<1> HIDE DEF b
<1>5. c.vault = y /\ c.debtToInsurance = a.debtToInsurance
  BY <1>2, <1>4 DEF Accounts
<1> HIDE DEF c
<1>6. Worth(c) = Worth(a)
  BY <1>3 DEF Worth, Real
<1> QED
  BY <1>1, <1>3, <1>5, <1>6 DEF c, n, y

\* What the insurance pays raises the debt to it by its share of the increase.
LEMMA CoverLossBooks ==
  ASSUME NEW a \in Accounts, NEW loss \in Nat, NEW inc \in Int
  PROVE  LET c == CoverLossAndCheckResults(a, loss, inc)
         IN  /\ Covered(a, loss) \in Nat /\ Covered(a, loss) <= loss
             /\ c.vault = a.vault + Covered(a, loss)
             /\ c.balance = a.balance /\ c.invested = a.invested /\ Worth(c) = Worth(a)
             /\ c.debtToInsurance = a.debtToInsurance
                  + IF loss = 0 THEN 0 ELSE DivInt(inc * Covered(a, loss), loss)
<1> DEFINE d == IF loss = 0 THEN 0 ELSE DivInt(inc * Covered(a, loss), loss)
           b == CoverPossibleStrategyLoss(a, loss)
           y == b.debtToInsurance + d
           c == CoverLossAndCheckResults(a, loss, inc)
<1>1. /\ Covered(a, loss) \in Nat /\ Covered(a, loss) <= loss
      /\ b.vault = a.vault + Covered(a, loss)
      /\ b.balance = a.balance /\ b.invested = a.invested
      /\ b.debtToInsurance = a.debtToInsurance
  BY CoverBooks
<1>2. c = [b EXCEPT !.debtToInsurance = y]
  BY DEF CoverLossAndCheckResults
<1>3. b \in Accounts
  BY CoverType
<1>4. SameValue(a, c)
  BY CoverLossAndCheckResultsType
<1>5. y = a.debtToInsurance + d
  BY <1>1
<1> HIDE DEF b, d, y
<1>6. c.vault = b.vault /\ c.balance = b.balance /\ c.invested = b.invested /\ c.debtToInsurance = y
  BY <1>2, <1>3 DEF Accounts
<1> HIDE DEF c
<1>7. Worth(c) = Worth(a)
  BY <1>4 DEF Worth, Real, SameValue
<1> QED
  BY <1>1, <1>5, <1>6, <1>7 DEF c, d

\* A share of at most the whole, rounded toward zero, is at most the whole, if that is no
\* less than nothing.
LEMMA ShareBound ==
  ASSUME NEW inc \in Int, NEW part \in Nat, NEW whole \in Nat \ {0}, part <= whole
  PROVE  /\ DivInt(inc * part, whole) \in Int
         /\ inc > 0 => DivInt(inc * part, whole) <= inc
         /\ inc <= 0 => DivInt(inc * part, whole) <= 0
<1> DEFINE n == inc * part
<1>1. n \in Int
  BY MulInt
<1>2. DivInt(n, whole) \in Int
  BY <1>1, DivIntType
<1>3. CASE inc > 0
  <2>1. inc \in Nat /\ n \in Nat
    BY <1>3, MulNat
  <2>2. inc * (whole - part) \in Nat /\ inc * whole \in Nat
    BY <2>1, MulNat
  <2>3. inc * (whole - part) = inc * whole - n
    BY <2>1
  <2>4. n <= inc * whole
    BY <2>1, <2>2, <2>3
  <2> HIDE DEF n
  <2>5. n \div whole <= inc
    BY <2>1, <2>4, DivBound
  <2>6. DivInt(n, whole) <= inc
    BY <2>1, <2>5 DEF DivInt
  <2> QED
    BY <1>2, <1>3, <2>6 DEF n
<1>4. CASE inc <= 0
  <2>1. -inc \in Nat
    BY <1>4
  <2>2. (-inc) * part \in Nat
    BY <2>1, MulNat
  <2>3. (-inc) * part = -n
    OBVIOUS
  <2>4. -n \in Nat
    BY <2>2, <2>3
  <2> HIDE DEF n
  <2>5. (-n) \div whole \in Nat
    BY <2>4, DivNat
  <2>6. DivInt(n, whole) <= 0
    <3>1. CASE n = 0
      BY <3>1 DEF DivInt
    <3>2. CASE n # 0
      <4>1. ~(n >= 0)
        BY <1>1, <2>4, <3>2
      <4> QED
        BY <2>5, <4>1 DEF DivInt
    <3> QED
      BY <3>1, <3>2
  <2> QED
    BY <1>2, <1>4, <2>6 DEF n
<1> QED
  BY <1>3, <1>4

\* New prices: the report gets at most what they earned, and no more is added to the
\* debt than what the vault receives and the interest.
LEMMA FixBooks ==
  ASSUME NEW a \in Accounts
  PROVE  LET f == FixPriceChanges(a)
         IN  /\ EarnedByPrices(a) <= f.invested
             /\ f.balance = a.balance
             /\ Report(f) <= Report(a) + EarnedByPrices(a)
             /\ f.vault >= a.vault
             /\ f.debtToInsurance - a.debtToInsurance
                  <= (f.vault - a.vault) + (IF a.increase > 0 THEN a.increase ELSE 0)
<1> DEFINE fixed == UpdateInvestedAssets(a)
           lost == Sub0(a.invested, Real(a))
           toCover == Capped(lost, Worth(a))
           inc == DivInt(a.increase * toCover, lost)
           f == FixPriceChanges(a)
           e == EarnedByPrices(a)
<1>1. fixed \in Accounts /\ fixed.vault = a.vault /\ fixed.debtToInsurance = a.debtToInsurance
  BY UpdateType, UpdateBooks
<1>2. fixed.balance = a.balance /\ fixed.invested = Real(a)
  BY UpdateType DEF SameValue
<1>3. Real(a) \in Nat /\ Worth(a) \in Nat /\ a.invested \in Nat /\ a.increase \in Int
      /\ a.vault \in Nat /\ a.balance \in Nat /\ a.debtToInsurance \in Int
  BY RealType DEF Accounts
<1>4. /\ lost \in Nat /\ e \in Nat /\ (e > 0 => lost = 0)
      /\ e <= Real(a) /\ Real(a) = a.invested + e - lost
  BY <1>3 DEF Sub0, EarnedByPrices
<1>5. f.invested = Real(a) /\ f.balance = a.balance
  <2>1. SameValue(a, f) /\ f.invested = Real(f)
    BY FixPriceChangesType
  <2> QED
    BY <2>1 DEF SameValue, Real
<1>6. toCover \in Nat /\ toCover <= lost
  BY <1>3, <1>4, CappedType
<1> HIDE DEF fixed, lost, toCover
<1>7. CASE e > 0
  <2>1. f = [fixed EXCEPT !.debtToInsurance = @ + a.increase]
    BY <1>7 DEF FixPriceChanges, fixed
  <2>2. f.vault = a.vault /\ f.debtToInsurance = a.debtToInsurance + a.increase
    BY <1>1, <2>1 DEF Accounts
  <2> HIDE DEF f, e
  <2> QED
    BY <1>3, <1>4, <1>5, <1>7, <2>2 DEF Report, f, e
<1>8. CASE ~(e > 0) /\ lost # 0
  <2>1. inc \in Int /\ (a.increase > 0 => inc <= a.increase) /\ (a.increase <= 0 => inc <= 0)
    BY <1>3, <1>4, <1>6, <1>8, ShareBound
  <2> HIDE DEF inc
  <2> DEFINE n == Covered(fixed, toCover)
             d == IF toCover = 0 THEN 0 ELSE DivInt(inc * n, toCover)
  <2>2. f = CoverLossAndCheckResults(fixed, toCover, inc)
    BY <1>8 DEF FixPriceChanges, fixed, lost, toCover, inc
  <2> DEFINE c == CoverLossAndCheckResults(fixed, toCover, inc)
  <2>11. n \in Nat /\ n <= toCover /\ c.vault = fixed.vault + n
        /\ c.debtToInsurance = fixed.debtToInsurance + d
    BY <1>1, <1>6, <2>1, CoverLossBooks
  <2> HIDE DEF n, d, c, f
  <2>3. n \in Nat /\ n <= toCover /\ f.vault = fixed.vault + n
        /\ f.debtToInsurance = fixed.debtToInsurance + d
    BY <2>2, <2>11 DEF c
  <2>4. d \in Int /\ (inc > 0 => d <= inc) /\ (inc <= 0 => d <= 0)
    <3>1. CASE toCover = 0
      BY <2>1, <3>1 DEF d
    <3>2. CASE toCover # 0
      <4>1. toCover \in Nat \ {0}
        BY <1>6, <3>2
      <4>2. /\ DivInt(inc * n, toCover) \in Int
            /\ inc > 0 => DivInt(inc * n, toCover) <= inc
            /\ inc <= 0 => DivInt(inc * n, toCover) <= 0
        BY <2>1, <2>3, <4>1, ShareBound
      <4> QED
        BY <3>2, <4>2 DEF d
    <3> QED
      BY <3>1, <3>2
  <2> HIDE DEF e
  <2>5. EarnedByPrices(a) = 0
    BY <1>4, <1>8 DEF e
  <2>6. Report(f) <= Report(a)
    BY <1>1, <1>3, <1>4, <1>5, <1>6, <2>3, <2>5 DEF Report, e
  <2>7. f.debtToInsurance - a.debtToInsurance
          <= (f.vault - a.vault) + (IF a.increase > 0 THEN a.increase ELSE 0)
    BY <1>1, <1>3, <2>1, <2>3, <2>4
  <2>8. f.vault >= a.vault /\ Report(a) \in Int
    BY <1>1, <1>3, <2>3 DEF Report
  <2>9. f.vault \in Nat /\ Report(f) \in Int
    BY <1>1, <1>3, <1>5, <2>3 DEF Report
  <2> QED
    BY <1>3, <1>5, <2>5, <2>6, <2>7, <2>8, <2>9 DEF f
<1>9. CASE ~(e > 0) /\ lost = 0
  <2>1. f = fixed
    BY <1>9 DEF FixPriceChanges, fixed, lost
  <2>2. EarnedByPrices(a) = 0 /\ f.vault = a.vault /\ f.debtToInsurance = a.debtToInsurance
        /\ f.invested = a.invested
    BY <1>1, <1>3, <1>4, <1>5, <1>9, <2>1
  <2> HIDE DEF f, e
  <2> QED
    BY <1>3, <1>5, <2>2 DEF Report, f
<1> QED
  BY <1>7, <1>8, <1>9

\* The swaps that make an amount leave the vault and the debt alone.
LEMMA MakeRequestedAmountBooks ==
  ASSUME NEW a \in Accounts, NEW asset \in Assets, NEW x \in MakeRequestedAmount(a, asset)
  PROVE  x.vault = a.vault /\ x.debtToInsurance = a.debtToInsurance
         /\ Worth(x) \in Nat /\ Worth(x) >= Worth(a) - MaxLoss
<1> DEFINE most == Worth(a) + MaxGain
           least == [y \in Assets |-> IF y = asset THEN Sub0(a[y], MaxLoss) ELSE 0]
           balances == least["balance"]..most
           tokens == least["tokens"]..most
           worths == WorthWithin(a, MaxLoss, MaxGain)
<1>1. MaxLoss \in Nat /\ MaxGain \in Nat
  BY EnvironmentAssumption
<1>2. worths \in SUBSET Nat
  BY <1>1, WorthWithinType
<1>3. a["balance"] \in Nat /\ a["tokens"] \in Nat /\ Worth(a) \in Nat
  BY RealType DEF Accounts
<1>4. least["balance"] \in Nat /\ least["tokens"] \in Nat
  BY <1>1, <1>3 DEF Assets, Sub0
<1>5. x \in Moved(a, balances, tokens, worths)
  BY DEF MakeRequestedAmount
<1> HIDE DEF least
<1>6. balances \in SUBSET Nat /\ tokens \in SUBSET Nat
  BY <1>1, <1>3, <1>4
<1>7. \A w \in worths : w \in Nat /\ w >= Worth(a) - MaxLoss
  BY <1>1, <1>3 DEF WorthWithin, Sub0
<1> HIDE DEF balances, tokens, worths
<1>8. x.vault = a.vault /\ x.debtToInsurance = a.debtToInsurance /\ Worth(x) \in worths
  BY <1>2, <1>5, <1>6, MovedBooks
<1> QED
  BY <1>7, <1>8

\* Entering the pool never makes anything worth more.
LEMMA EnterBooks ==
  ASSUME NEW a \in Accounts, NEW amount \in Nat, NEW x \in Enter(a, amount)
  PROVE  x.vault = a.vault /\ x.balance + x.invested <= Worth(a)
<1> DEFINE from == Sub0(a.balance, amount)..Worth(a)
           worths == WorthWithin(a, MaxLoss, 0)
           tokens == 0..Worth(a)
<1>1. MaxLoss \in Nat
  BY EnvironmentAssumption
<1>2. worths \in SUBSET Nat
  BY <1>1, WorthWithinType
<1>3. from \in SUBSET Nat /\ tokens \in SUBSET Nat
  BY RealType DEF Accounts, Sub0
<1>4. PICK y \in Moved(a, from, tokens, worths) : x = UpdateInvestedAssets(y)
  BY DEF Enter
<1>5. \A w \in worths : w <= Worth(a)
  BY <1>1, RealType DEF WorthWithin, Sub0
<1> HIDE DEF from, tokens, worths
<1>6. y \in Accounts /\ y.vault = a.vault /\ Worth(y) \in worths
  BY <1>2, <1>3, <1>4, MovedType, MovedBooks
<1>7. x.vault = y.vault /\ x.balance + x.invested = Worth(y)
  BY <1>4, <1>6, UpdateBooks
<1> QED
  BY <1>5, <1>6, <1>7

\* Nothing is sent of nothing.
LEMMA NothingSent ==
  ASSUME NEW a \in Accounts, NEW total \in Nat
  PROVE  Sent(a, 0, total) = 0
<1>1. Sent(a, 0, total) \in Nat /\ Sent(a, 0, total) <= 0
  BY SentType
<1> QED
  BY <1>1

\* A withdraw ends on the old total less what the prices earned, but for what is unsent,
\* or below it; a: after the withdraw.
LEMMA CalculateIncomeReport ==
  ASSUME NEW a \in Accounts, NEW invested \in Nat, NEW balanceBefore \in Nat,
         NEW earned \in Nat, earned <= invested
  PROVE  LET r == CalculateIncomeAfterWithdraw(a, invested, balanceBefore, earned)
             total == invested + balanceBefore
         IN  /\ r.acc \in Accounts /\ r.loss \in Nat /\ r.sent \in Nat /\ r.unsent \in Nat
             /\ r.acc.vault = a.vault
             /\ r.acc.invested + r.acc.balance + r.sent = a.invested + a.balance
             /\ r.acc.invested + r.acc.balance + r.loss = total - earned + r.unsent
             /\ r.loss > 0 => r.sent = 0
<1> DEFINE total == invested + balanceBefore
           before == Sub0(total, earned)
           now == a.invested + a.balance
           profit == Sub0(now, before)
           loss == Sub0(before, now)
           sent == Sent(a, profit, total)
           p == SendToInsurance(a, profit, total)
           r == CalculateIncomeAfterWithdraw(a, invested, balanceBefore, earned)
<1>1. total \in Nat /\ before = total - earned /\ before \in Nat /\ now \in Nat
  BY DEF Sub0, Accounts
<1>2. profit \in Nat /\ loss \in Nat /\ (loss > 0 => profit = 0) /\ before = now - profit + loss
  BY <1>1 DEF Sub0
<1>3. r = Result(p, loss, sent, profit - sent)
  BY DEF CalculateIncomeAfterWithdraw
<1>4. now = a.invested + a.balance /\ a.invested \in Nat /\ a.balance \in Nat
  BY DEF Accounts
<1> HIDE DEF total, before, now, profit, loss, r
<1>5. sent \in Nat /\ sent <= profit /\ (profit = 0 => sent = 0)
  BY <1>1, <1>2, SentType
<1>6. /\ p \in Accounts /\ p.vault = a.vault
      /\ p.invested = a.invested /\ p.balance = a.balance - sent
  BY <1>1, <1>2, SendToInsuranceType, SendBooks
<1> HIDE DEF sent, p
<1>7. r.acc = p /\ r.loss = loss /\ r.sent = sent /\ r.unsent = profit - sent
  BY <1>3, ResultFields
<1>8. r.unsent \in Nat
  BY <1>2, <1>5, <1>7
<1>9. r.acc.invested + r.acc.balance + r.sent = a.invested + a.balance
  BY <1>4, <1>5, <1>6, <1>7
<1>10. r.acc.invested + r.acc.balance + r.loss = total - earned + r.unsent
  <2>1. r.acc.invested + r.acc.balance = now - sent
    BY <1>4, <1>5, <1>6, <1>7
  <2>2. now - sent + loss = before + (profit - sent)
    BY <1>1, <1>2, <1>5
  <2> QED
    BY <1>1, <1>2, <1>5, <1>7, <2>1, <2>2
<1> QED
  BY <1>2, <1>5, <1>6, <1>7, <1>8, <1>9, <1>10 DEF r, total

\* Accounts with fixed prices, of which earned is their profit
Fixed(f, earned) == f \in Accounts /\ f.invested = Real(f) /\ earned \in Nat /\ earned <= f.invested

\* Withdrawn(f, r, earned): what the report is after a withdraw with the result r
Withdrawn(f, r, earned) ==
  /\ r.acc.invested + r.acc.balance + r.loss <= f.invested + f.balance - earned + r.unsent
  /\ r.acc.invested + r.acc.balance + r.sent >= f.invested + f.balance - MaxLoss

GoodBooks(f, r) ==
  /\ r.acc \in Accounts /\ r.loss \in Nat /\ r.sent \in Nat /\ r.unsent \in Nat
  /\ r.acc.vault = f.vault

LEMMA WithdrawUniversalBooks ==
  ASSUME NEW f, NEW amount \in Nat, NEW earned, Fixed(f, earned),
         NEW r \in WithdrawUniversal(f, amount, earned, f.invested)
  PROVE  GoodBooks(f, r) /\ Withdrawn(f, r, earned)
<1>1. f \in Accounts /\ f.balance \in Nat /\ f.invested \in Nat /\ f.invested = Real(f)
      /\ earned \in Nat /\ earned <= f.invested /\ MaxLoss \in Nat
  BY EnvironmentAssumption DEF Accounts, Fixed
<1>2. CASE amount + earned # 0 /\ f.invested # 0
  <2>1. PICK x \in MakeRequestedAmount(f, "balance") :
          r = CalculateIncomeAfterWithdraw(UpdateInvestedAssets(x), f.invested, f.balance, earned)
    BY <1>2 DEF WithdrawUniversal
  <2>2. x \in Accounts /\ x.vault = f.vault /\ Worth(x) \in Nat /\ Worth(x) >= Worth(f) - MaxLoss
    BY <1>1, MakeRequestedAmountType, MakeRequestedAmountBooks DEF Assets
  <2>3. Worth(f) = f.balance + f.invested
    BY <1>1, RealType
  <2> DEFINE u == UpdateInvestedAssets(x)
  <2>4. u \in Accounts /\ u.vault = f.vault /\ u.balance + u.invested = Worth(x)
    BY <2>2, UpdateType, UpdateBooks
  <2> DEFINE i == f.invested
             b == f.balance
             d == CalculateIncomeAfterWithdraw(u, i, b, earned)
  <2>5. r = d
    BY <2>1
  <2> HIDE DEF u
  <2>8. /\ d.acc \in Accounts /\ d.loss \in Nat /\ d.sent \in Nat /\ d.unsent \in Nat
        /\ d.acc.vault = u.vault
        /\ d.acc.invested + d.acc.balance + d.sent = u.invested + u.balance
        /\ d.acc.invested + d.acc.balance + d.loss = i + b - earned + d.unsent
    <3>1. i \in Nat /\ b \in Nat /\ earned \in Nat /\ earned <= i /\ u \in Accounts
      BY <1>1, <2>4
    <3> HIDE DEF i, b
    <3> QED
      BY <3>1, CalculateIncomeReport
  <2> HIDE DEF d, i, b
  <2>6. /\ r.acc \in Accounts /\ r.loss \in Nat /\ r.sent \in Nat /\ r.unsent \in Nat
        /\ r.acc.vault = u.vault
        /\ r.acc.invested + r.acc.balance + r.sent = u.invested + u.balance
        /\ r.acc.invested + r.acc.balance + r.loss = f.invested + f.balance - earned + r.unsent
    BY <2>5, <2>8 DEF i, b
  <2>7. u.invested \in Nat /\ u.balance \in Nat /\ r.acc.invested \in Nat /\ r.acc.balance \in Nat
    BY <2>4, <2>6 DEF Accounts
  <2> QED
    BY <1>1, <2>2, <2>3, <2>4, <2>6, <2>7 DEF GoodBooks, Withdrawn
<1>3. CASE ~(amount + earned # 0 /\ f.invested # 0)
  <2>1. r = Result(f, 0, 0, 0)
    BY <1>3 DEF WithdrawUniversal
  <2>2. earned = 0
    BY <1>1, <1>3
  <2>3. r.acc = f /\ r.loss = 0 /\ r.sent = 0 /\ r.unsent = 0
    BY <2>1, ResultFields
  <2> QED
    BY <1>1, <2>2, <2>3 DEF GoodBooks, Withdrawn
<1> QED
  BY <1>2, <1>3

\* Deposited(f, r, earned): what the report is after a deposit with the result r that
\* did not have to withdraw
Deposited(f, r, earned) ==
  /\ r.acc.invested + r.acc.balance + r.sent + r.loss = f.invested + f.balance
  /\ earned - r.sent <= r.unsent + LiquidationThreshold

LEMMA DepositToPoolUniversalBooks ==
  ASSUME NEW f, NEW amount \in Nat, NEW earned, Fixed(f, earned),
         NEW r \in DepositToPoolUniversal(f, amount, earned, f.invested)
  PROVE  GoodBooks(f, r) /\ (Withdrawn(f, r, earned) \/ Deposited(f, r, earned))
<1> DEFINE toDeposit == Sub0(amount, earned)
           total == f.invested + f.balance
           profit == earned > LiquidationThreshold
           sent == IF profit THEN Sent(f, earned, total) ELSE 0
           left == IF profit THEN earned - sent ELSE 0
           paid == IF profit THEN SendToInsurance(f, earned, total) ELSE f
           loss(x) == Sub0(total, x.invested + x.balance + sent)
<1>1. f \in Accounts /\ f.balance \in Nat /\ f.invested \in Nat /\ f.invested = Real(f)
      /\ earned \in Nat /\ LiquidationThreshold \in Nat
  BY RatioAssumption DEF Accounts, Fixed
<1>2. toDeposit \in Nat /\ total \in Nat /\ Worth(f) = total
  BY <1>1, RealType DEF Sub0
<1>3. \/ \E x \in Enter(paid, toDeposit) : r = Result(x, loss(x), sent, left)
      \/ r \in WithdrawUniversal(f, 0, earned, f.invested)
      \/ r = Result(paid, 0, sent, left)
  BY DEF DepositToPoolUniversal
<1>4. /\ sent \in Nat /\ left \in Nat /\ earned - sent <= left + LiquidationThreshold
      /\ paid \in Accounts /\ paid.vault = f.vault /\ Worth(paid) = total - sent
      /\ paid.invested + paid.balance = total - sent
  <2>1. CASE profit
    <3> DEFINE s == Sent(f, earned, total)
               p == SendToInsurance(f, earned, total)
    <3>1. s \in Nat /\ s <= earned
      BY <1>1, <1>2, SentType
    <3> HIDE DEF total
    <3>4. p \in Accounts
      BY <1>1, <1>2, SendToInsuranceType
    <3>2. p.vault = f.vault /\ p.invested = f.invested
          /\ p.balance = f.balance - s /\ Worth(p) = Worth(f) - s
      BY <1>1, <1>2, SendBooks
    <3>3. sent = s /\ paid = p /\ left = earned - s
      BY <2>1
    <3> HIDE DEF s, p, sent, paid, left
    <3> QED
      BY <1>1, <1>2, <3>1, <3>2, <3>3, <3>4 DEF total
  <2>2. CASE ~profit
    <3>1. sent = 0 /\ left = 0 /\ paid = f /\ earned <= LiquidationThreshold
      BY <1>1, <2>2
    <3> HIDE DEF sent, left, paid
    <3> QED
      BY <1>1, <1>2, <3>1
  <2> QED
    BY <2>1, <2>2
<1>5. CASE \E x \in Enter(paid, toDeposit) : r = Result(x, loss(x), sent, left)
  <2>1. PICK x \in Enter(paid, toDeposit) : r = Result(x, loss(x), sent, left)
    BY <1>5
  <2> HIDE DEF toDeposit, sent, left, paid
  <2>2. x \in Accounts /\ x.vault = f.vault /\ x.balance + x.invested <= total - sent
    BY <1>2, <1>4, EnterType, EnterBooks
  <2>3. x.balance \in Nat /\ x.invested \in Nat
    BY <2>2 DEF Accounts
  <2> HIDE DEF total
  <2>4. x.invested + x.balance + sent <= total
    BY <1>2, <1>4, <2>2, <2>3
  <2>5. loss(x) = total - (x.invested + x.balance + sent) /\ loss(x) \in Nat
    BY <1>2, <1>4, <2>3, <2>4 DEF Sub0
  <2> HIDE DEF loss
  <2>6. r.acc = x /\ r.loss = loss(x) /\ r.sent = sent /\ r.unsent = left
    BY <2>1, ResultFields
  <2>7. GoodBooks(f, r)
    BY <1>4, <2>2, <2>5, <2>6 DEF GoodBooks
  <2>8. Deposited(f, r, earned)
    <3>1. x.invested + x.balance + sent + loss(x) = total
      BY <1>2, <1>4, <2>3, <2>5
    <3> QED
      BY <1>4, <2>6, <3>1 DEF Deposited, total
  <2> QED
    BY <2>7, <2>8
<1>6. CASE r \in WithdrawUniversal(f, 0, earned, f.invested)
  BY <1>6, WithdrawUniversalBooks
<1>7. CASE r = Result(paid, 0, sent, left)
  <2> HIDE DEF toDeposit, sent, left, paid
  <2>1. r.acc = paid /\ r.loss = 0 /\ r.sent = sent /\ r.unsent = left
    BY <1>7, ResultFields
  <2>2. paid.invested \in Nat /\ paid.balance \in Nat
    BY <1>4 DEF Accounts
  <2> HIDE DEF total
  <2>3. Deposited(f, r, earned)
    <3>1. paid.invested + paid.balance + sent = total
      BY <1>2, <1>4, <2>2
    <3> QED
      BY <1>2, <1>4, <2>1, <3>1 DEF Deposited, total
  <2> QED
    BY <1>4, <2>1, <2>3 DEF GoodBooks
<1> QED
  BY <1>3, <1>5, <1>6, <1>7

\* The splitter's cover of a loss raises the report by at most the loss.
LEMMA CoverReport ==
  ASSUME NEW a \in Accounts, NEW loss \in Nat
  PROVE  LET c == CoverPossibleStrategyLoss(a, loss)
         IN  /\ c \in Accounts
             /\ Report(c) \in Nat
             /\ Report(c) <= a.vault + a.balance + a.invested + loss
<1> DEFINE c == CoverPossibleStrategyLoss(a, loss)
<1>1. /\ c \in Accounts /\ Covered(a, loss) \in Nat /\ Covered(a, loss) <= loss
      /\ c.vault = a.vault + Covered(a, loss) /\ c.balance = a.balance /\ c.invested = a.invested
  BY CoverType, CoverBooks
<1>2. a.vault \in Nat /\ a.balance \in Nat /\ a.invested \in Nat
  BY DEF Accounts
<1> HIDE DEF c
<1>3. Report(c) \in Nat /\ Report(c) <= a.vault + a.balance + a.invested + loss
  BY <1>1, <1>2 DEF Report
<1> QED
  BY <1>1, <1>3 DEF c

\* After fixing the prices what they earned is there.
LEMMA FixIsFixed ==
  ASSUME NEW a \in Accounts
  PROVE  Fixed(FixPriceChanges(a), EarnedByPrices(a))
<1>1. FixPriceChanges(a) \in Accounts /\ FixPriceChanges(a).invested = Real(FixPriceChanges(a))
  BY FixPriceChangesType
<1>2. EarnedByPrices(a) \in Nat /\ EarnedByPrices(a) <= FixPriceChanges(a).invested
  BY RealType, FixBooks
<1> QED
  BY <1>1, <1>2 DEF Fixed

(***************************************************************************)
(* The calls of the splitter.  What a step leads to is stated of Holdings, *)
(* the report of the accounts.                                             *)
(***************************************************************************)
LEMMA HoldingsIsReport ==
  ASSUME NEW a \in Accounts, NEW left, Done(a, left), TypeOK
  PROVE  /\ acc' = a /\ unsent' = left
         /\ Holdings = Report(acc) /\ Holdings' = Report(a)
         /\ Holdings \in Nat
<1>1. acc' = a /\ unsent' = left
  BY DEF Done, Ends
<1>2. acc.vault \in Nat /\ acc.balance \in Nat /\ acc.invested \in Nat
  BY DEF TypeOK, Accounts
<1> QED
  BY <1>1, <1>2 DEF Holdings, Report

\* The loss that a withdraw returns brings the report back to the old one, but for what
\* is unsent.
LEMMA WithdrawnReport ==
  ASSUME NEW f, NEW earned, Fixed(f, earned), NEW r, GoodBooks(f, r), Withdrawn(f, r, earned),
         NEW loss \in Nat
  PROVE  LET c == CoverPossibleStrategyLoss(r.acc, loss)
         IN  /\ c \in Accounts /\ Report(c) \in Nat
             /\ Report(c) <= Report(f) - earned + r.unsent + loss - r.loss
<1> DEFINE c == CoverPossibleStrategyLoss(r.acc, loss)
<1>1. r.acc \in Accounts /\ r.loss \in Nat /\ r.unsent \in Nat /\ r.acc.vault = f.vault
  BY DEF GoodBooks
<1>2. c \in Accounts /\ Report(c) \in Nat /\ Report(c) <= r.acc.vault + r.acc.balance + r.acc.invested + loss
  BY <1>1, CoverReport
<1>3. /\ r.acc.vault \in Nat /\ r.acc.balance \in Nat /\ r.acc.invested \in Nat
      /\ f.vault \in Nat /\ f.balance \in Nat /\ f.invested \in Nat /\ earned \in Nat
  BY <1>1 DEF Accounts, Fixed
<1>4. r.acc.invested + r.acc.balance + r.loss <= f.invested + f.balance - earned + r.unsent
  BY DEF Withdrawn
<1> HIDE DEF c
<1>5. Report(c) <= Report(f) - earned + r.unsent + loss - r.loss
  BY <1>1, <1>2, <1>3, <1>4 DEF Report
<1> QED
  BY <1>2, <1>5 DEF c

\* So does the loss of a deposit, but for dust.
LEMMA DepositedReport ==
  ASSUME NEW f, NEW earned, Fixed(f, earned), NEW r, GoodBooks(f, r), Deposited(f, r, earned)
  PROVE  LET c == CoverPossibleStrategyLoss(r.acc, r.loss)
         IN  /\ c \in Accounts /\ Report(c) \in Nat
             /\ Report(c) <= Report(f) - earned + r.unsent + LiquidationThreshold
<1> DEFINE c == CoverPossibleStrategyLoss(r.acc, r.loss)
<1>1. /\ r.acc \in Accounts /\ r.loss \in Nat /\ r.unsent \in Nat /\ r.sent \in Nat
      /\ r.acc.vault = f.vault
  BY DEF GoodBooks
<1>2. c \in Accounts /\ Report(c) \in Nat
      /\ Report(c) <= r.acc.vault + r.acc.balance + r.acc.invested + r.loss
  BY <1>1, CoverReport
<1>3. /\ r.acc.vault \in Nat /\ r.acc.balance \in Nat /\ r.acc.invested \in Nat
      /\ f.vault \in Nat /\ f.balance \in Nat /\ f.invested \in Nat /\ earned \in Nat
      /\ LiquidationThreshold \in Nat
  BY <1>1, RatioAssumption DEF Accounts, Fixed
<1>4. /\ r.acc.invested + r.acc.balance + r.sent + r.loss = f.invested + f.balance
      /\ earned - r.sent <= r.unsent + LiquidationThreshold
  BY DEF Deposited
<1> HIDE DEF c
<1>5. Report(c) <= Report(f) - earned + r.unsent + LiquidationThreshold
  BY <1>1, <1>2, <1>3, <1>4 DEF Report
<1> QED
  BY <1>2, <1>5 DEF c

LEMMA WithdrawReport ==
  ASSUME TypeOK, WithdrawFromPool
  PROVE  Holdings' <= Holdings + unsent' /\ Holdings' \in Int
<1> DEFINE f == FixPriceChanges(acc)
           earned == EarnedByPrices(acc)
<1>1. acc \in Accounts
  BY DEF TypeOK
<1>2. Fixed(f, earned) /\ Report(f) <= Report(acc) + earned
  BY <1>1, FixIsFixed, FixBooks
<1>3. PICK r \in WithdrawUniversal(f, 1, earned, f.invested) :
        LET c == CoverPossibleStrategyLoss(r.acc, r.loss)
        IN  \E n \in 0..c.balance :
              Done([c EXCEPT !.balance = @ - n, !.vault = @ + n], r.unsent)
  BY DEF WithdrawFromPool
<1> HIDE DEF f, earned
<1> DEFINE c == CoverPossibleStrategyLoss(r.acc, r.loss)
<1>4. GoodBooks(f, r) /\ Withdrawn(f, r, earned)
  BY <1>2, <1>3, WithdrawUniversalBooks
<1>5. r.loss \in Nat /\ r.unsent \in Nat
  BY <1>4 DEF GoodBooks
<1>6. c \in Accounts /\ Report(c) \in Nat
      /\ Report(c) <= Report(f) - earned + r.unsent + r.loss - r.loss
  BY <1>2, <1>4, <1>5, WithdrawnReport
<1>7. PICK n \in 0..c.balance : Done([c EXCEPT !.balance = @ - n, !.vault = @ + n], r.unsent)
  BY <1>3
<1> HIDE DEF c
<1> DEFINE x == c.balance - n
           y == c.vault + n
           b == [c EXCEPT !.balance = x]
           d == [b EXCEPT !.vault = y]
<1>8. x \in Nat /\ y \in Nat /\ x + y = c.balance + c.vault /\ c.invested \in Nat
      /\ c.balance \in Nat /\ c.vault \in Nat
  BY <1>6, <1>7 DEF Accounts
<1>9. Done(d, r.unsent)
  BY <1>7
<1> HIDE DEF x, y
<1>10. b \in Accounts /\ b.balance = x /\ b.invested = c.invested
  BY <1>6, <1>8 DEF Accounts
<1> HIDE DEF b
<1>11. d \in Accounts /\ d.balance = x /\ d.vault = y /\ d.invested = c.invested
  BY <1>8, <1>10 DEF Accounts
<1> HIDE DEF d
<1>12. Report(d) = Report(c)
  BY <1>8, <1>11 DEF Report
<1>13. unsent' = r.unsent /\ Holdings = Report(acc) /\ Holdings' = Report(d) /\ Holdings \in Nat
  BY <1>9, <1>11, HoldingsIsReport
<1>14. earned \in Nat /\ Report(f) \in Nat
  BY <1>2 DEF Fixed, Report, Accounts
<1> QED
  BY <1>2, <1>5, <1>6, <1>12, <1>13, <1>14

LEMMA DepositReport ==
  ASSUME TypeOK, NEW amount \in Nat, DepositToPool(amount, TRUE)
  PROVE  Holdings' <= Holdings + unsent' + LiquidationThreshold /\ Holdings' \in Int
<1> DEFINE x == acc.vault - amount
           y == acc.balance + amount
           b == [acc EXCEPT !.vault = x]
           a == [b EXCEPT !.balance = y]
           f == FixPriceChanges(a)
           earned == EarnedByPrices(a)
<1>1. acc \in Accounts
  BY DEF TypeOK
<1>2. /\ amount <= acc.vault
      /\ \E r \in DepositToPoolUniversal(f, a.balance, earned, f.invested) :
           Done(CoverPossibleStrategyLoss(r.acc, r.loss), r.unsent)
  BY DEF DepositToPool
<1>3. x \in Nat /\ y \in Nat /\ x + y = acc.vault + acc.balance /\ acc.invested \in Nat
      /\ acc.vault \in Nat /\ acc.balance \in Nat
  BY <1>1, <1>2 DEF Accounts
<1> HIDE DEF x, y
<1>4. b \in Accounts /\ b.vault = x /\ b.invested = acc.invested
  BY <1>1, <1>3 DEF Accounts
<1> HIDE DEF b
<1>5. a \in Accounts /\ a.balance = y /\ a.vault = x /\ a.invested = acc.invested
  BY <1>3, <1>4 DEF Accounts
<1> HIDE DEF a
<1>6. Report(a) = Report(acc)
  BY <1>3, <1>5 DEF Report
<1>7. Fixed(f, earned) /\ Report(f) <= Report(a) + earned
  BY <1>5, FixIsFixed, FixBooks
<1> HIDE DEF f, earned
<1>8. PICK r \in DepositToPoolUniversal(f, a.balance, earned, f.invested) :
        Done(CoverPossibleStrategyLoss(r.acc, r.loss), r.unsent)
  BY <1>2
<1>9. GoodBooks(f, r) /\ (Withdrawn(f, r, earned) \/ Deposited(f, r, earned))
  BY <1>3, <1>5, <1>7, <1>8, DepositToPoolUniversalBooks
<1> DEFINE c == CoverPossibleStrategyLoss(r.acc, r.loss)
<1>10. r.loss \in Nat /\ r.unsent \in Nat /\ earned \in Nat /\ Report(f) \in Nat
       /\ LiquidationThreshold \in Nat
  BY <1>7, <1>9, RatioAssumption DEF GoodBooks, Fixed, Report, Accounts
<1>11. c \in Accounts /\ Report(c) \in Nat
       /\ Report(c) <= Report(f) - earned + r.unsent + LiquidationThreshold
  <2>1. CASE Withdrawn(f, r, earned)
    <3>1. c \in Accounts /\ Report(c) \in Nat
          /\ Report(c) <= Report(f) - earned + r.unsent + r.loss - r.loss
      BY <1>7, <1>9, <1>10, <2>1, WithdrawnReport
    <3> HIDE DEF c
    <3> QED
      BY <1>10, <3>1
  <2>2. CASE Deposited(f, r, earned)
    BY <1>7, <1>9, <2>2, DepositedReport
  <2> QED
    BY <1>9, <2>1, <2>2
<1>12. Done(c, r.unsent)
  BY <1>8
<1> HIDE DEF c
<1>13. unsent' = r.unsent /\ Holdings = Report(acc) /\ Holdings' = Report(c) /\ Holdings \in Nat
  BY <1>11, <1>12, HoldingsIsReport
<1> QED
  BY <1>6, <1>7, <1>10, <1>11, <1>13

\* Without rewards nothing is paid and nothing is shared.
LEMMA NoRewards ==
  ASSUME NEW a \in Accounts, NEW h \in HandleRewards(a, 0, 0)
  PROVE  /\ h.acc \in Accounts /\ h.paidDebt = 0
         /\ h.acc.vault = a.vault /\ h.acc.invested = a.invested /\ SameValue(a, h.acc)
<1>1. PICK p \in Payments(a.debtToInsurance, 0, 0) : \E s \in Shares(0 - p[1], 0 - p[2]) :
        h = [acc |-> [a EXCEPT !.balance = @ + s[1], !.tokens = @ + s[2],
                               !.insurance = @ + p[1] + p[2] + s[3],
                               !.debtToInsurance = @ - p[1] - p[2]],
             paidDebt |-> p[1] + p[2]]
  <2>1. PICK x \in UNION {{p} \X Shares(0 - p[1], 0 - p[2]) : p \in Payments(a.debtToInsurance, 0, 0)} :
          h = [acc |-> [a EXCEPT !.balance = @ + x[2][1], !.tokens = @ + x[2][2],
                                 !.insurance = @ + x[1][1] + x[1][2] + x[2][3],
                                 !.debtToInsurance = @ - x[1][1] - x[1][2]],
               paidDebt |-> x[1][1] + x[1][2]]
    BY DEF HandleRewards
  <2>2. PICK p \in Payments(a.debtToInsurance, 0, 0) : x \in {p} \X Shares(0 - p[1], 0 - p[2])
    BY <2>1
  <2>3. x[1] = p /\ x[2] \in Shares(0 - p[1], 0 - p[2])
    BY <2>2
  <2> QED
    BY <2>1, <2>3
<1>2. PICK s \in Shares(0 - p[1], 0 - p[2]) :
        h = [acc |-> [a EXCEPT !.balance = @ + s[1], !.tokens = @ + s[2],
                               !.insurance = @ + p[1] + p[2] + s[3],
                               !.debtToInsurance = @ - p[1] - p[2]],
             paidDebt |-> p[1] + p[2]]
  BY <1>1
<1>3. p[1] = 0 /\ p[2] = 0
  BY DEF Payments
<1>4. s[1] = 0 /\ s[2] = 0
  BY <1>3 DEF Shares
<1>5. h.acc \in Accounts /\ h.acc.invested = a.invested
  BY HandleRewardsType
<1> DEFINE v == a.balance + s[1]
           w == a.tokens + s[2]
           y == a.insurance + p[1] + p[2] + s[3]
           z == a.debtToInsurance - p[1] - p[2]
           b == [a EXCEPT !.balance = v]
           c == [b EXCEPT !.tokens = w]
           d == [c EXCEPT !.insurance = y]
           e == [d EXCEPT !.debtToInsurance = z]
<1>6. v = a.balance /\ w = a.tokens
  BY <1>4 DEF Accounts
<1>7. h.acc = [a EXCEPT !.balance = v, !.tokens = w, !.insurance = y, !.debtToInsurance = z]
      /\ h.paidDebt = 0
  BY <1>2, <1>3
<1> HIDE DEF v, w, y, z
<1>8. h.acc = e
  BY <1>7
<1>9. b.balance = v /\ b.tokens = a.tokens /\ b.locked = a.locked /\ b.vault = a.vault /\ DOMAIN b = DOMAIN a
  BY DEF Accounts
<1> HIDE DEF b
<1>10. c.balance = v /\ c.tokens = w /\ c.locked = a.locked /\ c.vault = a.vault /\ DOMAIN c = DOMAIN a
  BY <1>9 DEF Accounts
<1> HIDE DEF c
<1>11. d.balance = v /\ d.tokens = w /\ d.locked = a.locked /\ d.vault = a.vault /\ DOMAIN d = DOMAIN a
  BY <1>10 DEF Accounts
<1> HIDE DEF d
<1>12. e.balance = v /\ e.tokens = w /\ e.locked = a.locked /\ e.vault = a.vault
  BY <1>11 DEF Accounts
<1> HIDE DEF e
<1> QED
  BY <1>5, <1>6, <1>7, <1>8, <1>12 DEF SameValue

LEMMA HardWorkReport ==
  ASSUME TypeOK, HardWork(0, 0)
  PROVE  Holdings' <= Holdings + unsent' + MaxOf(LiquidationThreshold, MaxLoss) /\ Holdings' \in Int
<1> DEFINE f == FixPriceChanges(acc)
           e == EarnedByPrices(acc)
<1>1. acc \in Accounts
  BY DEF TypeOK
<1>2. Fixed(f, e) /\ Report(f) <= Report(acc) + e
  BY <1>1, FixIsFixed, FixBooks
<1>3. PICK h \in HandleRewards(f, 0, 0) :
        LET invested == Real(h.acc)
            balance == h.acc.balance
            amount == IF invested # 0 /\ balance > (ReinvestPercent * invested) \div Denominator
                      THEN balance ELSE 0
            before == f.invested + balance
        IN  \E d \in DepositToPoolUniversal(h.acc, amount, e, invested) :
              LET after == d.acc.invested + d.acc.balance + d.sent
                  earned == Sub0(Sub0(after, before) + 0 + 0, h.paidDebt)
              IN  Done(CoverPossibleStrategyLoss(d.acc, Sub0(Sub0(before, after), earned)), d.unsent)
  BY DEF HardWork
<1> HIDE DEF f, e
<1> DEFINE g == h.acc
           invested == Real(g)
           balance == g.balance
           amount == IF invested # 0 /\ balance > (ReinvestPercent * invested) \div Denominator
                     THEN balance ELSE 0
           before == f.invested + balance
<1>4. /\ g \in Accounts /\ h.paidDebt = 0 /\ g.vault = f.vault /\ g.invested = f.invested
      /\ SameValue(f, g)
  BY <1>2, <1>3, NoRewards DEF Fixed
<1>5. PICK d \in DepositToPoolUniversal(g, amount, e, invested) :
        LET after == d.acc.invested + d.acc.balance + d.sent
            earned == Sub0(Sub0(after, before) + 0 + 0, h.paidDebt)
        IN  Done(CoverPossibleStrategyLoss(d.acc, Sub0(Sub0(before, after), earned)), d.unsent)
  BY <1>3
<1> HIDE DEF g
<1>6. Fixed(g, e) /\ invested = g.invested /\ Report(g) = Report(f) /\ before = g.invested + g.balance
  <2>1. Real(g) = Real(f) /\ g.balance = f.balance
    BY <1>4 DEF SameValue, Real
  <2> QED
    BY <1>2, <1>4, <2>1 DEF Fixed, Report
<1>7. amount \in Nat
  BY <1>4 DEF Accounts
<1> HIDE DEF amount, invested, before
<1>8. GoodBooks(g, d) /\ (Withdrawn(g, d, e) \/ Deposited(g, d, e))
  BY <1>5, <1>6, <1>7, DepositToPoolUniversalBooks
<1> DEFINE after == d.acc.invested + d.acc.balance + d.sent
           loss == Sub0(Sub0(before, after), Sub0(Sub0(after, before) + 0 + 0, h.paidDebt))
           c == CoverPossibleStrategyLoss(d.acc, loss)
<1>9. d.acc \in Accounts /\ d.loss \in Nat /\ d.unsent \in Nat /\ d.sent \in Nat
  BY <1>8 DEF GoodBooks
<1>10. /\ g.vault \in Nat /\ g.balance \in Nat /\ g.invested \in Nat /\ e \in Nat
       /\ d.acc.invested \in Nat /\ d.acc.balance \in Nat
  BY <1>4, <1>6, <1>9 DEF Fixed, Accounts
<1>11. after \in Nat /\ before \in Nat
  BY <1>6, <1>9, <1>10
<1>12. Done(c, d.unsent)
  BY <1>5
<1> HIDE DEF after
<1>13. loss = Sub0(before, after) /\ loss \in Nat
  BY <1>4, <1>11 DEF Sub0
<1> HIDE DEF loss
<1>14. LiquidationThreshold \in Nat /\ MaxLoss \in Nat /\ Report(g) \in Nat
  BY <1>10, RatioAssumption, EnvironmentAssumption DEF Report
<1> DEFINE most == MaxOf(LiquidationThreshold, MaxLoss)
<1>15. most \in Nat /\ most >= LiquidationThreshold /\ most >= MaxLoss
  BY <1>14 DEF MaxOf
<1> HIDE DEF most
<1>16. c \in Accounts /\ Report(c) \in Nat /\ Report(c) <= Report(g) - e + d.unsent + most
  <2>1. CASE Withdrawn(g, d, e)
    <3>1. c \in Accounts /\ Report(c) \in Nat
          /\ Report(c) <= Report(g) - e + d.unsent + loss - d.loss
      BY <1>6, <1>8, <1>13, <2>1, WithdrawnReport
    <3>2. after >= before - MaxLoss
      BY <1>6, <1>9, <1>10, <1>14, <2>1 DEF Withdrawn, after
    <3>3. loss <= MaxLoss
      BY <1>11, <1>13, <1>14, <3>2 DEF Sub0
    <3> HIDE DEF c
    <3> QED
      BY <1>9, <1>10, <1>13, <1>14, <1>15, <3>1, <3>3
  <2>2. CASE Deposited(g, d, e)
    <3>1. after + d.loss = before
      BY <1>6, <2>2 DEF Deposited, after
    <3>2. loss = d.loss
      BY <1>9, <1>11, <1>13, <3>1 DEF Sub0
    <3>3. c \in Accounts /\ Report(c) \in Nat
          /\ Report(c) <= Report(g) - e + d.unsent + LiquidationThreshold
      BY <1>6, <1>8, <2>2, <3>2, DepositedReport
    <3> HIDE DEF c
    <3> QED
      BY <1>9, <1>10, <1>14, <1>15, <3>3
  <2> QED
    BY <1>8, <2>1, <2>2
<1> HIDE DEF c
<1>17. unsent' = d.unsent /\ Holdings = Report(acc) /\ Holdings' = Report(c) /\ Holdings \in Nat
  BY <1>12, <1>16, HoldingsIsReport
<1>18. Holdings' <= Holdings + unsent' + most
  BY <1>2, <1>6, <1>9, <1>10, <1>14, <1>15, <1>16, <1>17
<1> QED
  BY <1>16, <1>17, <1>18 DEF most

(***************************************************************************)
(* The calls of the operator                                               *)
(***************************************************************************)
\* The work of an iteration ends with what is left of a loss covered, and adds to the debt
\* what the vault has received.
LEMMA WorkBooks ==
  ASSUME NEW f \in Accounts, NEW earned \in Nat, NEW oldTotal \in Nat,
         NEW r \in Work(f, earned, oldTotal)
  PROVE  /\ r.acc.vault >= f.vault /\ r.acc.vault \in Nat
         /\ r.acc.debtToInsurance - f.debtToInsurance = r.acc.vault - f.vault
         /\ r.acc.vault > f.vault => r.acc.vault + Worth(r.acc) <= f.vault + oldTotal
<1> DEFINE sent(x) == Sent(x, earned, oldTotal)
           p(x) == SendToInsurance(x, earned, oldTotal)
           lost(x) == Sub0(oldTotal, Worth(p(x)))
           settled(x) == CoverLossAndCheckResults(p(x), lost(x), lost(x))
           balances == 0..(Worth(f) + MaxGain)
           worths == WorthWithin(f, MaxLoss, MaxGain)
<1>1. PICK x \in Moved(f, balances, {0}, worths) :
        r = Result(settled(x), 0, sent(x), earned - sent(x))
  BY DEF Work
<1>2. worths \in SUBSET Nat
  BY EnvironmentAssumption, WorthWithinType
<1>3. balances \in SUBSET Nat
  BY EnvironmentAssumption, RealType
<1> HIDE DEF balances, worths
<1>4. x \in Accounts /\ x.vault = f.vault /\ x.debtToInsurance = f.debtToInsurance
  BY <1>1, <1>2, <1>3, MovedType, MovedBooks
<1> DEFINE q == p(x)
           loss == lost(x)
           c == CoverLossAndCheckResults(q, loss, loss)
           n == Covered(q, loss)
<1>5. q \in Accounts /\ q.vault = x.vault /\ q.debtToInsurance = x.debtToInsurance
  BY <1>4, SendToInsuranceType, SendBooks
<1>6. Worth(q) \in Nat
  BY <1>5, RealType
<1>7. loss \in Nat /\ (loss > 0 => loss = oldTotal - Worth(q))
  BY <1>6 DEF Sub0
<1>8. r.acc = c
  BY <1>1, ResultFields
<1> HIDE DEF p, sent, lost, settled, q, loss
<1>10. /\ n \in Nat /\ n <= loss /\ c.vault = q.vault + n /\ Worth(c) = Worth(q)
       /\ c.debtToInsurance = q.debtToInsurance + IF loss = 0 THEN 0 ELSE DivInt(loss * n, loss)
  <2>1. \A inc \in Int :
          LET d == CoverLossAndCheckResults(q, loss, inc)
          IN  /\ n \in Nat /\ n <= loss /\ d.vault = q.vault + n /\ Worth(d) = Worth(q)
              /\ d.debtToInsurance
                   = q.debtToInsurance + IF loss = 0 THEN 0 ELSE DivInt(inc * n, loss)
    BY <1>5, <1>7, CoverLossBooks
  <2>2. loss \in Int
    BY <1>7
  <2> HIDE DEF n
  <2> QED
    BY <2>1, <2>2
<1> HIDE DEF n, c
<1>11. (IF loss = 0 THEN 0 ELSE DivInt(loss * n, loss)) = n
  <2>1. CASE loss = 0
    BY <1>10, <2>1
  <2>2. CASE loss # 0
    <3>1. loss * n \in Nat
      BY <1>7, <1>10, MulNat
    <3>2. (loss * n) \div loss = n
      BY <1>7, <1>10, <2>2, ExactDivision
    <3> QED
      BY <2>2, <3>1, <3>2 DEF DivInt
  <2> QED
    BY <2>1, <2>2
<1>12. f.vault \in Nat /\ f.debtToInsurance \in Int
  BY DEF Accounts
<1> QED
  BY <1>4, <1>5, <1>6, <1>7, <1>8, <1>10, <1>11, <1>12

\* What _rebalanceAfter puts into the pool moves nothing else, and the report is what is there.
LEMMA RebalanceAfterBooks ==
  ASSUME NEW a \in Accounts, NEW x \in RebalanceAfter(a)
  PROVE  x.vault = a.vault /\ x.debtToInsurance = a.debtToInsurance
         /\ x.balance + x.invested = Worth(a)
<1> DEFINE balances == 0..a.balance
           tokens == 0..Worth(a)
           worths == {Worth(a)}
<1>1. /\ balances \in SUBSET Nat
      /\ tokens \in SUBSET Nat
      /\ worths \in SUBSET Nat
  BY RealType DEF Accounts
<1>2. PICK y \in Moved(a, balances, tokens, worths) : x = UpdateInvestedAssets(y)
  BY DEF RebalanceAfter
<1>3. \A w \in worths : w = Worth(a)
  OBVIOUS
<1> HIDE DEF balances, tokens, worths
<1>4. y \in Accounts /\ y.vault = a.vault /\ y.debtToInsurance = a.debtToInsurance
      /\ Worth(y) \in worths
  BY <1>1, <1>2, MovedType, MovedBooks
<1>5. x.vault = y.vault /\ x.debtToInsurance = y.debtToInsurance /\ x.balance + x.invested = Worth(y)
  BY <1>2, <1>4, UpdateBooks
<1> QED
  BY <1>3, <1>4, <1>5

\* Lowering the cache leaves all other books; the report ends on the old total at most, if
\* the balance alone is not worth that.
LEMMA FixTooHighBooks ==
  ASSUME NEW a \in Accounts, NEW oldTotal \in Nat
  PROVE  LET x == FixTooHighInvestedAssets(a, oldTotal)
         IN  /\ x.vault = a.vault /\ x.debtToInsurance = a.debtToInsurance
             /\ x.balance = a.balance /\ x.invested \in Nat
             /\ x.balance + x.invested <= a.balance + a.invested
             /\ x.balance < oldTotal => x.balance + x.invested <= oldTotal
<1> DEFINE n == oldTotal - a.balance
           b == [a EXCEPT !.invested = n]
           x == FixTooHighInvestedAssets(a, oldTotal)
<1>1. a.balance \in Nat /\ a.invested \in Nat
  BY DEF Accounts
<1>2. CASE oldTotal < a.invested + a.balance /\ oldTotal > a.balance
  <2>1. n \in Nat /\ n <= a.invested /\ a.balance + n = oldTotal
    BY <1>1, <1>2
  <2>2. x = b
    BY <1>2 DEF FixTooHighInvestedAssets
  <2> HIDE DEF n, x
  <2>3. b.vault = a.vault /\ b.debtToInsurance = a.debtToInsurance /\ b.balance = a.balance
        /\ b.invested = n
    BY DEF Accounts
  <2> HIDE DEF b
  <2> QED
    BY <1>1, <2>1, <2>2, <2>3 DEF x
<1>3. CASE ~(oldTotal < a.invested + a.balance /\ oldTotal > a.balance)
  <2>1. x = a
    BY <1>3 DEF FixTooHighInvestedAssets
  <2> HIDE DEF x
  <2> QED
    BY <1>1, <1>3, <2>1 DEF x
<1> QED
  BY <1>2, <1>3

LEMMA StepReport ==
  ASSUME TypeOK, WithdrawByAggStep,
         acc'.balance < OldTotalAssets(FixPriceChanges(acc), EarnedByPrices(acc))
  PROVE  Holdings' <= Holdings /\ Holdings' \in Int
<1> DEFINE f == FixPriceChanges(acc)
           earned == EarnedByPrices(acc)
           oldTotal == OldTotalAssets(f, earned)
<1>1. acc \in Accounts
  BY DEF TypeOK
<1>2. Fixed(f, earned) /\ Report(f) <= Report(acc) + earned
  BY <1>1, FixIsFixed, FixBooks
<1>3. oldTotal \in Nat
  BY <1>1, OldTotalType
<1>4. PICK r \in Work(f, earned, oldTotal) :
        \E x \in RebalanceAfter(r.acc) : Done(FixTooHighInvestedAssets(x, oldTotal), r.unsent)
  BY DEF WithdrawByAggStep
<1>5. acc'.balance < oldTotal /\ oldTotal = f.invested + f.balance - earned
  BY DEF OldTotalAssets
<1> HIDE DEF f, earned, oldTotal
<1>6. f \in Accounts /\ earned \in Nat /\ f.vault \in Nat /\ f.balance \in Nat /\ f.invested \in Nat
  BY <1>2 DEF Fixed, Accounts
<1>7. r.acc \in Accounts
  BY <1>3, <1>4, <1>6, WorkType
<1>8. /\ r.acc.vault >= f.vault /\ r.acc.vault \in Nat
      /\ r.acc.vault > f.vault => r.acc.vault + Worth(r.acc) <= f.vault + oldTotal
  BY <1>3, <1>4, <1>6, WorkBooks
<1>9. PICK x \in RebalanceAfter(r.acc) : Done(FixTooHighInvestedAssets(x, oldTotal), r.unsent)
  BY <1>4
<1>10. x \in Accounts /\ Fresh(x) /\ x.vault = r.acc.vault /\ x.balance + x.invested = Worth(r.acc)
  BY <1>7, <1>9, RebalanceAfterType, RebalanceAfterBooks
<1> DEFINE y == FixTooHighInvestedAssets(x, oldTotal)
<1>11. /\ y \in Accounts /\ y.vault = x.vault /\ y.balance = x.balance /\ y.invested \in Nat
       /\ y.balance + y.invested <= x.balance + x.invested
       /\ y.balance < oldTotal => y.balance + y.invested <= oldTotal
  BY <1>3, <1>10, FixTooHighType, FixTooHighBooks
<1>12. Done(y, r.unsent)
  BY <1>9
<1> HIDE DEF y
<1>13. acc' = y /\ Holdings = Report(acc) /\ Holdings' = Report(y) /\ Holdings \in Nat
  BY <1>11, <1>12, HoldingsIsReport
<1>14. y.balance \in Nat /\ Worth(r.acc) \in Nat
  BY <1>7, <1>11, RealType DEF Accounts
<1>15. Report(y) <= f.vault + oldTotal
  <2>1. CASE r.acc.vault > f.vault
    BY <1>3, <1>6, <1>8, <1>10, <1>11, <1>14, <2>1 DEF Report
  <2>2. CASE ~(r.acc.vault > f.vault)
    <3>1. y.vault = f.vault
      BY <1>6, <1>8, <1>10, <1>11, <2>2
    <3> QED
      BY <1>3, <1>5, <1>6, <1>11, <1>13, <1>14, <3>1 DEF Report
  <2> QED
    BY <2>1, <2>2
<1>16. f.vault + oldTotal = Report(f) - earned /\ Report(f) \in Nat
  BY <1>5, <1>6 DEF Report
<1>17. Report(y) \in Nat
  BY <1>6, <1>8, <1>10, <1>11, <1>14 DEF Report
<1> QED
  BY <1>2, <1>3, <1>6, <1>13, <1>15, <1>16, <1>17

\* A step of the debt to the insurance that is covered
DebtCovered ==
  acc'.debtToInsurance - acc.debtToInsurance
    <= (acc'.vault - acc.vault) + (IF acc.increase > 0 THEN acc.increase ELSE 0)

\* An operator's call fixes the prices, and works on the fixed accounts.
LEMMA DebtOfWork ==
  ASSUME TypeOK, NEW f, f = FixPriceChanges(acc), acc' \in Accounts,
         acc'.debtToInsurance - f.debtToInsurance = acc'.vault - f.vault
  PROVE  DebtCovered
<1>1. acc \in Accounts
  BY DEF TypeOK
<1>2. f \in Accounts
      /\ f.debtToInsurance - acc.debtToInsurance
           <= (f.vault - acc.vault) + (IF acc.increase > 0 THEN acc.increase ELSE 0)
  BY <1>1, FixPriceChangesType, FixBooks
<1>3. /\ acc.vault \in Nat /\ acc.debtToInsurance \in Int /\ acc.increase \in Int
      /\ f.vault \in Nat /\ f.debtToInsurance \in Int
      /\ acc'.vault \in Nat /\ acc'.debtToInsurance \in Int
  BY <1>1, <1>2 DEF Accounts
<1> QED
  BY <1>2, <1>3 DEF DebtCovered

LEMMA ReleasedBooks ==
  ASSUME NEW a \in Accounts, NEW loss \in Nat, NEW x \in Released(a, loss)
  PROVE  x.vault = a.vault /\ x.debtToInsurance = a.debtToInsurance
<1> DEFINE balances == a.balance..Worth(a)
           tokens == a.tokens..Worth(a)
           worths == WorthWithin(a, loss, 0)
<1>1. worths \in SUBSET Nat
  BY WorthWithinType
<1>2. balances \in SUBSET Nat /\ tokens \in SUBSET Nat
  BY RealType DEF Accounts
<1>3. x \in Moved(a, balances, tokens, worths)
  BY DEF Released
<1> HIDE DEF balances, tokens, worths
<1> QED
  BY <1>1, <1>2, <1>3, MovedBooks

LEMMA OperatorDebt ==
  ASSUME TypeOK, OperatorCall
  PROVE  DebtCovered /\ acc' \in Accounts
<1> DEFINE f == FixPriceChanges(acc)
           earned == EarnedByPrices(acc)
           oldTotal == OldTotalAssets(f, earned)
<1>1. f \in Accounts /\ earned \in Nat /\ oldTotal \in Nat
  BY FixPriceChangesType, OldTotalType DEF TypeOK
<1>2. f.vault \in Nat /\ f.debtToInsurance \in Int
  BY <1>1 DEF Accounts
<1>3. \A r \in Work(f, earned, oldTotal) : \A x \in RebalanceAfter(r.acc) :
        /\ x \in Accounts /\ Fresh(x)
        /\ x.debtToInsurance - f.debtToInsurance = x.vault - f.vault
  <2> HIDE DEF f, earned, oldTotal
  <2> TAKE r \in Work(f, earned, oldTotal)
  <2> TAKE x \in RebalanceAfter(r.acc)
  <2>1. r.acc \in Accounts /\ r.acc.debtToInsurance - f.debtToInsurance = r.acc.vault - f.vault
    BY <1>1, WorkType, WorkBooks
  <2> QED
    BY <2>1, RebalanceAfterType, RebalanceAfterBooks
<1>4. CASE RebalanceNoSwaps
  <2>1. PICK r \in Work(f, earned, oldTotal) : \E x \in RebalanceAfter(r.acc) : Done(x, r.unsent)
    BY <1>4 DEF RebalanceNoSwaps
  <2>2. PICK x \in RebalanceAfter(r.acc) : Done(x, r.unsent)
    BY <2>1
  <2>3. acc' = x
    BY <2>2 DEF Done, Ends
  <2> QED
    BY <1>3, <2>3, DebtOfWork
<1>5. CASE RebalanceNotNeeded
  <2>1. PICK x \in Released(f, 0) : Done(UpdateInvestedAssets(x), 0)
    BY <1>5 DEF RebalanceNotNeeded
  <2> DEFINE u == UpdateInvestedAssets(x)
  <2>2. x \in Accounts /\ x.vault = f.vault /\ x.debtToInsurance = f.debtToInsurance
    BY <1>1, <2>1, ReleasedType, ReleasedBooks
  <2>3. u \in Accounts /\ u.vault = x.vault /\ u.debtToInsurance = x.debtToInsurance
    BY <2>2, UpdateType, UpdateBooks
  <2>4. acc' = u
    BY <2>1 DEF Done, Ends
  <2> HIDE DEF u
  <2>5. acc'.debtToInsurance - f.debtToInsurance = acc'.vault - f.vault
    BY <1>2, <2>2, <2>3, <2>4
  <2> QED
    BY <2>3, <2>4, <2>5, DebtOfWork
<1>6. CASE WithdrawByAggStep
  <2>1. PICK r \in Work(f, earned, oldTotal) :
          \E x \in RebalanceAfter(r.acc) : Done(FixTooHighInvestedAssets(x, oldTotal), r.unsent)
    BY <1>6 DEF WithdrawByAggStep
  <2>2. PICK x \in RebalanceAfter(r.acc) : Done(FixTooHighInvestedAssets(x, oldTotal), r.unsent)
    BY <2>1
  <2> DEFINE y == FixTooHighInvestedAssets(x, oldTotal)
  <2>3. x \in Accounts /\ Fresh(x) /\ x.debtToInsurance - f.debtToInsurance = x.vault - f.vault
    BY <1>3
  <2>4. y \in Accounts /\ y.vault = x.vault /\ y.debtToInsurance = x.debtToInsurance
    BY <1>1, <2>3, FixTooHighType, FixTooHighBooks
  <2>5. acc' = y
    BY <2>2 DEF Done, Ends
  <2> HIDE DEF y
  <2> QED
    BY <2>3, <2>4, <2>5, DebtOfWork
<1> QED
  BY <1>4, <1>5, <1>6 DEF OperatorCall

\* A withdraw raises the share price of those who stay by no more than what the cap leaves
\* unsent, whatever the prices earned and the swaps won.
THEOREM WithdrawIsNoIncome == Spec => WithdrawKeepsSharePrice
<1>1. TypeOK /\ [Next]_vars
        => [Holdings' > Holdings + unsent' => ~WithdrawFromPool]_vars
  <2>1. TypeOK /\ WithdrawFromPool /\ unsent' \in Nat => ~(Holdings' > Holdings + unsent')
    BY WithdrawReport DEF Holdings, TypeOK, Accounts
  <2>2. TypeOK /\ Next => unsent' \in Nat
    BY NextKeeps DEF Keeps, TypeOK
  <2> QED
    BY <2>1, <2>2
<1> QED
  BY <1>1, TypeCorrect, PTL DEF Spec, WithdrawKeepsSharePrice

\* A deposit on fresh prices does not raise the share price by more than dust and what the
\* cap leaves unsent, whatever its amount.
THEOREM DepositIsNoIncome == Spec => DepositKeepsSharePrice
<1>1. TypeOK /\ [Next]_vars
        => [Holdings' > Holdings + unsent' + LiquidationThreshold
              => ~\E n \in 0..acc.vault : DepositToPool(n, TRUE)]_vars
  <2>1. ASSUME TypeOK, Next, NEW n \in Nat, DepositToPool(n, TRUE)
        PROVE  ~(Holdings' > Holdings + unsent' + LiquidationThreshold)
    <3>1. Holdings' <= Holdings + unsent' + LiquidationThreshold /\ Holdings' \in Int
      BY <2>1, DepositReport
    <3>2. Holdings + unsent' + LiquidationThreshold \in Int
      BY <2>1, NextKeeps, RatioAssumption DEF Keeps, TypeOK, Accounts, Holdings
    <3> DEFINE most == Holdings + unsent' + LiquidationThreshold
    <3> HIDE DEF most
    <3>3. Holdings' <= most /\ Holdings' \in Int /\ most \in Int
      BY <3>1, <3>2 DEF most
    <3>4. ~(Holdings' > most)
      BY <3>3
    <3> QED
      BY <3>4 DEF most
  <2>2. TypeOK => 0..acc.vault \subseteq Nat
    BY DEF TypeOK, Accounts
  <2> QED
    BY <2>1, <2>2
<1> QED
  BY <1>1, TypeCorrect, PTL DEF Spec, DepositKeepsSharePrice

\* Hard work without rewards raises it by no more than that, or than what is lost when the
\* profit is withdrawn from the pool.
THEOREM HardWorkIsNoIncome == Spec => HardWorkKeepsSharePrice
<1>1. TypeOK /\ [Next]_vars
        => [Holdings' > Holdings + unsent' + MaxOf(LiquidationThreshold, MaxLoss)
              => ~HardWork(0, 0)]_vars
  <2>1. ASSUME TypeOK, Next, HardWork(0, 0)
        PROVE  ~(Holdings' > Holdings + unsent' + MaxOf(LiquidationThreshold, MaxLoss))
    <3>1. Holdings' <= Holdings + unsent' + MaxOf(LiquidationThreshold, MaxLoss) /\ Holdings' \in Int
      BY <2>1, HardWorkReport
    <3>2. Holdings \in Int /\ unsent' \in Nat /\ MaxOf(LiquidationThreshold, MaxLoss) \in Nat
      BY <2>1, NextKeeps, RatioAssumption, EnvironmentAssumption
         DEF Keeps, TypeOK, Accounts, Holdings, MaxOf
    <3> QED
      BY <3>1, <3>2
  <2> QED
    BY <2>1
<1> QED
  BY <1>1, TypeCorrect, PTL DEF Spec, HardWorkKeepsSharePrice

\* A step of a withdrawal does not raise the share price, unless the balance alone is worth
\* the old total.
THEOREM StepIsNoIncome == Spec => StepKeepsSharePrice
<1>1. TypeOK /\ [Next]_vars
        => [(/\ Holdings' > Holdings
             /\ acc'.balance < OldTotalAssets(FixPriceChanges(acc), EarnedByPrices(acc)))
              => ~WithdrawByAggStep]_vars
  <2>1. ASSUME TypeOK, WithdrawByAggStep,
               acc'.balance < OldTotalAssets(FixPriceChanges(acc), EarnedByPrices(acc))
        PROVE  ~(Holdings' > Holdings)
    <3>1. Holdings' <= Holdings /\ Holdings' \in Int
      BY <2>1, StepReport
    <3>2. Holdings \in Int
      BY <2>1 DEF TypeOK, Accounts, Holdings
    <3> QED
      BY <3>1, <3>2
  <2> QED
    BY <2>1
<1> QED
  BY <1>1, TypeCorrect, PTL DEF Spec, StepKeepsSharePrice

\* An operator's call adds to the debt to the insurance no more than the vault received
\* and the interest of the debts: what stays uncovered is not owed.
THEOREM DebtIsWithinCover == Spec => DebtWithinCover
<1>1. TypeOK /\ [Next]_vars
        => [acc'.debtToInsurance - acc.debtToInsurance
              > (acc'.vault - acc.vault) + (IF acc.increase > 0 THEN acc.increase ELSE 0)
              => ~OperatorCall]_vars
  <2>1. ASSUME TypeOK, OperatorCall
        PROVE  ~(acc'.debtToInsurance - acc.debtToInsurance
                   > (acc'.vault - acc.vault) + (IF acc.increase > 0 THEN acc.increase ELSE 0))
    <3>1. DebtCovered /\ acc' \in Accounts /\ acc \in Accounts
      BY <2>1, OperatorDebt DEF TypeOK
    <3> QED
      BY <3>1 DEF DebtCovered, Accounts
  <2> QED
    BY <2>1
<1> QED
  BY <1>1, TypeCorrect, PTL DEF Spec, DebtWithinCover

-----------------------------------------------------------------------------
(* The second call of TetuConverter *)

\* Neither new prices nor the insurance touch what is on its way to TetuConverter.
LEMMA FixKeepsTransit ==
  ASSUME NEW a \in Accounts
  PROVE  FixPriceChanges(a).transit = a.transit
<1>1. UpdateInvestedAssets(a) = [a EXCEPT !.invested = Real(a), !.increase = 0]
  BY DEF UpdateInvestedAssets
<1>2. UpdateInvestedAssets(a) \in Accounts /\ UpdateInvestedAssets(a).transit = a.transit
  BY <1>1, UpdateType DEF Accounts
<1> DEFINE fixed == UpdateInvestedAssets(a)
<1> HIDE DEF fixed
<1>3. fixed \in Accounts /\ fixed.transit = a.transit
  BY <1>2 DEF fixed
<1>4. \A d : [fixed EXCEPT !.debtToInsurance = d].transit = a.transit
  BY <1>3 DEF Accounts
<1>5. \A loss, inc : CoverLossAndCheckResults(fixed, loss, inc).transit = a.transit
  BY <1>3 DEF Accounts, CoverLossAndCheckResults, CoverPossibleStrategyLoss
<1> QED
  BY <1>3, <1>4, <1>5 DEF FixPriceChanges, fixed

\* When there is no profit to send, the call looks at the balance it found.
LEMMA NoProfitToSend ==
  ASSUME NEW a \in Accounts, NEW asset \in Assets, EarnedByPrices(a) = 0
  PROVE  LET f == FixPriceChanges(a)
             p == SendToInsurance(f, 0, f.invested + f.balance)
         IN  p[asset] = a[asset] /\ p.transit = a.transit
<1> DEFINE f == FixPriceChanges(a)
           total == f.invested + f.balance
           p == SendToInsurance(f, 0, total)
<1>1. f \in Accounts /\ SameValue(a, f) /\ f.transit = a.transit
  BY FixPriceChangesType, FixKeepsTransit
<1> HIDE DEF f
<1>2. total \in Nat
  BY <1>1 DEF Accounts
<1> HIDE DEF total
<1>3. Sent(f, 0, total) = 0
  BY <1>1, <1>2, NothingSent
<1>4. p = f
  <2>1. f.balance - 0 = f.balance /\ f.insurance + 0 = f.insurance
    BY <1>1 DEF Accounts
  <2>2. p = [f EXCEPT !.balance = f.balance, !.insurance = f.insurance]
    BY <1>3, <2>1 DEF SendToInsurance
  <2> HIDE DEF p
  <2> QED
    BY <1>1, <2>2 DEF Accounts
<1> HIDE DEF p
<1>5. p.balance = f.balance /\ p.tokens = f.tokens /\ p.transit = f.transit
  BY <1>4
<1>6. p[asset] = f[asset] /\ f[asset] = a[asset]
  BY <1>1, <1>5 DEF Assets, SameValue
<1>7. p[asset] = a[asset] /\ p.transit = a.transit
  BY <1>1, <1>5, <1>6
<1> QED
  BY <1>7 DEF p, total, f

LEMMA PromisePays ==
  ASSUME TypeOK, PromiseCanBePaid, promise.amount # 0,
         RequirePayAmountBack(promise.asset, promise.amount)
  PROVE  acc'.transit = acc.transit + promise.amount
<1> DEFINE asset == promise.asset
           amount == promise.amount
           f == FixPriceChanges(acc)
           earned == EarnedByPrices(acc)
           total == f.invested + f.balance
           p == SendToInsurance(f, earned, total)
           left == earned - Sent(f, earned, total)
           paid == [p EXCEPT ![asset] = @ - amount, !.transit = @ + amount]
<1>1. asset \in Assets /\ amount \in Nat /\ acc \in Accounts
  BY DEF TypeOK
<1>2. earned = 0 /\ acc[asset] >= PlusGap(amount)
  BY DEF PromiseCanBePaid
<1>3. p[asset] = acc[asset] /\ p.transit = acc.transit
  BY <1>1, <1>2, NoProfitToSend
<1>4. p \in Accounts
  <2>1. f \in Accounts
    BY <1>1, FixPriceChangesType
  <2> HIDE DEF f
  <2>2. total \in Nat
    BY <2>1 DEF Accounts
  <2> HIDE DEF total
  <2> QED
    BY <1>2, <2>1, <2>2, SendToInsuranceType
<1>5. p[asset] >= PlusGap(amount)
  BY <1>2, <1>3
<1>6. Done(UpdateInvestedAssets(paid), left)
  BY <1>5 DEF RequirePayAmountBack
<1> HIDE DEF p, left
<1>7. UpdateInvestedAssets(paid).transit = p.transit + amount
  BY <1>1, <1>4 DEF Accounts, Assets, UpdateInvestedAssets
<1>8. acc' = UpdateInvestedAssets(paid)
  BY <1>6 DEF Done, Ends
<1> QED
  BY <1>3, <1>7, <1>8

\* Asked at once for what it has promised, the strategy pays: the balance it promised from
\* has no profit on it that would leave first, and a loss by prices is covered elsewhere.
THEOREM PromiseIsPaid == Spec => SecondCallPays
<1>1. TypeOK /\ PromiseCanBePaid /\ [Next]_vars
        => [promise.amount # 0 /\ RequirePayAmountBack(promise.asset, promise.amount)
              => acc'.transit = acc.transit + promise.amount]_vars
  BY PromisePays
<1> QED
  BY <1>1, TypeCorrect, PromiseKept, PTL DEF Spec, SecondCallPays
=============================================================================
