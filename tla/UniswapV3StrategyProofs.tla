---------------------- MODULE UniswapV3StrategyProofs -----------------------
(***************************************************************************)
(* Proofs about UniswapV3Strategy for every set of ticks and prices, every *)
(* spacing and width, and any liquidity.  The inductive invariant is the   *)
(* type invariant together with LiquidityIsTracked: leaving the pool burns *)
(* the tracked liquidity, which only keeps the position a natural number   *)
(* because it is what the position holds.                                  *)
(*                                                                         *)
(* Before that, what the operators of PairRange and PairFuse guarantee for *)
(* every tick, spacing, width and threshold.  After it, the refinement of  *)
(* PoolPosition and what the strategy inherits from it.                    *)
(***************************************************************************)
EXTENDS UniswapV3Strategy, TLAPS

\* Solidity's quotient is within one divisor of the dividend, on the side of zero.
LEMMA DivTruncBounds ==
  ASSUME NEW a \in Int, NEW s \in Nat \ {0}
  PROVE  /\ DivTrunc(a, s) \in Int
         /\ a >= 0 => DivTrunc(a, s) * s <= a /\ a < DivTrunc(a, s) * s + s
         /\ a < 0  => a <= DivTrunc(a, s) * s /\ DivTrunc(a, s) * s < a + s
<1>1. \A x \in Nat : x \div s \in Nat /\ x = s * (x \div s) + (x % s) /\ x % s \in 0..(s - 1)
  OBVIOUS
<1>2. CASE a >= 0
  <2>1. DivTrunc(a, s) = a \div s
    BY <1>2 DEF DivTrunc
  <2> QED
    BY <1>1, <1>2, <2>1
<1>3. CASE a < 0
  <2> DEFINE b == -a
  <2>1. b \in Nat /\ DivTrunc(a, s) = -(b \div s)
    BY <1>3 DEF DivTrunc
  <2>2. b \div s \in Nat /\ b = s * (b \div s) + (b % s) /\ b % s \in 0..(s - 1)
    BY <1>1, <2>1
  <2> DEFINE q == b \div s
  <2>3. (-q) * s = -(s * q)
    BY <2>2
  <2> QED
    BY <1>3, <2>1, <2>2, <2>3
<1> QED
  BY <1>2, <1>3

\* A multiple of the divisor is divided exactly.
LEMMA DivTruncExact ==
  ASSUME NEW m \in Int, NEW s \in Nat \ {0}
  PROVE  DivTrunc(m * s, s) * s = m * s
<1> DEFINE q == DivTrunc(m * s, s)
<1>1. m * s \in Int
  OBVIOUS
<1>2. q \in Int /\ (m * s >= 0 => q * s <= m * s /\ m * s < q * s + s)
                /\ (m * s < 0 => m * s <= q * s /\ q * s < m * s + s)
  BY <1>1, DivTruncBounds
<1>3. q * s < m * s + s /\ m * s < q * s + s
  BY <1>1, <1>2
<1> HIDE DEF q
<1>4. q < m + 1 /\ m < q + 1
  <2>1. q >= m + 1 => q * s >= m * s + s
    <3>1. ASSUME q >= m + 1 PROVE q * s >= m * s + s
      <4>1. (q - m - 1) * s >= 0
        BY <1>2, <3>1
      <4>2. (q - m - 1) * s = q * s - m * s - s
        BY <1>2
      <4> QED
        BY <1>1, <1>2, <4>1, <4>2
    <3> QED
      BY <3>1
  <2>2. m >= q + 1 => m * s >= q * s + s
    <3>1. ASSUME m >= q + 1 PROVE m * s >= q * s + s
      <4>1. (m - q - 1) * s >= 0
        BY <1>2, <3>1
      <4>2. (m - q - 1) * s = m * s - q * s - s
        BY <1>2
      <4> QED
        BY <1>1, <1>2, <4>1, <4>2
    <3> QED
      BY <3>1
  <2>3. q * s \in Int
    BY <1>2
  <2> QED
    BY <1>1, <1>2, <1>3, <2>1, <2>2, <2>3
<1>5. q = m
  BY <1>2, <1>4
<1> QED
  BY <1>5 DEF q

\* calcTickRange gives a range of the configured width.
LEMMA CalcTickRangeWidth ==
  ASSUME NEW t \in Int, NEW w \in Nat, NEW s \in Nat \ {0}
  PROVE  LET r == CalcTickRange(t, w, s)
         IN  /\ r = [lower |-> r.lower, upper |-> r.upper]
             /\ r.lower \in Int
             /\ r.upper = r.lower + (IF w = 0 THEN s ELSE 2 * w)
<1>1. DivTrunc(t - w, s) \in Int
  BY DivTruncBounds
<1> DEFINE l == IF t < 0 /\ DivTrunc(t, s) * s # t
                THEN (DivTrunc(t - w, s) - 1) * s
                ELSE DivTrunc(t - w, s) * s
<1>2. l \in Int
  BY <1>1
<1>3. CalcTickRange(t, w, s) =
        [lower |-> l, upper |-> IF w = 0 THEN l + s ELSE l + w * 2]
  BY DEF CalcTickRange
<1> HIDE DEF l
<1> QED
  BY <1>2, <1>3

\* Where calcTickRange puts the range: the current tick is inside a range of
\* one spacing, and less than one spacing from the middle of a wider one.
LEMMA CalcTickRangePlace ==
  ASSUME NEW t \in Int, NEW k \in Nat, NEW s \in Nat \ {0}
  PROVE  LET w == k * s
             lower == CalcTickRange(t, w, s).lower
         IN  /\ lower \in Int /\ w \in Nat
             /\ w = 0 => lower <= t /\ t < lower + s
             /\ w # 0 => w >= s /\ t - s < lower + w /\ lower + w < t + s
<1> DEFINE w == k * s
           d == DivTrunc(t - w, s)
           lower == CalcTickRange(t, w, s).lower
<1>1. w \in Nat /\ (w # 0 => w >= s)
  <2>1. w \in Nat /\ (k = 0 => w = 0)
    OBVIOUS
  <2>2. k >= 1 => (k - 1) * s >= 0 /\ (k - 1) * s = w - s
    OBVIOUS
  <2> QED
    BY <2>1, <2>2
<1>2. /\ d \in Int
      /\ t - w >= 0 => d * s <= t - w /\ t - w < d * s + s
      /\ t - w < 0  => t - w <= d * s /\ d * s < t - w + s
  <2> DEFINE a == t - w
  <2>1. a \in Int
    BY <1>1
  <2> HIDE DEF a
  <2>2. /\ DivTrunc(a, s) \in Int
        /\ a >= 0 => DivTrunc(a, s) * s <= a /\ a < DivTrunc(a, s) * s + s
        /\ a < 0  => a <= DivTrunc(a, s) * s /\ DivTrunc(a, s) * s < a + s
    BY <2>1, DivTruncBounds
  <2>3. QED
    BY <2>2 DEF a
<1>3. lower = IF t < 0 /\ DivTrunc(t, s) * s # t THEN (d - 1) * s ELSE d * s
  BY DEF CalcTickRange
<1>4. d * s \in Int /\ (d - 1) * s = d * s - s
  BY <1>2
<1>5. CASE t < 0 /\ DivTrunc(t, s) * s # t
  <2>1. d * s # t - w
    <3>1. SUFFICES ASSUME d * s = t - w PROVE FALSE
      OBVIOUS
    <3>2. t = (d + k) * s /\ d + k \in Int
      BY <1>1, <1>2, <3>1
    <3> QED
      BY <1>5, <3>2, DivTruncExact
  <2> QED
    BY <1>1, <1>2, <1>3, <1>4, <1>5, <2>1
<1>6. CASE t < 0 /\ DivTrunc(t, s) * s = t
  <2>1. PICK m \in Int : m * s = t
    BY <1>6, DivTruncBounds
  <2>2. t - w = (m - k) * s /\ m - k \in Int
    BY <2>1
  <2>3. d * s = t - w
    BY <2>2, DivTruncExact
  <2> QED
    BY <1>1, <1>2, <1>3, <1>4, <1>6, <2>3
<1>7. CASE t >= 0
  <2>1. lower = d * s
    BY <1>3, <1>7
  <2> HIDE DEF lower, d
  <2>2. /\ lower \in Int /\ w \in Nat
        /\ w = 0 => lower <= t /\ t < lower + s
        /\ w # 0 => w >= s /\ t - s < lower + w /\ lower + w < t + s
    <3> HIDE DEF w
    <3>1. QED
      BY <1>1, <1>2, <1>4, <1>7, <2>1
  <2>3. QED
    BY <2>2 DEF lower
<1> QED
  BY <1>5, <1>6, <1>7

\* The range that calcTickRange returns always holds the tick it was computed
\* for: a rebalance never places liquidity beside the price.
THEOREM NewRangeHoldsTick ==
  ASSUME NEW t \in Int, NEW k \in Nat, NEW s \in Nat \ {0}
  PROVE  InRange(t, CalcTickRange(t, k * s, s))
<1> DEFINE w == k * s
           r == CalcTickRange(t, w, s)
<1>1. /\ r.lower \in Int /\ w \in Nat
      /\ w = 0 => r.lower <= t /\ t < r.lower + s
      /\ w # 0 => w >= s /\ t - s < r.lower + w /\ r.lower + w < t + s
  BY CalcTickRangePlace
<1>2. r.upper = r.lower + (IF w = 0 THEN s ELSE 2 * w)
  BY <1>1, CalcTickRangeWidth
<1> HIDE DEF w, r
<1>3. InRange(t, r)
  BY <1>1, <1>2 DEF InRange
<1> QED
  BY <1>3 DEF w, r

\* Half of the width is the tick range itself.
LEMMA HalfWidth ==
  ASSUME NEW w \in Nat
  PROVE  DivTrunc(2 * w, 2) = w
BY DEF DivTrunc

\* After the range is recomputed at the current tick, the pool does not ask
\* for a rebalance: one spacing of tolerance is enough.
THEOREM NewRangeNeedsNoRebalance ==
  ASSUME NEW t \in Int, NEW k \in Nat, NEW s \in Nat \ {0},
         NEW tolerance \in Nat, k # 0 => s <= tolerance
  PROVE  ~NeedPoolRebalance(t, CalcTickRange(t, k * s, s), s, tolerance)
<1> DEFINE w == k * s
           r == CalcTickRange(t, w, s)
<1>1. /\ r.lower \in Int /\ w \in Nat
      /\ w = 0 => r.lower <= t /\ t < r.lower + s
      /\ w # 0 => w >= s /\ t - s < r.lower + w /\ r.lower + w < t + s
  BY CalcTickRangePlace
<1>2. r.upper = r.lower + (IF w = 0 THEN s ELSE 2 * w)
  BY <1>1, CalcTickRangeWidth
<1>3. k = 0 => w = 0
  OBVIOUS
<1>4. DivTrunc(2 * w, 2) = w
  BY <1>1, HalfWidth
<1> HIDE DEF w, r
<1>5. CASE w = 0
  BY <1>1, <1>2, <1>5 DEF NeedPoolRebalance, w, r
<1>6. CASE w # 0
  <2>1. r.upper - r.lower = 2 * w /\ 2 * w # s
    BY <1>1, <1>2, <1>6
  <2>2. s <= tolerance
    BY <1>3, <1>6
  <2>3. ~NeedPoolRebalance(t, r, s, tolerance)
    BY <1>1, <1>4, <2>1, <2>2, <1>6 DEF NeedPoolRebalance
  <2> QED
    BY <2>3 DEF w, r
<1> QED
  BY <1>5, <1>6

\* The fuse comes to rest: when the limits of each side are strictly ordered,
\* the status it takes at some prices changes at most once more at the same
\* prices, and the next one not at all.
THEOREM FuseSettles ==
  ASSUME NEW status \in FuseStatus, NEW t \in Thresholds, NEW p \in Nat, NEW q \in Nat,
         t.lowerOn < t.lowerOff, t.upperOff < t.upperOn
  PROVE  LET one == NeedChangeFuseStatus(status, t, p, q)
             two == NeedChangeFuseStatus(one, t, p, q)
         IN  NeedChangeFuseStatus(two, t, p, q) = two
<1>1. /\ t.lowerOn \in Nat /\ t.lowerOff \in Nat
      /\ t.upperOn \in Nat /\ t.upperOff \in Nat
  BY DEF Thresholds
<1>2. CASE status = FuseDisabled
  BY <1>2 DEF NeedChangeFuseStatus, FuseDisabled, FuseOff, FuseOnLower, FuseOnUpper
<1>3. CASE status = FuseOff
  BY <1>1, <1>3 DEF NeedChangeFuseStatus, FuseDisabled, FuseOff, FuseOnLower, FuseOnUpper
<1>4. CASE status = FuseOnLower
  BY <1>1, <1>4 DEF NeedChangeFuseStatus, FuseDisabled, FuseOff, FuseOnLower, FuseOnUpper
<1>5. CASE status = FuseOnUpper
  BY <1>1, <1>5 DEF NeedChangeFuseStatus, FuseDisabled, FuseOff, FuseOnLower, FuseOnUpper
<1> QED
  BY <1>2, <1>3, <1>4, <1>5 DEF FuseStatus

-----------------------------------------------------------------------------
(* The strategy *)

IInv == TypeOK /\ LiquidityIsTracked

\* The number of spacings in the configured tick range
LEMMA WholeSpacings ==
  \E k \in Nat : TickRange = k * TickSpacing
<1> DEFINE k == TickRange \div TickSpacing
<1>1. TickSpacing \in Nat \ {0} /\ TickRange \in Nat /\ TickRange % TickSpacing = 0
  BY TickAssumption
<1>2. k \in Nat /\ TickRange = TickSpacing * k + (TickRange % TickSpacing)
  BY <1>1
<1>3. TickRange = k * TickSpacing
  BY <1>1, <1>2
<1> QED
  BY <1>2, <1>3

\* A range keeps its width when it moves: recomputing it from its own width
\* is recomputing it from the configured tick range.
LEMMA NewRangeInRanges ==
  ASSUME NEW t \in Ticks, NEW r \in Ranges
  PROVE  /\ CalcNewTickRange(t, r, TickSpacing) = CalcTickRange(t, TickRange, TickSpacing)
         /\ CalcNewTickRange(t, r, TickSpacing) \in Ranges
<1>1. TickSpacing \in Nat \ {0} /\ TickRange \in Nat /\ Ticks \subseteq Int
  BY TickAssumption
<1>2. PICK u \in Ticks : r = CalcTickRange(u, TickRange, TickSpacing)
  BY DEF Ranges
<1>3. /\ r.lower \in Int
      /\ r.upper = r.lower + (IF TickRange = 0 THEN TickSpacing ELSE 2 * TickRange)
  BY <1>1, <1>2, CalcTickRangeWidth
<1>4. TickRange # 0 => 2 * TickRange # TickSpacing
  BY TickAssumption
<1>5. (IF r.upper - r.lower = TickSpacing THEN 0 ELSE DivTrunc(r.upper - r.lower, 2)) = TickRange
  BY <1>1, <1>3, <1>4, HalfWidth
<1> QED
  BY <1>5 DEF CalcNewTickRange, Ranges

-----------------------------------------------------------------------------
NoPosition == [r \in Ranges |-> 0]

\* What every step must establish about the liquidity
Tracked == totalLiquidity \in Nat /\ position \in [Ranges -> Nat] /\ LiquidityIsTracked

\* _rebalanceBefore leaves nothing of the strategy in the pool.
LEMMA PositionBeforeEmpty ==
  ASSUME IInv PROVE PositionBefore = NoPosition
<1>1. position \in [Ranges -> Nat] /\ range \in Ranges /\ totalLiquidity \in Nat
  BY DEF IInv, TypeOK
<1>2. \A r \in Ranges : position[r] = IF r = range THEN totalLiquidity ELSE 0
  BY DEF IInv, LiquidityIsTracked
<1>3. CASE totalLiquidity # 0
  <2>1. PositionBefore = [position EXCEPT ![range] = @ - totalLiquidity]
    BY <1>3 DEF PositionBefore, Burn
  <2>2. position[range] - totalLiquidity = 0
    BY <1>1, <1>2
  <2>3. PositionBefore = [r \in Ranges |-> IF r = range THEN 0 ELSE position[r]]
    BY <1>1, <2>1, <2>2
  <2>4. \A r \in Ranges : (IF r = range THEN 0 ELSE position[r]) = 0
    BY <1>2
  <2> QED
    BY <2>3, <2>4 DEF NoPosition
<1>4. CASE totalLiquidity = 0
  BY <1>1, <1>2, <1>4 DEF PositionBefore, NoPosition
<1> QED
  BY <1>3, <1>4

\* Entering an empty pool, at whatever range, keeps the liquidity tracked.
LEMMA RebalanceAfterTracked ==
  ASSUME IInv, range' \in Ranges, NEW amounts, RebalanceAfter(NoPosition, amounts)
  PROVE  Tracked'
<1>1. CASE position' = NoPosition /\ totalLiquidity' = 0
  BY <1>1 DEF Tracked, LiquidityIsTracked, NoPosition
<1>2. CASE \E n \in 1..(MaxLiquidity - 0) : position' = Mint(NoPosition, range', n) /\ totalLiquidity' = 0 + n
  <2>1. PICK n \in 1..(MaxLiquidity - 0) :
          position' = Mint(NoPosition, range', n) /\ totalLiquidity' = 0 + n
    BY <1>2
  <2>2. n \in Nat /\ totalLiquidity' = n
    BY <2>1, AmountAssumption
  <2>3. position' = [NoPosition EXCEPT ![range'] = @ + n]
    BY <2>1 DEF Mint
  <2>4. position' = [r \in Ranges |-> IF r = range' THEN n ELSE 0]
    BY <2>2, <2>3 DEF NoPosition
  <2> QED
    BY <2>2, <2>4 DEF Tracked, LiquidityIsTracked
<1> QED
  BY <1>1, <1>2 DEF RebalanceAfter, DepositorEnter

\* Leaving part of the position keeps the liquidity tracked.
LEMMA DepositorExitTracked ==
  ASSUME IInv, range' = range, NEW n \in Nat, DepositorExit(n)
  PROVE  Tracked'
<1>1. position \in [Ranges -> Nat] /\ range \in Ranges /\ totalLiquidity \in Nat
  BY DEF IInv, TypeOK
<1>2. \A r \in Ranges : position[r] = IF r = range THEN totalLiquidity ELSE 0
  BY DEF IInv, LiquidityIsTracked
<1>3. /\ totalLiquidity >= n /\ totalLiquidity' = totalLiquidity - n
      /\ position' = [position EXCEPT ![range] = @ - n]
  BY DEF DepositorExit, Burn
<1>4. position' = [r \in Ranges |-> IF r = range THEN totalLiquidity - n ELSE 0]
  BY <1>1, <1>2, <1>3
<1> QED
  BY <1>1, <1>3, <1>4 DEF Tracked, LiquidityIsTracked

\* Adding to the position keeps the liquidity tracked when the second amount
\* is not zero: with a zero amount enter would forget the liquidity it had.
LEMMA DepositorEnterTracked ==
  ASSUME IInv, range' = range, NEW a \in Nat, NEW b \in Nat \ {0},
         DepositorEnter(position, range, totalLiquidity, <<a, b>>)
  PROVE  Tracked'
<1>1. position \in [Ranges -> Nat] /\ range \in Ranges /\ totalLiquidity \in Nat
  BY DEF IInv, TypeOK
<1>2. \A r \in Ranges : position[r] = IF r = range THEN totalLiquidity ELSE 0
  BY DEF IInv, LiquidityIsTracked
<1>3. <<a, b>>[2] = b /\ b > 0
  OBVIOUS
<1>4. PICK n \in 1..(MaxLiquidity - totalLiquidity) :
        position' = Mint(position, range, n) /\ totalLiquidity' = totalLiquidity + n
  BY <1>3 DEF DepositorEnter
<1>5. n \in Nat
  BY <1>1, <1>4, AmountAssumption
<1>6. position' = [position EXCEPT ![range] = @ + n]
  BY <1>4 DEF Mint
<1>7. position' = [r \in Ranges |-> IF r = range THEN totalLiquidity + n ELSE 0]
  BY <1>1, <1>2, <1>5, <1>6
<1> QED
  BY <1>1, <1>4, <1>5, <1>7 DEF Tracked, LiquidityIsTracked

\* A step that touches neither the position, nor its range, nor the counter
LEMMA UnchangedTracked ==
  ASSUME IInv, UNCHANGED <<range, totalLiquidity, position>>
  PROVE  Tracked'
BY DEF IInv, TypeOK, LiquidityIsTracked, Tracked

-----------------------------------------------------------------------------
\* The rest of the type invariant
Settings ==
  /\ tick \in Ticks /\ price \in Prices
  /\ fuseStatus \in FuseStatus /\ thresholds \in Thresholds
  /\ range \in Ranges
  /\ debts \subseteq Directions
  /\ withdrawDone \in {0, 1} /\ lastRebalanceNoSwap \in {0, 1}

LEMMA Parts == IInv <=> Settings /\ Tracked
BY DEF IInv, TypeOK, Settings, Tracked

\* The fuse only ever takes a status of the enumeration.
LEMMA FuseStatusType ==
  ASSUME fuseStatus \in FuseStatus
  PROVE  NewFuseStatus \in FuseStatus
BY DEF NewFuseStatus, NeedChangeFuseStatus, FuseStatus, FuseDisabled, FuseOff, FuseOnLower, FuseOnUpper

\* The debts a step of a plan leaves are debts of the two directions.
LEMMA DebtsAfterStepType ==
  ASSUME debts \subseteq Directions, NEW plan, NEW pool,
         NEW ds \in DebtsAfterStep(plan, pool)
  PROVE  ds \subseteq Directions
<1>1. Opposite(DebtToRepay) \in Directions
  BY DEF Opposite, Directions
<1> QED
  BY <1>1 DEF DebtsAfterStep

\* What MakeRequestedAmount, alone or behind a guard, does
LEMMA MakeRequestedAmountStep ==
  ASSUME IInv, MakeRequestedAmount, UNCHANGED Others
  PROVE  IInv'
<1>1. Settings /\ debts' \subseteq debts
  BY Parts DEF MakeRequestedAmount
<1>2. PICK n \in 0..totalLiquidity : DepositorExit(n)
  BY DEF MakeRequestedAmount
<1>3. n \in Nat /\ range' = range
  BY <1>2 DEF IInv, TypeOK, Others, market
<1>4. Tracked'
  BY <1>2, <1>3, DepositorExitTracked
<1>5. Settings'
  BY <1>1 DEF Settings, Others, market
<1> QED
  BY <1>4, <1>5 DEF IInv, TypeOK, Settings, Tracked

LEMMA EnterPoolStep ==
  ASSUME IInv, EnterPool, UNCHANGED Others
  PROVE  IInv'
<1>1. Settings /\ debts' \subseteq Directions
  BY Parts DEF EnterPool
<1>2. range' = range
  BY DEF Others, market
<1>3. Settings'
  BY <1>1 DEF Settings, Others, market
<1>4. PICK a \in Balances, b \in Balances :
        IF a = 0 \/ b = 0 THEN UNCHANGED <<position, totalLiquidity>>
        ELSE DepositorEnter(position, range, totalLiquidity, <<a, b>>)
  BY DEF EnterPool
<1>5. a \in Nat /\ b \in Nat
  BY AmountAssumption
<1>6. Tracked'
  <2>1. CASE a = 0 \/ b = 0
    BY <1>2, <1>4, <2>1, UnchangedTracked
  <2>2. CASE ~(a = 0 \/ b = 0)
    BY <1>2, <1>4, <1>5, <2>2, DepositorEnterTracked
  <2> QED
    BY <2>1, <2>2
<1> QED
  BY <1>3, <1>6 DEF IInv, TypeOK, Settings, Tracked

LEMMA DepositToPoolUniversalStep ==
  ASSUME IInv, DepositToPoolUniversal, UNCHANGED Others
  PROVE  IInv'
<1>1. CASE EnterPool
  BY <1>1, EnterPoolStep
<1>2. CASE WithdrawUniversal
  BY <1>2, MakeRequestedAmountStep DEF WithdrawUniversal
<1>3. CASE UNCHANGED <<position, totalLiquidity, debts>>
  BY <1>3 DEF Others, market, IInv, TypeOK, LiquidityIsTracked
<1> QED
  BY <1>1, <1>2, <1>3 DEF DepositToPoolUniversal

LEMMA RebalanceStep ==
  ASSUME IInv, NEW check \in BOOLEAN, RebalanceNoSwaps(check)
  PROVE  IInv'
<1>1. Settings
  BY Parts
<1>2. PositionBefore = NoPosition
  BY PositionBeforeEmpty
<1>3. CASE RebalanceNeeded
  <2>1. range' \in Ranges
    BY <1>1, <1>3, NewRangeInRanges DEF RebalanceNeeded, Settings
  <2>2. Tracked'
    BY <1>2, <1>3, <2>1, RebalanceAfterTracked DEF RebalanceNeeded
  <2>3. fuseStatus' \in FuseStatus
    BY <1>1, <1>3, FuseStatusType DEF RebalanceNeeded, Settings
  <2>4. withdrawDone' \in {0, 1}
    BY <1>1, <1>3 DEF RebalanceNeeded, Settings
  <2>5. Settings'
    BY <1>1, <1>3, <2>1, <2>3, <2>4 DEF RebalanceNeeded, RebalanceNoSwaps, Settings, market
  <2> QED
    BY <2>2, <2>5 DEF IInv, TypeOK, Settings, Tracked
<1>4. CASE RebalanceNotNeeded
  <2>1. range' \in Ranges
    BY <1>1, <1>4 DEF RebalanceNotNeeded, Settings
  <2>2. Tracked'
    BY <1>2, <1>4, <2>1, RebalanceAfterTracked DEF RebalanceNotNeeded
  <2>3. Settings'
    BY <1>1, <1>4 DEF RebalanceNotNeeded, RebalanceNoSwaps, Settings, market
  <2> QED
    BY <2>2, <2>3 DEF IInv, TypeOK, Settings, Tracked
<1> QED
  BY <1>3, <1>4 DEF RebalanceNoSwaps

LEMMA WithdrawByAggStepStep ==
  ASSUME IInv, NEW plan \in Plans, NEW pool \in BOOLEAN, NEW entry \in 0..2,
         WithdrawByAggStep(plan, pool, entry)
  PROVE  IInv'
<1>1. Settings
  BY Parts
<1>2. PositionBefore = NoPosition
  BY PositionBeforeEmpty
<1>3. range' = range \/ range' = CalcNewTickRange(tick, range, TickSpacing)
  BY Zenon DEF WithdrawByAggStep
<1>4. range' \in Ranges
  BY <1>1, <1>3, NewRangeInRanges DEF Settings
<1>5. \E amounts : RebalanceAfter(PositionBefore, amounts)
  BY Zenon DEF WithdrawByAggStep
<1>6. Tracked'
  BY <1>2, <1>4, <1>5, RebalanceAfterTracked
<1>7. debts' \subseteq Directions
  BY <1>1, DebtsAfterStepType DEF WithdrawByAggStep, Settings
<1>8. withdrawDone' \in {0, 1} /\ lastRebalanceNoSwap' \in {0, 1}
  BY <1>1 DEF WithdrawByAggStep, Settings
<1>9. Settings'
  BY <1>1, <1>4, <1>7, <1>8 DEF WithdrawByAggStep, Settings, market
<1> QED
  BY <1>6, <1>9 DEF IInv, TypeOK, Settings, Tracked

LEMMA OperatorStepStep ==
  ASSUME IInv, OperatorStep
  PROVE  IInv'
<1>1. CASE \E check \in BOOLEAN : RebalanceNoSwaps(check)
  BY <1>1, RebalanceStep
<1>2. CASE \E plan \in Plans, pool \in BOOLEAN, entry \in 0..2 : WithdrawByAggStep(plan, pool, entry)
  BY <1>2, WithdrawByAggStepStep
<1>3. CASE \E status \in ManualStatuses : SetFuseStatus(status)
  BY <1>3, OperatorAssumption DEF SetFuseStatus, market, IInv, TypeOK, LiquidityIsTracked
<1>4. CASE \E v \in ThresholdChoices : SetFuseThresholds(v)
  BY <1>4, OperatorAssumption DEF SetFuseThresholds, market, IInv, TypeOK, LiquidityIsTracked
<1>5. CASE \E d \in {0, 1} : SetWithdrawDone(d)
  BY <1>5 DEF SetWithdrawDone, market, IInv, TypeOK, LiquidityIsTracked
<1> QED
  BY <1>1, <1>2, <1>3, <1>4, <1>5 DEF OperatorStep

LEMMA NextStep ==
  ASSUME IInv, [Next]_vars
  PROVE  IInv'
<1>1. CASE OperatorStep
  BY <1>1, OperatorStepStep
<1>2. CASE Deposit
  <2>1. CASE UNCHANGED <<position, totalLiquidity, debts>> /\ UNCHANGED Others
    BY <2>1 DEF Others, market, IInv, TypeOK, LiquidityIsTracked
  <2> QED
    BY <1>2, <2>1, DepositToPoolUniversalStep DEF Deposit
<1>3. CASE Withdraw
  BY <1>3, MakeRequestedAmountStep DEF Withdraw, WithdrawUniversal
<1>4. CASE HardWork
  BY <1>4, DepositToPoolUniversalStep DEF HardWork
<1>5. CASE RequirePayAmountBack
  BY <1>5, MakeRequestedAmountStep DEF RequirePayAmountBack
<1>6. CASE EmergencyExit
  <2>1. Tracked'
    BY <1>6, DepositorExitTracked DEF EmergencyExit, Others, market, IInv, TypeOK
  <2>2. Settings'
    BY <1>6, Parts DEF EmergencyExit, Others, market, Settings
  <2> QED
    BY <2>1, <2>2 DEF IInv, TypeOK, Settings, Tracked
<1>7. CASE MarketMove
  BY <1>7 DEF MarketMove, pair, IInv, TypeOK, LiquidityIsTracked
<1>8. CASE UNCHANGED vars
  BY <1>8 DEF vars, pair, market, IInv, TypeOK, LiquidityIsTracked
<1> QED
  BY <1>1, <1>2, <1>3, <1>4, <1>5, <1>6, <1>7, <1>8 DEF Next

LEMMA InitInv == Init => IInv
<1> SUFFICES ASSUME Init PROVE IInv
  OBVIOUS
<1>1. range \in Ranges
  BY DEF Init, Ranges
<1>2. fuseStatus \in FuseStatus
  BY DEF Init, FuseStatus
<1> QED
  BY <1>1, <1>2, OperatorAssumption DEF Init, IInv, TypeOK, LiquidityIsTracked

THEOREM Invariance == Spec => []IInv
<1>1. IInv /\ [Next]_vars => IInv'
  BY NextStep
<1> QED
  BY InitInv, <1>1, PTL DEF Spec

\* Every variable stays in its domain; in particular the range always has the
\* width that init gave it, wherever the market has pushed it.
THEOREM TypeCorrect == Spec => []TypeOK
<1>1. IInv => TypeOK
  BY DEF IInv
<1> QED
  BY Invariance, <1>1, PTL

\* The liquidity the strategy tracks is all the liquidity the pool holds.
THEOREM LiquidityTracked == Spec => []LiquidityIsTracked
<1>1. IInv => LiquidityIsTracked
  BY DEF IInv
<1> QED
  BY Invariance, <1>1, PTL

-----------------------------------------------------------------------------
\* When the pool needs no rebalance the current tick is inside the range: the
\* rebalance tolerance never exceeds half of the width.
LEMMA NoNeedInRange ==
  ASSUME tick \in Ticks, range \in Ranges, ~NeedPool
  PROVE  InRange(tick, range)
<1>1. /\ TickSpacing \in Nat \ {0} /\ TickRange \in Nat /\ RebalanceTickRange \in Nat
      /\ Ticks \subseteq Int
      /\ TickRange # 0 => TickSpacing <= RebalanceTickRange /\ RebalanceTickRange <= TickRange
  BY TickAssumption
<1>2. PICK u \in Ticks : range = CalcTickRange(u, TickRange, TickSpacing)
  BY DEF Ranges
<1>3. /\ range.lower \in Int
      /\ range.upper = range.lower + (IF TickRange = 0 THEN TickSpacing ELSE 2 * TickRange)
  BY <1>1, <1>2, CalcTickRangeWidth
<1>4. tick \in Int /\ ~NeedPoolRebalance(tick, range, TickSpacing, RebalanceTickRange)
  BY <1>1 DEF NeedPool
<1>5. CASE TickRange = 0
  BY <1>1, <1>3, <1>4, <1>5 DEF NeedPoolRebalance, InRange
<1>6. CASE TickRange # 0
  <2>1. range.upper - range.lower = 2 * TickRange /\ 2 * TickRange # TickSpacing
    BY <1>1, <1>3, <1>6
  <2>2. DivTrunc(range.upper - range.lower, 2) = TickRange
    BY <1>1, <2>1, HalfWidth
  <2>3. IF tick > range.lower + TickRange
        THEN tick - (range.lower + TickRange) < RebalanceTickRange
        ELSE (range.lower + TickRange) - tick <= RebalanceTickRange
    BY <1>1, <1>3, <1>4, <2>1, <2>2 DEF NeedPoolRebalance
  <2> QED
    BY <1>1, <1>3, <1>4, <1>6, <2>3 DEF InRange
<1> QED
  BY <1>5, <1>6

\* A range computed at the current tick holds it.
LEMMA MovedInRange ==
  ASSUME tick \in Ticks, range \in Ranges
  PROVE  InRange(tick, CalcNewTickRange(tick, range, TickSpacing))
<1>1. CalcNewTickRange(tick, range, TickSpacing) = CalcTickRange(tick, TickRange, TickSpacing)
  BY NewRangeInRanges
<1>2. PICK k \in Nat : TickRange = k * TickSpacing
  BY WholeSpacings
<1> QED
  BY <1>1, <1>2, TickAssumption, NewRangeHoldsTick

\* What every step that adds liquidity has in common
Entry == InRange(tick, range') /\ ~FuseIsOn'

LEMMA DepositEntry ==
  ASSUME IInv, ~FuseIsOn, DepositToPoolUniversal, UNCHANGED Others, totalLiquidity' > totalLiquidity
  PROVE  Entry
<1>1. totalLiquidity \in Nat /\ tick \in Ticks /\ range \in Ranges
  BY DEF IInv, TypeOK
<1>2. ~WithdrawUniversal
  BY <1>1 DEF WithdrawUniversal, MakeRequestedAmount, DepositorExit
<1>3. ~NeedRebalance
  BY <1>1, <1>2 DEF DepositToPoolUniversal, EnterPool
<1>4. ~NeedPool
  BY <1>3 DEF NeedRebalance, FuseIsOn
<1> QED
  BY <1>1, <1>4, NoNeedInRange DEF Entry, Others, market, FuseIsOn

\* What _rebalanceAfter puts into the pool, it puts there with the fuse off.
LEMMA RebalanceAfterEntry ==
  ASSUME NEW pos, NEW amounts, RebalanceAfter(pos, amounts), totalLiquidity' # 0
  PROVE  Len(amounts) = 2 /\ ~FuseIsOn'
BY DEF RebalanceAfter, FuseIsOn

\* A rebalance that is not out of the pool has entered it at the current tick.
LEMMA RebalanceEntry ==
  ASSUME IInv, NEW check, RebalanceNoSwaps(check), totalLiquidity' # 0
  PROVE  Entry
<1>1. tick \in Ticks /\ range \in Ranges
  BY DEF IInv, TypeOK
<1>2. InRange(tick, CalcNewTickRange(tick, range, TickSpacing))
  BY <1>1, MovedInRange
<1>3. Len(<<>>) # 2
  OBVIOUS
<1>4. ~RebalanceNotNeeded
  BY <1>3, RebalanceAfterEntry DEF RebalanceNotNeeded
<1>5. RebalanceNeeded
  BY <1>4 DEF RebalanceNoSwaps
<1> QED
  BY <1>2, <1>5, RebalanceAfterEntry DEF RebalanceNeeded, Entry

\* So has a withdraw step, which moves the range when it may enter.
LEMMA WithdrawStepEntry ==
  ASSUME IInv, NEW plan, NEW pool, NEW entry, WithdrawByAggStep(plan, pool, entry),
         totalLiquidity' # 0
  PROVE  Entry
<1>1. tick \in Ticks /\ range \in Ranges
  BY DEF IInv, TypeOK
<1>2. InRange(tick, CalcNewTickRange(tick, range, TickSpacing))
  BY <1>1, MovedInRange
<1> DEFINE e == EntryAllowed(entry, SwapLeftovers(plan))
<1>3. PICK a \in Balances, b \in Balances :
        RebalanceAfter(PositionBefore, IF e THEN TokenAmountsPair(a, b) ELSE <<>>)
  BY Zenon DEF WithdrawByAggStep
<1>4. Len(<<>>) # 2
  OBVIOUS
<1>5. e /\ ~FuseIsOn'
  BY <1>3, <1>4, RebalanceAfterEntry
<1>6. range' = IF e THEN CalcNewTickRange(tick, range, TickSpacing) ELSE range
  BY Zenon DEF WithdrawByAggStep
<1> QED
  BY <1>2, <1>5, <1>6 DEF Entry

\* Whatever call adds liquidity, it does so at the current tick and with the fuse off.
LEMMA AddedLiquidity ==
  ASSUME IInv, Next, totalLiquidity' > totalLiquidity
  PROVE  Entry
<1>1. totalLiquidity \in Nat
  BY DEF IInv, TypeOK
<1>2. totalLiquidity' # 0
  BY <1>1
<1>3. CASE \E check \in BOOLEAN : RebalanceNoSwaps(check)
  BY <1>2, <1>3, RebalanceEntry
<1>4. CASE \E plan \in Plans, pool \in BOOLEAN, entry \in 0..2 : WithdrawByAggStep(plan, pool, entry)
  BY <1>2, <1>4, WithdrawStepEntry
<1>5. CASE Deposit
  BY <1>1, <1>5, DepositEntry DEF Deposit
<1>6. CASE HardWork
  BY <1>6, DepositEntry DEF HardWork
<1>7. ~(Withdraw \/ RequirePayAmountBack \/ EmergencyExit)
  BY <1>1 DEF Withdraw, WithdrawUniversal, RequirePayAmountBack, EmergencyExit, MakeRequestedAmount, DepositorExit
<1>8. ~MarketMove /\ ~(\E s \in ManualStatuses : SetFuseStatus(s))
       /\ ~(\E v \in ThresholdChoices : SetFuseThresholds(v)) /\ ~(\E d \in {0, 1} : SetWithdrawDone(d))
  BY <1>1 DEF MarketMove, pair, SetFuseStatus, SetFuseThresholds, SetWithdrawDone
<1> QED
  BY <1>3, <1>4, <1>5, <1>6, <1>7, <1>8 DEF Next, OperatorStep

\* While the fuse is triggered no call puts liquidity into the pool.
THEOREM FuseKeepsOut == Spec => NoEntryWhileFuseOn
<1>1. IInv /\ [Next]_vars => [FuseIsOn' => totalLiquidity' <= totalLiquidity]_vars
  <2>1. SUFFICES ASSUME IInv, [Next]_vars, FuseIsOn', ~(UNCHANGED vars)
                 PROVE  totalLiquidity' <= totalLiquidity
    OBVIOUS
  <2>2. Next
    BY <2>1
  <2>3. totalLiquidity \in Nat /\ totalLiquidity' \in Nat
    BY <2>1, NextStep DEF IInv, TypeOK
  <2> QED
    BY <2>1, <2>2, <2>3, AddedLiquidity DEF Entry
<1> QED
  BY Invariance, <1>1, PTL DEF Spec, NoEntryWhileFuseOn

\* Liquidity is only added to a range that holds the current tick.
THEOREM EntryIsInRange == Spec => EntryInRange
<1>1. IInv /\ [Next]_vars => [totalLiquidity' > totalLiquidity => InRange(tick, range')]_vars
  BY AddedLiquidity DEF Entry
<1> QED
  BY Invariance, <1>1, PTL DEF Spec, EntryInRange

\* A needed rebalance leaves nothing to do for the range of the pool.
THEOREM RebalanceCenters == Spec => RebalanceCentersRange
<1>1. IInv /\ [Next]_vars => [RebalanceNoSwaps(TRUE) => ~NeedPool']_vars
  <2>1. SUFFICES ASSUME IInv, [Next]_vars, RebalanceNoSwaps(TRUE), ~(UNCHANGED vars)
                 PROVE  ~NeedPool'
    OBVIOUS
  <2>2. tick \in Ticks /\ range \in Ranges /\ tick \in Int
    BY <2>1, TickAssumption DEF IInv, TypeOK
  <2>3. range' = CalcTickRange(tick, TickRange, TickSpacing)
    BY <2>1, <2>2, NewRangeInRanges DEF RebalanceNoSwaps, RebalanceNeeded
  <2>4. PICK k \in Nat : TickRange = k * TickSpacing
    BY WholeSpacings
  <2>5. k # 0 => TickRange # 0
    <3>1. ASSUME k # 0 PROVE TickRange # 0
      <4>1. (k - 1) * TickSpacing >= 0 /\ (k - 1) * TickSpacing = TickRange - TickSpacing
        BY <2>4, <3>1, TickAssumption
      <4> QED
        BY <4>1, TickAssumption
    <3> QED
      BY <3>1
  <2>6. ~NeedPoolRebalance(tick, range', TickSpacing, RebalanceTickRange)
    BY <2>2, <2>3, <2>4, <2>5, TickAssumption, NewRangeNeedsNoRebalance
  <2>7. tick' = tick
    BY <2>1 DEF RebalanceNoSwaps, market
  <2> QED
    BY <2>6, <2>7 DEF NeedPool
<1> QED
  BY Invariance, <1>1, PTL DEF Spec, RebalanceCentersRange

\* Prices that trigger the fuse find the pool empty after the same call.
THEOREM FuseEmpties == Spec => FuseEmptiesPool
<1> DEFINE ByHand == \E s \in ManualStatuses : SetFuseStatus(s)
           Emptied == ~FuseIsOn /\ FuseIsOn' /\ ~ByHand => totalLiquidity' = 0
<1>1. ASSUME [Next]_vars, ~FuseIsOn, FuseIsOn', ~ByHand PROVE totalLiquidity' = 0
  <2>1. fuseStatus' # fuseStatus
    BY <1>1 DEF FuseIsOn
  <2>2. Next
    BY <1>1, <2>1 DEF vars, pair
  <2>3. \E check \in BOOLEAN : RebalanceNoSwaps(check)
    BY <1>1, <2>1, <2>2 DEF Next, OperatorStep, WithdrawByAggStep, SetFuseThresholds, SetWithdrawDone,
      Deposit, Withdraw, HardWork, RequirePayAmountBack, EmergencyExit, MarketMove, Others, pair
  <2>4. RebalanceNeeded
    BY <2>1, <2>3 DEF RebalanceNoSwaps, RebalanceNotNeeded
  <2>5. PICK amounts : RebalanceAfter(PositionBefore, amounts)
    BY <2>4 DEF RebalanceNeeded
  <2> QED
    BY <1>1, <2>5 DEF RebalanceAfter, FuseIsOn
<1>2. [Next]_vars => [Emptied]_vars
  BY <1>1
<1> QED
  BY <1>2, PTL DEF Spec, FuseEmptiesPool

\* A step of a plan that repays reports the withdraw as done on closed debts only, unless
\* it was asked to follow the pool's moving proportions.
THEOREM WithdrawIsDoneAfterRepay == Spec => WithdrawDoneAfterRepay
<1>1. ASSUME IInv, NEW plan \in Plans \ {PlanSwapOnly}, NEW entry \in 0..2,
             WithdrawByAggStep(plan, FALSE, entry), withdrawDone' > withdrawDone
      PROVE  debts' = {}
  <2>1. withdrawDone' # withdrawDone
    BY <1>1 DEF IInv, TypeOK
  <2>2. withdrawDone' = IF SwapLeftovers(plan) /\ FuseIsOn THEN 1 ELSE withdrawDone
    BY <1>1, Zenon DEF WithdrawByAggStep
  <2>3. SwapLeftovers(plan)
    BY <2>1, <2>2
  <2>4. debts = {}
    BY <2>3 DEF SwapLeftovers
  <2>5. debts' \in DebtsAfterStep(plan, FALSE)
    BY <1>1, Zenon DEF WithdrawByAggStep
  <2> QED
    BY <2>3, <2>4, <2>5 DEF DebtsAfterStep
<1>2. IInv /\ [Next]_vars
        => [\A plan \in Plans \ {PlanSwapOnly}, entry \in 0..2 :
              WithdrawByAggStep(plan, FALSE, entry) /\ withdrawDone' > withdrawDone => debts' = {}]_vars
  BY <1>1
<1> QED
  BY Invariance, <1>2, PTL DEF Spec, WithdrawDoneAfterRepay

-----------------------------------------------------------------------------
(* What the vault may expect of the position: PoolPosition *)

LEMMA NowhereIsNoPosition == Position!Nowhere = NoPosition
BY DEF Position!Nowhere, NoPosition

\* Tracked liquidity is liquidity at the range of the strategy only.
LEMMA TrackedIsOnlyAt ==
  ASSUME IInv
  PROVE  Position!OnlyAt(position, range) /\ position[range] = totalLiquidity
BY DEF IInv, TypeOK, LiquidityIsTracked, Position!OnlyAt

LEMMA InitRefines == Init => Position!Init
<1> SUFFICES ASSUME Init PROVE Position!Init
  OBVIOUS
<1>1. range \in Ranges
  BY DEF Init, Ranges
<1>2. ~FuseIsOn
  BY DEF Init, FuseIsOn, IsFuseTriggeredOn, FuseOff, FuseDisabled, FuseOnLower, FuseOnUpper
<1>3. position = Position!Nowhere
  BY NowhereIsNoPosition DEF Init, NoPosition
<1> QED
  BY <1>1, <1>2, <1>3 DEF Position!Init

\* The tracked liquidity shrinks: liquidity leaves the pool.
LEMMA LeaveRefines ==
  ASSUME IInv, IInv', UNCHANGED Others, totalLiquidity' <= totalLiquidity
  PROVE  Position!Leave
<1>1. Position!OnlyAt(position', range') /\ position'[range'] = totalLiquidity'
  BY DEF IInv, TypeOK, LiquidityIsTracked, Position!OnlyAt
<1>2. position[range] = totalLiquidity
  BY TrackedIsOnlyAt
<1>3. range' = range /\ tick' = tick /\ FuseIsOn' = FuseIsOn
  BY DEF Others, market, FuseIsOn
<1> QED
  BY <1>1, <1>2, <1>3 DEF Position!Leave

\* Liquidity is in the pool, and an entry brought it there.
LEMMA PlaceRefines ==
  ASSUME IInv', tick' = tick, Entry
  PROVE  Position!Place
<1>1. Position!OnlyAt(position', range') /\ range' \in Ranges
  BY DEF IInv, TypeOK, LiquidityIsTracked, Position!OnlyAt
<1>2. Position!InRange(tick, range') /\ ~FuseIsOn'
  BY DEF Entry, Position!InRange, InRange
<1> QED
  BY <1>1, <1>2 DEF Position!Place

\* All is taken out.
LEMMA LeaveAllRefines ==
  ASSUME IInv', tick' = tick, totalLiquidity' = 0
  PROVE  Position!LeaveAll
<1>1. position' = Position!Nowhere
  <2>1. position' \in [Ranges -> Nat] /\ \A r \in Ranges : position'[r] = 0
    BY DEF IInv, TypeOK, LiquidityIsTracked
  <2> QED
    BY <2>1, NowhereIsNoPosition DEF NoPosition
<1>2. range' \in Ranges /\ FuseIsOn' \in BOOLEAN
  BY DEF IInv, TypeOK, FuseIsOn, IsFuseTriggeredOn
<1> QED
  BY <1>1, <1>2 DEF Position!LeaveAll

\* A call that leaves range, fuse and prices alone adds liquidity or takes some out.
LEMMA CallRefines ==
  ASSUME IInv, IInv', Next, UNCHANGED Others
  PROVE  Position!Leave \/ Position!Place
<1>1. totalLiquidity \in Nat /\ totalLiquidity' \in Nat
  BY DEF IInv, TypeOK
<1>2. CASE totalLiquidity' <= totalLiquidity
  BY <1>2, LeaveRefines
<1>3. CASE totalLiquidity' > totalLiquidity
  <2>1. Entry /\ tick' = tick
    BY <1>3, AddedLiquidity DEF Others, market
  <2> QED
    BY <2>1, PlaceRefines
<1> QED
  BY <1>1, <1>2, <1>3

\* A rebalance or a withdraw step is out of the pool, or has entered it.
LEMMA RebalanceRefines ==
  ASSUME IInv', tick' = tick, totalLiquidity' # 0 => Entry
  PROVE  Position!LeaveAll \/ Position!Place
BY LeaveAllRefines, PlaceRefines

\* Every step of the strategy is a step of PoolPosition, or none.
LEMMA NextRefines ==
  ASSUME IInv, IInv', [Next]_vars
  PROVE  [Position!Next]_(Position!vars)
<1>1. CASE \E check \in BOOLEAN : RebalanceNoSwaps(check)
  <2>1. tick' = tick
    BY <1>1 DEF RebalanceNoSwaps, market
  <2> QED
    BY <1>1, <2>1, RebalanceEntry, RebalanceRefines DEF Position!Next
<1>2. CASE \E plan \in Plans, pool \in BOOLEAN, entry \in 0..2 : WithdrawByAggStep(plan, pool, entry)
  <2>1. tick' = tick
    BY <1>2, Zenon DEF WithdrawByAggStep, market
  <2> QED
    BY <1>2, <2>1, WithdrawStepEntry, RebalanceRefines DEF Position!Next
<1>3. CASE \E s \in ManualStatuses : SetFuseStatus(s)
  <2>1. ManualStatuses # {} /\ UNCHANGED <<tick, range, position>>
    BY <1>3 DEF SetFuseStatus, market
  <2>2. FuseIsOn' \in BOOLEAN
    BY DEF FuseIsOn, IsFuseTriggeredOn
  <2> QED
    BY <2>1, <2>2 DEF Position!Next, Position!SwitchByHand
<1>4. CASE (\E v \in ThresholdChoices : SetFuseThresholds(v)) \/ \E d \in {0, 1} : SetWithdrawDone(d)
  BY <1>4 DEF SetFuseThresholds, SetWithdrawDone, market, FuseIsOn, Position!vars
<1>5. CASE Deposit \/ Withdraw \/ HardWork \/ RequirePayAmountBack \/ EmergencyExit
  <2>1. UNCHANGED Others
    BY <1>5 DEF Deposit, Withdraw, HardWork, RequirePayAmountBack, EmergencyExit
  <2>2. Next
    BY <1>5 DEF Next
  <2> QED
    BY <2>1, <2>2, CallRefines DEF Position!Next
<1>6. CASE MarketMove
  BY <1>6 DEF MarketMove, pair, FuseIsOn, Position!Next, Position!PriceMoves
<1>7. CASE UNCHANGED vars
  BY <1>7 DEF vars, market, pair, FuseIsOn, Position!vars
<1> QED
  BY <1>1, <1>2, <1>3, <1>4, <1>5, <1>6, <1>7 DEF Next, OperatorStep

\* The strategy keeps to PoolPosition, whoever calls and however the market moves: its
\* liquidity is at its range, placed there with the fuse off and the price inside, and
\* prices that switch the fuse on empty the pool.
THEOREM Refinement == Spec => ImplementsPoolPosition
<1>1. Init => Position!Init
  BY InitRefines
<1>2. IInv /\ IInv' /\ [Next]_vars => [Position!Next]_(Position!vars)
  BY NextRefines
<1> QED
  BY <1>1, <1>2, Invariance, PTL DEF Spec, ImplementsPoolPosition, Position!Spec

\* When the operator never sets the fuse by hand, nothing of the strategy is in the pool
\* while the fuse is triggered.
THEOREM TriggeredFuseMeansEmptyPool == Spec => []Position!SafeUnderFuse
<1> DEFINE Safe == Position!SafeUnderFuse
<1>1. Init => Safe
  BY InitRefines DEF Position!Init, Position!SafeUnderFuse
<1>2. ASSUME IInv, IInv', [Next]_vars, Safe
      PROVE  Safe'
  <2>1. [Position!Next]_(Position!vars)
    BY <1>2, NextRefines
  <2>2. SUFFICES ASSUME ManualStatuses = {}, FuseIsOn'
                 PROVE  position' = Position!Nowhere
    BY DEF Position!SafeUnderFuse, Position!Nowhere
  <2>3. ~Position!Place /\ ~Position!SwitchByHand
    BY <2>2 DEF Position!Place, Position!SwitchByHand
  <2>4. CASE Position!LeaveAll
    BY <2>4 DEF Position!LeaveAll
  <2>5. CASE Position!PriceMoves \/ UNCHANGED Position!vars
    BY <1>2, <2>2, <2>5 DEF Position!PriceMoves, Position!vars, Position!SafeUnderFuse
  <2>6. CASE Position!Leave
    <3>1. position = Position!Nowhere /\ range' = range /\ range \in Ranges
      BY <1>2, <2>2, <2>6 DEF Position!Leave, Position!SafeUnderFuse, IInv, TypeOK
    <3>2. /\ position' \in [Ranges -> Nat]
          /\ \A r \in Ranges : position'[r] = 0
      BY <2>6, <3>1 DEF Position!Leave, Position!OnlyAt, Position!Nowhere
    <3> QED
      BY <3>2, NowhereIsNoPosition DEF NoPosition
  <2> QED
    BY <2>1, <2>3, <2>4, <2>5, <2>6 DEF Position!Next
<1> QED
  BY <1>1, <1>2, Invariance, PTL DEF Spec
=============================================================================
