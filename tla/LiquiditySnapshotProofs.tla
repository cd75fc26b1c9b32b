---------------------- MODULE LiquiditySnapshotProofs ----------------------
(***************************************************************************)
(* Proofs about LiquiditySnapshot, for pools of any liquidity, any tick    *)
(* spacing and any number of surrounding ticks.                            *)
(***************************************************************************)
EXTENDS LiquiditySnapshot, TLAPS

\* The index of the k-th tick above the current one, below it for k < 0.
TickAt(k) == ActiveTickIdx(pool) + k * TickSpacing

\* How far the walks have come: the ticks from Lowest to i, or to the last.
Lowest == IF phase = "up" THEN 0 ELSE 0 - i
Highest == IF phase = "up" THEN i ELSE NumSurroundingTicks
Here == IF phase = "up" THEN i ELSE 0 - i

WalkedTo == previous.tickIdx = TickAt(Here)
PreviousIsRight == previous.liquidityActive = pool.liquidity[previous.tickIdx]
ProcessedIsWalked == {t.tickIdx : t \in processed} = {TickAt(k) : k \in Lowest .. Highest}
DoneIsWhole == phase = "done" => i = NumSurroundingTicks

IInv == TypeOK /\ WalkedTo /\ PreviousIsRight /\ SnapshotIsLiquidity /\ ProcessedIsWalked /\ DoneIsWhole

-----------------------------------------------------------------------------
LEMMA ActiveTickIdxIsInt ==
  ASSUME SpacingAssumption, PoolAssumption, NEW p \in Pools
  PROVE  ActiveTickIdx(p) \in Int
<1>1. p.tick \in Int /\ TickSpacing \in Int /\ TickSpacing > 0
  BY DEF SpacingAssumption, PoolAssumption
<1>2. p.tick \div TickSpacing \in Int
  BY <1>1
<1>. QED BY <1>1, <1>2 DEF ActiveTickIdx

\* Neighbouring ticks are one spacing apart.
LEMMA NextTick ==
  ASSUME SpacingAssumption, PoolAssumption, pool \in Pools, NEW k \in Int
  PROVE  TickAt(k) \in Int /\ TickAt(k + 1) = TickAt(k) + TickSpacing /\ TickAt(k - 1) = TickAt(k) - TickSpacing
<1> DEFINE a == ActiveTickIdx(pool)
<1>1. a \in Int
  BY ActiveTickIdxIsInt
<1>2. TickSpacing \in Int
  BY DEF SpacingAssumption
<1> HIDE DEF a
<1>3. k * TickSpacing \in Int
  BY <1>2
<1>4. (k + 1) * TickSpacing = k * TickSpacing + TickSpacing /\ (k - 1) * TickSpacing = k * TickSpacing - TickSpacing
  BY <1>2
<1>5. TickAt(k) = a + k * TickSpacing /\ TickAt(k + 1) = a + (k + 1) * TickSpacing
      /\ TickAt(k - 1) = a + (k - 1) * TickSpacing
  BY DEF TickAt, a
<1>. QED BY <1>1, <1>2, <1>3, <1>4, <1>5

\* The ticks a walk can come to are ticks of the pool.
LEMMA TickAtIsTick ==
  ASSUME PoolAssumption, pool \in Pools, NEW k \in -NumSurroundingTicks .. NumSurroundingTicks
  PROVE  TickAt(k) \in Ticks
  BY DEF PoolAssumption, TickAt

\* What a pool keeps: the liquidity of a tick and of its neighbours.
LEMMA NetLiquidity ==
  ASSUME SpacingAssumption, PoolAssumption, pool \in Pools, NEW k \in Int,
         TickAt(k) \in Ticks, TickAt(k + 1) \in Ticks
  PROVE  /\ pool.liquidity[TickAt(k)] \in Int
         /\ pool.liquidityNet[TickAt(k + 1)] \in Int
         /\ pool.liquidity[TickAt(k + 1)] = pool.liquidity[TickAt(k)] + pool.liquidityNet[TickAt(k + 1)]
<1>1. TickAt(k + 1) = TickAt(k) + TickSpacing
  BY NextTick
<1>. QED BY <1>1 DEF PoolAssumption

\* One tick more, at either end, lengthens the row of ticks by one.
LEMMA RowGrows ==
  ASSUME NEW lo \in Int, NEW hi \in Int, lo <= hi
  PROVE  /\ {TickAt(k) : k \in lo .. hi} \cup {TickAt(hi + 1)} = {TickAt(k) : k \in lo .. (hi + 1)}
         /\ {TickAt(k) : k \in lo .. hi} \cup {TickAt(lo - 1)} = {TickAt(k) : k \in (lo - 1) .. hi}
<1>1. lo .. (hi + 1) = (lo .. hi) \cup {hi + 1}
  OBVIOUS
<1>2. (lo - 1) .. hi = (lo .. hi) \cup {lo - 1}
  OBVIOUS
<1>3. \A S, x : {TickAt(k) : k \in S \cup {x}} = {TickAt(k) : k \in S} \cup {TickAt(x)}
  OBVIOUS
<1>. QED BY <1>1, <1>2, <1>3

-----------------------------------------------------------------------------
LEMMA InitIInv == ASSUME SpacingAssumption, PoolAssumption, Init PROVE IInv
<1> USE DEF Init
<1> DEFINE a == ActiveTickIdx(pool)
<1>1. a \in Int /\ TickSpacing \in Int /\ NumSurroundingTicks \in Nat
  BY ActiveTickIdxIsInt DEF SpacingAssumption
<1>2. TickAt(0) = a
  <2> HIDE DEF a
  <2>1. 0 * TickSpacing = 0
    BY <1>1
  <2>2. TickAt(0) = a + 0 * TickSpacing
    BY DEF TickAt, a
  <2>. QED BY <1>1, <2>1, <2>2
<1>3. 0 \in -NumSurroundingTicks .. NumSurroundingTicks
  BY <1>1
<1>4. a \in Ticks
  BY <1>2, <1>3, TickAtIsTick
<1>5. pool.liquidity[a] \in Int
  BY <1>4 DEF PoolAssumption
<1>6. previous = [tickIdx |-> a, liquidityActive |-> pool.liquidity[a]] /\ processed = {previous}
  BY DEF ActiveTick
<1> HIDE DEF a
<1>7. TypeOK
  BY <1>1, <1>4, <1>5, <1>6 DEF TypeOK, ProcessedTick
<1>8. WalkedTo /\ PreviousIsRight /\ SnapshotIsLiquidity /\ DoneIsWhole
  BY <1>2, <1>6 DEF WalkedTo, PreviousIsRight, SnapshotIsLiquidity, DoneIsWhole, Here
<1>9. ProcessedIsWalked
  <2>1. {t.tickIdx : t \in processed} = {a}
    BY <1>6
  <2>2. Lowest .. Highest = {0}
    BY DEF Lowest, Highest
  <2>. QED BY <2>1, <2>2, <1>2 DEF ProcessedIsWalked
<1>. QED BY <1>7, <1>8, <1>9 DEF IInv

\* A tick that is processed after the last one, at either end of the row.
LEMMA WalkKeeps ==
  ASSUME SpacingAssumption, PoolAssumption, IInv,
         phase \in {"up", "down"}, i < NumSurroundingTicks,
         NEW t, t.tickIdx = TickAt(IF phase = "up" THEN i + 1 ELSE -i - 1),
         t \in ProcessedTick, t.liquidityActive = pool.liquidity[t.tickIdx],
         previous' = t, processed' = processed \cup {t}, i' = i + 1, UNCHANGED <<pool, phase>>
  PROVE  IInv'
<1> USE DEF IInv
<1>1. i \in Nat /\ NumSurroundingTicks \in Nat /\ i + 1 \in 0 .. NumSurroundingTicks
  BY DEF TypeOK, SpacingAssumption
<1>2. TypeOK'
  BY <1>1 DEF TypeOK
<1>3. \A k : TickAt(k)' = TickAt(k)
  BY DEF TickAt
<1>4. -i - 1 = 0 - (i + 1)
  BY <1>1
<1>5. WalkedTo' /\ PreviousIsRight' /\ DoneIsWhole'
  BY <1>3, <1>4 DEF WalkedTo, PreviousIsRight, DoneIsWhole, Here, TickAt
<1>6. SnapshotIsLiquidity'
  BY DEF SnapshotIsLiquidity
<1>7. ProcessedIsWalked'
  <2>1. {u.tickIdx : u \in processed'} = {u.tickIdx : u \in processed} \cup {t.tickIdx}
    OBVIOUS
  <2>2. {u.tickIdx : u \in processed} = {TickAt(k) : k \in Lowest .. Highest}
    BY DEF ProcessedIsWalked
  <2>3. Lowest \in Int /\ Highest \in Int /\ Lowest <= Highest
    BY <1>1 DEF Lowest, Highest
  <2>4. {u.tickIdx : u \in processed'} = {TickAt(k) : k \in Lowest' .. Highest'}
    <3>1. CASE phase = "up"
      <4>1. Lowest' = Lowest /\ Highest' = Highest + 1 /\ t.tickIdx = TickAt(Highest + 1)
        BY <3>1 DEF Lowest, Highest
      <4>. QED BY <2>1, <2>2, <2>3, <4>1, RowGrows
    <3>2. CASE phase = "down"
      <4>1. Lowest' = Lowest - 1 /\ Highest' = Highest /\ t.tickIdx = TickAt(Lowest - 1)
        BY <3>2, <1>1 DEF Lowest, Highest
      <4>. QED BY <2>1, <2>2, <2>3, <4>1, RowGrows
    <3>. QED BY <3>1, <3>2
  <2>5. {TickAt(k) : k \in Lowest' .. Highest'} = {TickAt(k)' : k \in Lowest' .. Highest'}
    BY <1>3
  <2>. QED BY <2>4, <2>5 DEF ProcessedIsWalked
<1>. QED BY <1>2, <1>5, <1>6, <1>7

LEMMA WalkUpKeeps == ASSUME SpacingAssumption, PoolAssumption, IInv, WalkUp PROVE IInv'
<1> USE DEF IInv, WalkUp
<1>1. i \in Int /\ i \in -NumSurroundingTicks .. NumSurroundingTicks
      /\ i + 1 \in -NumSurroundingTicks .. NumSurroundingTicks /\ pool \in Pools
  BY DEF TypeOK, SpacingAssumption
<1>2. previous.tickIdx = TickAt(i)
  BY DEF WalkedTo, Here
<1>3. TickAt(i) \in Ticks /\ TickAt(i + 1) \in Ticks /\ TickAt(i + 1) = TickAt(i) + TickSpacing
  BY <1>1, TickAtIsTick, NextTick
<1>4. TickAbove = [tickIdx |-> TickAt(i + 1),
                   liquidityActive |-> pool.liquidity[TickAt(i)] + pool.liquidityNet[TickAt(i + 1)]]
  BY <1>2, <1>3 DEF TickAbove, PreviousIsRight
<1>5. TickAbove = [tickIdx |-> TickAt(i + 1), liquidityActive |-> pool.liquidity[TickAt(i + 1)]]
      /\ pool.liquidity[TickAt(i + 1)] \in Int
  <2>1. pool.liquidity[TickAt(i + 1)] = pool.liquidity[TickAt(i)] + pool.liquidityNet[TickAt(i + 1)]
    BY <1>1, <1>3, NetLiquidity
  <2>2. pool.liquidity[TickAt(i + 1)] \in Int
    BY <1>1, <1>3 DEF PoolAssumption
  <2>. QED BY <1>4, <2>1, <2>2
<1>6. TickAbove \in ProcessedTick
  BY <1>3, <1>5 DEF ProcessedTick
<1>. QED BY <1>5, <1>6, WalkKeeps

LEMMA WalkDownKeeps == ASSUME SpacingAssumption, PoolAssumption, IInv, WalkDown PROVE IInv'
<1> USE DEF IInv, WalkDown
<1>1. i \in Int /\ -i \in Int /\ -i - 1 \in Int /\ -i \in -NumSurroundingTicks .. NumSurroundingTicks
      /\ -i - 1 \in -NumSurroundingTicks .. NumSurroundingTicks /\ pool \in Pools /\ (-i - 1) + 1 = -i
  BY DEF TypeOK, SpacingAssumption
<1>2. previous.tickIdx = TickAt(-i)
  <2>1. 0 - i = -i
    BY <1>1
  <2>. QED BY <2>1 DEF WalkedTo, Here
<1>3. TickAt(-i) \in Ticks /\ TickAt(-i - 1) \in Ticks /\ TickAt(-i - 1) = TickAt(-i) - TickSpacing
  BY <1>1, TickAtIsTick, NextTick
<1>4. TickBelow = [tickIdx |-> TickAt(-i - 1),
                   liquidityActive |-> pool.liquidity[TickAt(-i)] - pool.liquidityNet[TickAt(-i)]]
  BY <1>2, <1>3 DEF TickBelow, PreviousIsRight
<1>5. TickBelow = [tickIdx |-> TickAt(-i - 1), liquidityActive |-> pool.liquidity[TickAt(-i - 1)]]
      /\ pool.liquidity[TickAt(-i - 1)] \in Int
  <2>1. pool.liquidity[TickAt(-i)] = pool.liquidity[TickAt(-i - 1)] + pool.liquidityNet[TickAt(-i)]
        /\ pool.liquidityNet[TickAt(-i)] \in Int /\ pool.liquidity[TickAt(-i - 1)] \in Int
    BY <1>1, <1>3, NetLiquidity
  <2>. QED BY <1>4, <2>1
<1>6. TickBelow \in ProcessedTick
  BY <1>3, <1>5 DEF ProcessedTick
<1>. QED BY <1>5, <1>6, WalkKeeps

\* The walk down starts where the walk up did.
LEMMA TurnAroundKeeps == ASSUME SpacingAssumption, PoolAssumption, IInv, TurnAround PROVE IInv'
<1> USE DEF IInv, TurnAround
<1>1. NumSurroundingTicks \in Nat /\ pool \in Pools /\ TickSpacing \in Int
  BY DEF TypeOK, SpacingAssumption
<1>2. TickAt(0) = ActiveTickIdx(pool)
  <2> DEFINE a == ActiveTickIdx(pool)
  <2>1. a \in Int
    BY <1>1, ActiveTickIdxIsInt
  <2>2. TickAt(0) = a + 0 * TickSpacing
    BY DEF TickAt
  <2> HIDE DEF a
  <2>3. a + 0 * TickSpacing = a
    BY <1>1, <2>1
  <2>. QED BY <2>2, <2>3 DEF a
<1>3. 0 \in -NumSurroundingTicks .. NumSurroundingTicks
  BY <1>1
<1>4. TickAt(0) \in Ticks
  BY <1>1, <1>3, TickAtIsTick
<1>5. previous' = [tickIdx |-> TickAt(0), liquidityActive |-> pool.liquidity[TickAt(0)]]
  BY <1>2 DEF ActiveTick
<1>6. pool.liquidity[TickAt(0)] \in Int
  BY <1>1, <1>4 DEF PoolAssumption
<1>7. TypeOK'
  BY <1>1, <1>4, <1>5, <1>6 DEF TypeOK, ProcessedTick
<1>8. \A k : TickAt(k)' = TickAt(k)
  BY DEF TickAt
<1>9. Here' = 0 /\ Lowest' = 0 /\ Highest' = NumSurroundingTicks /\ Lowest = 0 /\ Highest = NumSurroundingTicks
  <2>1. Lowest = 0 /\ Highest = NumSurroundingTicks
    BY DEF Lowest, Highest
  <2>2. Here' = 0 - i' /\ Lowest' = 0 - i' /\ Highest' = NumSurroundingTicks
    BY DEF Here, Lowest, Highest
  <2>3. i' = 0
    BY DEF TurnAround
  <2>. QED BY <2>1, <2>2, <2>3
<1>10. WalkedTo' /\ PreviousIsRight' /\ DoneIsWhole'
  BY <1>5, <1>8, <1>9 DEF WalkedTo, PreviousIsRight, DoneIsWhole
<1>11. SnapshotIsLiquidity'
  BY DEF SnapshotIsLiquidity
<1>12. ProcessedIsWalked'
  BY <1>8, <1>9 DEF ProcessedIsWalked
<1>. QED BY <1>7, <1>10, <1>11, <1>12

LEMMA FinishKeeps == ASSUME SpacingAssumption, PoolAssumption, IInv, Finish PROVE IInv'
  BY DEF IInv, Finish, TypeOK, WalkedTo, PreviousIsRight, SnapshotIsLiquidity, ProcessedIsWalked, DoneIsWhole,
         Here, Lowest, Highest, TickAt

LEMMA StutterKeeps == ASSUME IInv, UNCHANGED vars PROVE IInv'
  BY DEF IInv, vars, TypeOK, WalkedTo, PreviousIsRight, SnapshotIsLiquidity, ProcessedIsWalked, DoneIsWhole,
         Here, Lowest, Highest, TickAt

LEMMA StepKeeps == ASSUME SpacingAssumption, PoolAssumption, IInv, [Next]_vars PROVE IInv'
  BY WalkUpKeeps, TurnAroundKeeps, WalkDownKeeps, FinishKeeps, StutterKeeps DEF Next

-----------------------------------------------------------------------------
\* THEOREM.  The variables keep their types: no walk leaves the ticks of the
\* pool (UniswapV3Utils.ts:233-271).
THEOREM TypeCorrect == ASSUME SpacingAssumption, PoolAssumption PROVE Spec => []TypeOK
<1>1. Init => IInv
  BY InitIInv
<1>2. IInv /\ [Next]_vars => IInv'
  BY StepKeeps
<1>3. IInv => TypeOK
  BY DEF IInv
<1>. QED BY <1>1, <1>2, <1>3, PTL DEF Spec

\* THEOREM.  At every moment each tick processed so far has the liquidity that
\* is in range there on chain, whatever the pool and the width of the snapshot.
THEOREM LiquidityIsRight == ASSUME SpacingAssumption, PoolAssumption PROVE Spec => []SnapshotIsLiquidity
<1>1. Init => IInv
  BY InitIInv
<1>2. IInv /\ [Next]_vars => IInv'
  BY StepKeeps
<1>3. IInv => SnapshotIsLiquidity
  BY DEF IInv
<1>. QED BY <1>1, <1>2, <1>3, PTL DEF Spec

\* THEOREM.  A finished snapshot has every tick of its range, each once: the
\* replay fills what is between its ends.
THEOREM NoGap == ASSUME SpacingAssumption, PoolAssumption PROVE Spec => []SnapshotHasNoGap
<1>1. Init => IInv
  BY InitIInv
<1>2. IInv /\ [Next]_vars => IInv'
  BY StepKeeps
<1>3. IInv => SnapshotHasNoGap
  <2> SUFFICES ASSUME IInv, phase = "done" 
               PROVE  /\ {t.tickIdx : t \in processed} =
                            {ActiveTickIdx(pool) + k * TickSpacing : k \in -NumSurroundingTicks .. NumSurroundingTicks}
                      /\ \A t, u \in processed : t.tickIdx = u.tickIdx => t = u
    BY DEF SnapshotHasNoGap
  <2>1. Lowest = -NumSurroundingTicks /\ Highest = NumSurroundingTicks
    <3>1. 0 - NumSurroundingTicks = -NumSurroundingTicks
      BY DEF SpacingAssumption
    <3>. QED BY <3>1 DEF IInv, DoneIsWhole, Lowest, Highest
  <2>2. {t.tickIdx : t \in processed} =
          {ActiveTickIdx(pool) + k * TickSpacing : k \in -NumSurroundingTicks .. NumSurroundingTicks}
    BY <2>1 DEF IInv, ProcessedIsWalked, TickAt
  <2>3. \A t, u \in processed : t.tickIdx = u.tickIdx => t = u
    BY DEF IInv, TypeOK, ProcessedTick, SnapshotIsLiquidity
  <2>. QED BY <2>2, <2>3
<1>. QED BY <1>1, <1>2, <1>3, PTL DEF Spec
=============================================================================
