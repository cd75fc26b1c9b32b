------------------------- MODULE LiquiditySnapshot -------------------------
(***************************************************************************)
(* The snapshot of a pool's liquidity the backtest starts from             *)
(* (scripts/utils/UniswapV3Utils.ts, getPoolLiquiditySnapshot).  The pool  *)
(* tells its liquidity at the current price only; the liquidity of the     *)
(* other ticks is found by walking away from it and adding, or taking,     *)
(* the net liquidity of the ticks passed.                                  *)
(***************************************************************************)
EXTENDS Integers

CONSTANTS
  Ticks,              \* the ticks a walk can reach
  TickSpacing,
  NumSurroundingTicks,
  Pools               \* states of a pool: [tick, liquidityNet, liquidity]

SpacingAssumption ==
  TickSpacing \in Nat \ {0} /\ NumSurroundingTicks \in Nat /\ Ticks \subseteq Int

ActiveTickIdx(p) == (p.tick \div TickSpacing) * TickSpacing

\* What a Uniswap V3 pool keeps.  liquidity[t] is in range for the prices from
\* tick t up to the next one, liquidityNet[t] is what passing t upwards adds.
PoolAssumption ==
  \A p \in Pools :
    /\ p.tick \in Int
    /\ p.liquidity \in [Ticks -> Int] /\ p.liquidityNet \in [Ticks -> Int]
    /\ \A t \in Ticks :
         t + TickSpacing \in Ticks =>
           p.liquidity[t + TickSpacing] = p.liquidity[t] + p.liquidityNet[t + TickSpacing]
    /\ \A k \in -NumSurroundingTicks .. NumSurroundingTicks :
         ActiveTickIdx(p) + k * TickSpacing \in Ticks

VARIABLES
  pool,        \* the pool at the block, which does not change any more
  phase,
  i,
  previous,    \* previousTickProcessed
  processed    \* processedTicks

vars == <<pool, phase, i, previous, processed>>

ProcessedTick == [tickIdx : Ticks, liquidityActive : Int]

TypeOK ==
  /\ pool \in Pools
  /\ phase \in {"up", "down", "done"}
  /\ i \in 0 .. NumSurroundingTicks
  /\ previous \in ProcessedTick
  /\ processed \subseteq ProcessedTick

---------------------------------------------------------------------------
\* pool.liquidity() is the liquidity in range at the current price.
ActiveTick(p) ==
  [tickIdx |-> ActiveTickIdx(p), liquidityActive |-> p.liquidity[ActiveTickIdx(p)]]

Init ==
  /\ pool \in Pools
  /\ phase = "up"
  /\ i = 0
  /\ previous = ActiveTick(pool)
  /\ processed = {ActiveTick(pool)}

\* The net liquidity of the tick that is entered is added.
TickAbove ==
  LET tickIdx == previous.tickIdx + TickSpacing
  IN [tickIdx |-> tickIdx, liquidityActive |-> previous.liquidityActive + pool.liquidityNet[tickIdx]]

\* A MUTANT of TickBelow: the net liquidity of the tick that is entered.
TickBelowOwnNet ==
  LET tickIdx == previous.tickIdx - TickSpacing
  IN [tickIdx |-> tickIdx, liquidityActive |-> previous.liquidityActive - pool.liquidityNet[tickIdx]]

\* The net liquidity of the tick that is left is taken.
TickBelow ==
  [tickIdx |-> previous.tickIdx - TickSpacing,
   liquidityActive |-> previous.liquidityActive - pool.liquidityNet[previous.tickIdx]]

WalkUp ==
  /\ phase = "up"
  /\ i < NumSurroundingTicks
  /\ previous' = TickAbove
  /\ processed' = processed \cup {TickAbove}
  /\ i' = i + 1
  /\ UNCHANGED <<pool, phase>>

TurnAround ==
  /\ phase = "up"
  /\ i = NumSurroundingTicks
  /\ phase' = "down"
  /\ i' = 0
  /\ previous' = ActiveTick(pool)
  /\ UNCHANGED <<pool, processed>>

WalkDown ==
  /\ phase = "down"
  /\ i < NumSurroundingTicks
  /\ previous' = TickBelow
  /\ processed' = processed \cup {TickBelow}
  /\ i' = i + 1
  /\ UNCHANGED <<pool, phase>>

Finish ==
  /\ phase = "down"
  /\ i = NumSurroundingTicks
  /\ phase' = "done"
  /\ UNCHANGED <<pool, i, previous, processed>>

Next == WalkUp \/ TurnAround \/ WalkDown \/ Finish

Spec == Init /\ [][Next]_vars

---------------------------------------------------------------------------
\* PROPERTY.  Every tick of the snapshot has the liquidity that is in range
\* there on chain, above and below the current price (UniswapV3Utils.ts:
\* 233-271): the pool of the backtest is filled with it.
SnapshotIsLiquidity ==
  \A t \in processed : t.liquidityActive = pool.liquidity[t.tickIdx]

\* PROPERTY.  A finished snapshot has every tick from NumSurroundingTicks
\* below the current one to as many above it, each once: the replay takes its
\* first and its last tick as the limits of the pool and fills what is between.
SnapshotHasNoGap ==
  phase = "done" =>
    /\ {t.tickIdx : t \in processed} =
         {ActiveTickIdx(pool) + k * TickSpacing : k \in -NumSurroundingTicks .. NumSurroundingTicks}
    /\ \A t, u \in processed : t.tickIdx = u.tickIdx => t = u
=============================================================================
