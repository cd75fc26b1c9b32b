----------------------------- MODULE PoolSync -----------------------------
(***************************************************************************)
(* Before the backtest reduces debts it moves the pool the strategy swaps  *)
(* in to the tick of the pool it provides liquidity to                     *)
(* (scripts/uniswapV3Backtester/strategyBacktest.ts, "sync ticks"): tick   *)
(* by tick it swaps 130% of what is left of the tick, and ten units more   *)
(* when that did not leave it.  The pool has one position; its price is    *)
(* counted in units of which TickUnits make a tick, near enough to price 1 *)
(* for one unit of a token to move it by one.                              *)
(***************************************************************************)
EXTENDS Integers

CONSTANTS
  TickUnits,      \* what it takes to move through a tick
  First, Last,    \* the pool has liquidity from tick First up to tick Last
  FeePercent,     \* of the amount in, left out of the move
  MinTick, MaxTick  \* where a price ends that no liquidity holds

UnitsAssumption == TickUnits \in Nat /\ TickUnits > 10 /\ FeePercent \in 0 .. 10

TicksAssumption ==
  /\ {First, Last, MinTick, MaxTick} \subseteq Int
  /\ MinTick < First - 1 /\ MaxTick > Last

VARIABLES
  price,     \* of the pool for swaps, in units
  target,    \* tick of the strategy's pool
  up,        \* targetTickMoreThanRdsTick
  tickI,
  phase

vars == <<price, target, up, tickI, phase>>

Tick(p) == p \div TickUnits

TypeOK ==
  /\ price \in MinTick * TickUnits .. MaxTick * TickUnits
  /\ target \in Int /\ up \in BOOLEAN /\ tickI \in Int
  /\ phase \in {"loop", "synced", "reverted"}
  /\ up => tickI <= target
  /\ ~up => tickI >= target

---------------------------------------------------------------------------
Init ==
  /\ price \in First * TickUnits .. Last * TickUnits - 1
  /\ target \in First - 1 .. Last
  /\ up = (target > Tick(price))
  /\ tickI = Tick(price)
  /\ phase = "loop"

\* getAmountsForLiquidity of the tick tickI: what is above the price, in the
\* first token, and what is below it, in the second.
AmountsInTick ==
  LET low == tickI * TickUnits
      at == IF price < low THEN low ELSE IF price > low + TickUnits THEN low + TickUnits ELSE price
  IN IF tickI \in First .. Last - 1
     THEN [amount0 |-> low + TickUnits - at, amount1 |-> at - low]
     ELSE [amount0 |-> 0, amount1 |-> 0]

AmountIn ==
  ((IF up THEN AmountsInTick.amount0 ELSE AmountsInTick.amount1) * 130) \div 100

\* A swap moves the price by the amount less the fee.  It has no price limit:
\* with an amount left where the liquidity ends the price runs to its limit.
Moved(p, amount) ==
  LET net == (amount * (100 - FeePercent)) \div 100
  IN IF up
     THEN IF p + net > Last * TickUnits THEN MaxTick * TickUnits ELSE p + net
     ELSE IF p - net < First * TickUnits THEN MinTick * TickUnits ELSE p - net

\* A MUTANT of Settled: the ten units more are left out.
SettledAtOnce(p) == p

\* Ten units more when the swap did not leave the tick.
Settled(p) == IF Tick(p) = tickI THEN Moved(p, 10) ELSE p

LoopGoesOn == IF up THEN tickI < target ELSE tickI > target

SyncTick ==
  /\ phase = "loop"
  /\ LoopGoesOn
  /\ AmountIn > 0
  /\ price' = Settled(Moved(price, AmountIn))
  /\ tickI' = IF up THEN tickI + 1 ELSE tickI - 1
  /\ UNCHANGED <<target, up, phase>>

\* The pool refuses a swap of nothing.
SyncReverts ==
  /\ phase = "loop"
  /\ LoopGoesOn
  /\ AmountIn = 0
  /\ phase' = "reverted"
  /\ UNCHANGED <<price, target, up, tickI>>

\* expect(tick == targetTick, 'tick != targetTick') is evaluated here, but it
\* is not an assertion: expect alone checks nothing.
Synced ==
  /\ phase = "loop"
  /\ ~LoopGoesOn
  /\ phase' = "synced"
  /\ UNCHANGED <<price, target, up, tickI>>

Next == SyncTick \/ SyncReverts \/ Synced

Spec == Init /\ [][Next]_vars

---------------------------------------------------------------------------
\* PROPERTY.  The loop counter keeps pace with the pool: at the head of every
\* round the price is in the tick the counter says, as long as the pool has
\* liquidity there, so that the amount is computed for the right tick
\* (strategyBacktest.ts:288-326).
CounterIsTick ==
  phase = "loop" /\ tickI \in First .. Last - 1 => Tick(price) = tickI

=============================================================================
