----------------------------- MODULE PairRange ------------------------------
(***************************************************************************)
(* The tick range of the pair strategies: calcTickRange and                *)
(* _needPoolRebalance of PairBasedStrategyLogicLib.sol, and                *)
(* _calcNewTickRangeForTick of UniswapV3DebtLib.sol.  Ticks are integers:  *)
(* a pool keeps |tick| <= 887272, far inside int24.                        *)
(***************************************************************************)
EXTENDS Integers

\* Solidity's signed division truncates toward zero; s > 0 here.
DivTrunc(a, s) == IF a >= 0 THEN a \div s ELSE -((-a) \div s)

CalcTickRange(tick, tickRange, s) ==
  LET lower == IF tick < 0 /\ DivTrunc(tick, s) * s # tick
               THEN (DivTrunc(tick - tickRange, s) - 1) * s
               ELSE DivTrunc(tick - tickRange, s) * s
  IN  [lower |-> lower,
       upper |-> IF tickRange = 0 THEN lower + s ELSE lower + tickRange * 2]

\* Mutants: the full width taken for the half; the old range kept
CalcNewTickRangeDoubled(tick, range, s) == CalcTickRange(tick, range.upper - range.lower, s)
CalcNewTickRangeStale(tick, range, s) == range

\* The range of the same width around the current tick
CalcNewTickRange(tick, range, s) ==
  LET full == range.upper - range.lower
  IN  CalcTickRange(tick, IF full = s THEN 0 ELSE DivTrunc(full, 2), s)

NeedPoolRebalance(tick, range, s, rebalanceTickRange) ==
  IF range.upper - range.lower = s
  THEN tick < range.lower \/ tick >= range.upper
  ELSE LET median == range.lower + DivTrunc(range.upper - range.lower, 2)
       IN  IF tick > median
           THEN tick - median >= rebalanceTickRange
           ELSE median - tick > rebalanceTickRange

InRange(tick, range) == range.lower <= tick /\ tick < range.upper
=============================================================================
