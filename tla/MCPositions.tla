---------------------------- MODULE MCPositions -----------------------------
\* Positions with amounts of the order of a thousand, thresholds of 20 and a
\* dust amount of 2.
EXTENDS Positions
MCThreshold == [t \in Tokens |-> 20]
MCPrices == {[t \in Tokens |-> IF t = Asset THEN 10 ELSE p] : p \in {9, 13}}
MCStep(kind, fromPool, p, toReduce, addition) ==
  [kind |-> kind, fromPool |-> fromPool, prop |-> p, toReduce |-> toReduce, addition |-> addition]
MCSteps == {
  MCStep(PlanSwapRepay, FALSE, 0, 0, 30), MCStep(PlanSwapRepay, TRUE, 0, 0, 0),
  MCStep(PlanRepaySwapRepay, FALSE, 0, 200, 0), MCStep(PlanRepaySwapRepay, FALSE, 50, 0, 0), MCStep(PlanRepaySwapRepay, TRUE, 0, 0, 30),
  MCStep(PlanSwapOnly, FALSE, 50, 0, 0), MCStep(PlanSwapOnly, TRUE, 0, 0, 0)}
=============================================================================
