----------------------------- MODULE FullWithdraw -----------------------------
(***************************************************************************)
(* makeFullWithdraw (scripts/utils/WithdrawAllByAggUtils.ts), as the task  *)
(* withdrawAllByAgg runs it: steps of withdrawByAggStep with the plan      *)
(* SWAP_REPAY until the strategy has no debts and, with isCompleted, no    *)
(* tokens but the underlying.  Each swap is capped.                        *)
(*                                                                         *)
(* Amounts are in the smallest units of the token that is swapped: to      *)
(* repay a direct debt the underlying is sold, for a reverse debt and for  *)
(* leftovers the other token.                                              *)
(***************************************************************************)
EXTENDS Integers

CONSTANTS
  Units,                  \* [asset, token]: smallest units in one whole token of either
  MaxAmountToSwap,        \* in whole tokens
  MaxDebt, MaxLeftover,   \* bounds of the amounts, in smallest units
  MaxBorrows              \* bound: how often others open debts meanwhile (the fuse is off)

WithdrawAssumption ==
  /\ Units \subseteq [asset : Nat \ {0}, token : Nat \ {0}]
  /\ MaxAmountToSwap \in Nat \ {0}
  /\ MaxDebt \in Nat /\ MaxLeftover \in Nat
  /\ MaxBorrows \in Nat

VARIABLES
  unit,       \* the decimals of the strategy's tokens, one of Units
  debt,       \* what is to be swapped before all is repaid
  reverse,    \* the debt is a reverse one
  leftover,   \* balance of the other token
  pc,
  amount,     \* amountToSwap
  completed,  \* what the static call of the step answered
  borrows,    \* debts opened by others
  late        \* history: one of them since the static call

bounds == <<unit, borrows, late>>
vars == <<debt, reverse, leftover, pc, amount, completed, bounds>>

\* The token that is to be swapped next, by its unit.
SwapUnit == IF debt > 0 /\ ~reverse THEN unit.asset ELSE unit.token

\* liquidationThresholds of the strategy, half a token of either kind; no more than
\* that, a debt is dust and counts as none.
Threshold == SwapUnit \div 2

\* What is swapped in the end: SWAP_REPAY with no debt left swaps the leftovers.
ToSwap == IF debt > 0 THEN debt ELSE leftover

\* Mutant: the cap not scaled by the decimals.
CapUnscaled(quoted) == IF quoted > MaxAmountToSwap THEN MaxAmountToSwap ELSE quoted

\* The cap, parsed with the decimals of the underlying whatever token is swapped.
Cap(quoted) ==
  LET cap == MaxAmountToSwap * unit.asset
  IN  IF quoted > cap THEN cap ELSE quoted

\* quoteWithdrawByAgg; zero when the balance suffices to repay.
Quote ==
  /\ pc = "quote"
  /\ \E quoted \in {0, ToSwap} : amount' = Cap(quoted)
  /\ pc' = "static"
  /\ UNCHANGED <<debt, reverse, leftover, completed, bounds>>

\* completed: the plan found nothing to repay.
Static ==
  /\ pc = "static"
  /\ completed' = (debt = 0)
  /\ pc' = "send"
  /\ late' = FALSE
  /\ UNCHANGED <<unit, debt, reverse, leftover, amount, borrows>>

\* Any request may fail, the swap may revert: the script ends with an error.
Fail ==
  /\ pc \in {"quote", "static", "send", "check"}
  /\ pc' = "failed"
  /\ UNCHANGED <<debt, reverse, leftover, amount, completed, bounds>>

\* Amounts up to the threshold are not swapped.
Swapped == IF amount > Threshold THEN amount ELSE 0

\* The step: swap and repay, or swap of leftovers.  Without a swap what is on balance
\* repays some of the debt.
Send ==
  /\ pc = "send"
  /\ pc' = "check"
  /\ IF debt > 0
       THEN /\ IF amount = 0 THEN \E d \in 0..(debt - 1) : debt' = d
                             ELSE debt' = IF debt - Swapped <= Threshold THEN 0 ELSE debt - Swapped
            /\ \E l \in leftover..MaxLeftover :
                 leftover' = IF debt' = 0 THEN l ELSE leftover   \* the collateral is returned
       ELSE /\ leftover' = IF Swapped > leftover THEN 0 ELSE leftover - Swapped
            /\ UNCHANGED debt
  /\ UNCHANGED <<reverse, amount, completed, bounds>>

\* Mutant: the answer of the static call is enough, as without isCompleted.
IsCompletedByFlag == completed

\* isCompleted of the task: no balance of more than one whole token.
IsCompleted == completed /\ leftover <= unit.token

Check ==
  /\ pc = "check"
  /\ pc' = IF IsCompleted THEN "done" ELSE "quote"
  /\ UNCHANGED <<debt, reverse, leftover, amount, completed, bounds>>

\* Someone's deposit or rebalance opens a debt.
Borrow ==
  /\ borrows < MaxBorrows /\ debt = 0
  /\ debt' \in (Threshold + 1)..MaxDebt
  /\ borrows' = borrows + 1
  /\ late' = TRUE
  /\ UNCHANGED <<unit, reverse, leftover, pc, amount, completed>>

Init ==
  /\ unit \in Units
  /\ debt \in 0..MaxDebt /\ reverse \in BOOLEAN /\ leftover \in 0..MaxLeftover
  /\ debt > 0 => debt > Threshold
  /\ pc = "quote" /\ amount = 0 /\ completed = FALSE
  /\ borrows = 0 /\ late = FALSE

Go == Quote \/ Static \/ Send \/ Check

Next == Go \/ Fail \/ Borrow

Spec == Init /\ [][Next]_vars

TypeOK ==
  /\ unit \in Units
  /\ debt \in 0..MaxDebt /\ reverse \in BOOLEAN /\ leftover \in 0..MaxLeftover
  /\ pc \in {"quote", "static", "send", "check", "done", "failed"}
  /\ amount \in 0..(IF MaxDebt > MaxLeftover THEN MaxDebt ELSE MaxLeftover)
  /\ completed \in BOOLEAN
  /\ borrows \in 0..MaxBorrows /\ late \in BOOLEAN

\* When the task ends without an error, the strategy holds no more than a single other
\* token, and has no debt unless one was opened after the last static call.
DoneMeansWithdrawn ==
  [][pc' = "done" /\ pc # "done" => leftover <= unit.token /\ (debt = 0 \/ late)]_vars

\* The cap, parsed with the decimals of the underlying, is more than what is too little
\* to be swapped of the other token.
CapSuffices == MaxAmountToSwap * unit.asset > unit.token \div 2

\* The loop ends, into however many pieces such a cap cuts the swaps.  (With a smaller
\* one nothing of the other token is ever swapped: a reverse debt, or a leftover of more
\* than one token, stays, and the loop goes on for ever.)
Ends == CapSuffices => <>(pc \in {"done", "failed"})
=============================================================================
