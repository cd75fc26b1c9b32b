------------------------------ MODULE CallOnce ------------------------------
(***************************************************************************)
(* What a script may expect of RunHelper when it hands over a call: the    *)
(* chain executes the call at most once, however often its transaction was *)
(* replaced, and the script is told "returned" only of a call that was     *)
(* executed and not reverted.  "thrown" promises nothing: the call may     *)
(* have been executed, or may yet be.                                      *)
(***************************************************************************)
CONSTANT Calls

VARIABLES
  outcome,  \* call |-> what the chain did with it
  told      \* call |-> what the script was told of it

Init ==
  /\ outcome = [c \in Calls |-> "none"]
  /\ told = [c \in Calls |-> "none"]

\* The chain executes c, with success or as a revert.
Execute(c) ==
  /\ outcome[c] = "none"
  /\ \E o \in {"ok", "reverted"} : outcome' = [outcome EXCEPT ![c] = o]
  /\ UNCHANGED told

\* The script learns of c; with errors swallowed it learns nothing ("silent").
Tell(c) ==
  /\ told[c] = "none"
  /\ \E t \in {"returned", "thrown", "silent"} :
       /\ t = "returned" => outcome[c] = "ok"
       /\ told' = [told EXCEPT ![c] = t]
  /\ UNCHANGED outcome

Next == \E c \in Calls : Execute(c) \/ Tell(c)

Spec == Init /\ [][Next]_<<outcome, told>>
=============================================================================
