----------------------------- MODULE HardWorkLoop -----------------------------
(***************************************************************************)
(* splitterHardWork (scripts/utils/splitter-hardwork.ts), called once in   *)
(* each pass of the rebalance bot: hard work for the strategies of a       *)
(* splitter that had none for HwDelay, with a back-off after errors.  An   *)
(* error ends the pass: the strategies behind it wait for the next one.    *)
(* Clocks are ages; a pass with the sleep after it takes one unit.         *)
(***************************************************************************)
EXTENDS Integers, Sequences, Functions

CONSTANTS
  Strategies,   \* sequence: splitter.allStrategies()
  HwDelay,      \* HW_DELAY, 11 hours
  ErrorDelay,   \* 8 hours
  Reverting,    \* strategies whose hard work may be refused by estimateGas for ever
  Throwing      \* strategies whose isReadyToHardWork may revert

Strategy == Range(Strategies)

HardWorkAssumption ==
  /\ Strategies \in Seq(Strategy)
  /\ HwDelay \in Nat /\ ErrorDelay \in Nat
  /\ Reverting \subseteq Strategy /\ Throwing \subseteq Strategy

VARIABLES
  pc, at,       \* the pass: at which strategy
  paused,       \* strategy |-> splitter.pausedStrategies
  sinceHW,      \* strategy |-> age of splitter.lastHardWorks
  sinceError,   \* strategy |-> age of the entry in LAST_ERRORS
  refused       \* history: strategy |-> age of the last attempt that ended in an error

vars == <<pc, at, paused, sinceHW, sinceError, refused>>

Horizon == (IF HwDelay > ErrorDelay THEN HwDelay ELSE ErrorDelay) + 1
Older(age) == IF age < Horizon THEN age + 1 ELSE age
Here == Strategies[at]

GoOn == IF at < Len(Strategies) THEN pc' = "visit" /\ at' = at + 1
                                ELSE pc' = "sleep" /\ at' = 1
EndPass == pc' = "sleep" /\ at' = 1

Due(s) == sinceHW[s] > HwDelay /\ sinceError[s] > ErrorDelay

\* Paused, not due, or not ready for hard work.
Skip ==
  /\ pc = "visit"
  /\ GoOn
  /\ UNCHANGED <<paused, sinceHW, sinceError, refused>>

\* isReadyToHardWork throws, outside the inner try: no entry in LAST_ERRORS.
ReadyThrows ==
  /\ pc = "visit" /\ ~paused[Here] /\ Due(Here) /\ Here \in Throwing
  /\ EndPass
  /\ UNCHANGED <<paused, sinceHW, sinceError, refused>>

\* Ready, and the gas is estimated: the call goes out.
Attempt ==
  /\ pc = "visit" /\ ~paused[Here] /\ Due(Here)
  /\ pc' = "estimate"
  /\ UNCHANGED <<at, paused, sinceHW, sinceError, refused>>

\* Mutant: the error is not remembered.
EstimateFailsUnnoted ==
  /\ pc = "estimate"
  /\ EndPass
  /\ refused' = [refused EXCEPT ![Here] = 0]
  /\ UNCHANGED <<paused, sinceHW, sinceError>>

\* estimateGas or the fees fail: noted in LAST_ERRORS and thrown.
EstimateFails ==
  /\ pc = "estimate"
  /\ EndPass
  /\ sinceError' = [sinceError EXCEPT ![Here] = 0]
  /\ refused' = [refused EXCEPT ![Here] = 0]
  /\ UNCHANGED <<paused, sinceHW>>

\* runAndWaitAndSpeedUp without stopOnError: also a call that fails ends here, and
\* leaves no entry in LAST_ERRORS.
Work ==
  /\ pc = "estimate" /\ Here \notin Reverting
  /\ sinceHW' = [sinceHW EXCEPT ![Here] = 0]
  /\ GoOn
  /\ UNCHANGED <<paused, sinceError, refused>>

WorkLost ==
  /\ pc = "estimate"
  /\ GoOn
  /\ UNCHANGED <<paused, sinceHW, sinceError, refused>>

Sleep ==
  /\ pc = "sleep"
  /\ pc' = "visit" /\ at' = 1
  /\ sinceHW' = [s \in Strategy |-> Older(sinceHW[s])]
  /\ sinceError' = [s \in Strategy |-> Older(sinceError[s])]
  /\ refused' = [s \in Strategy |-> Older(refused[s])]
  /\ UNCHANGED paused

Pause(s) ==
  /\ paused' = [paused EXCEPT ![s] = ~@]
  /\ UNCHANGED <<pc, at, sinceHW, sinceError, refused>>

Init ==
  /\ pc = "sleep" /\ at = 1
  /\ paused = [s \in Strategy |-> FALSE]
  /\ sinceHW \in [Strategy -> 0..Horizon]
  /\ sinceError = [s \in Strategy |-> Horizon]
  /\ refused = [s \in Strategy |-> Horizon]

BotStep == Skip \/ ReadyThrows \/ Attempt \/ EstimateFails \/ Work \/ WorkLost \/ Sleep

Next == BotStep \/ \E s \in Strategy : Pause(s)

Spec == Init /\ [][Next]_vars

TypeOK ==
  /\ pc \in {"visit", "estimate", "sleep"}
  /\ at \in 1..Len(Strategies)
  /\ paused \in [Strategy -> BOOLEAN]
  /\ sinceHW \in [Strategy -> 0..Horizon]
  /\ sinceError \in [Strategy -> 0..Horizon]
  /\ refused \in [Strategy -> 0..Horizon]

\* A strategy whose hard work was refused is left alone for the eight hours that
\* LAST_ERRORS is about, so that the bot does not spend each pass on it.
RefusedIsLeftAlone ==
  [][\A s \in Strategy : Attempt /\ Here = s => refused[s] > ErrorDelay]_vars

=============================================================================
