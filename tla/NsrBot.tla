------------------------------- MODULE NsrBot -------------------------------
(***************************************************************************)
(* The loop of scripts/rebalance.ts as far as it decides when to call      *)
(* rebalanceNoSwaps(true) ("NSR"): one pass over the vaults and the        *)
(* strategies of each, a sleep, and again.  Others move the prices, pause  *)
(* strategies and call rebalanceNoSwaps themselves in the meantime.        *)
(*                                                                         *)
(* Clocks are ages (how long ago), which stop at the longest delay the     *)
(* code compares with; a time stamp the code has not set is Unset.         *)
(* What a sent call comes to is what CallOnce promises.                    *)
(***************************************************************************)
EXTENDS Integers, Sequences, Functions

CONSTANTS
  Strategies,    \* sequence: splitter.allStrategies(), vault after vault
  VaultStarts,   \* where in it the strategies of another vault begin
  Eligible,      \* those isStrategyEligibleForNSR lets through
  BetweenNSRs,   \* DELAY_BETWEEN_NSRS
  NeedConfirm    \* DELAY_NEED_NSR_CONFIRM

Strategy == Range(Strategies)

BotAssumption ==
  /\ Strategies \in Seq(Strategy) /\ Strategies # <<>>
  /\ Eligible \subseteq Strategy
  /\ BetweenNSRs \in Nat
  /\ NeedConfirm \in Nat

VARIABLES
  need,        \* strategy |-> needRebalance() on the chain
  paused,      \* strategy |-> splitter.pausedStrategies
  stray,       \* strategies with a call given up by the bot and maybe still to be mined
  sent,        \* fate of the call the bot waits for
  pc, at,      \* where the bot is, at which strategy
  sinceNSR,    \* age of lastNSR
  needFor,     \* strategy |-> age of needNSRTimestamp, or Unset
  \* history
  sinceCalm,   \* strategy |-> age of the last look that saw no need
  sinceAny,    \* age of the bot's last call executed
  untold       \* that call was executed, but the bot was told an error

chain == <<need, paused>>
bot == <<pc, at, sinceNSR, needFor>>
history == <<sinceCalm, sinceAny, untold>>
vars == <<chain, stray, sent, bot, history>>

Unset == -1
Horizon == (IF NeedConfirm > BetweenNSRs THEN NeedConfirm ELSE BetweenNSRs) + 1
Older(age) == IF age \in 0..(Horizon - 1) THEN age + 1 ELSE age

PcValues == {"hardwork", "look", "estimate", "wait", "rest", "debt", "sleep"}
Here == Strategies[at]

-----------------------------------------------------------------------------
(* The bot *)

\* On to the next strategy: continue, the end of the body, an error caught inside it.
NextStrategy ==
  IF at < Len(Strategies)
    THEN at' = at + 1 /\ pc' = IF at + 1 \in VaultStarts THEN "hardwork" ELSE "look"
    ELSE at' = 1 /\ pc' = "sleep"

\* A vault's turn.  splitterHardWork catches its own errors; reading the vaults, the
\* splitter or its strategies may fail, and ends the pass.
HardWork ==
  /\ pc = "hardwork"
  /\ \/ pc' = "look" /\ UNCHANGED at
     \/ pc' = "sleep" /\ at' = 1
  /\ UNCHANGED <<chain, stray, sent, sinceNSR, needFor, history>>

LookFails ==
  /\ pc = "look"
  /\ NextStrategy
  /\ UNCHANGED <<chain, stray, sent, sinceNSR, needFor, history>>

\* NSRUtils.isStrategyEligibleForNSR: version 2 and later of three kinds of strategy.
IsEligible == Here \in Eligible

\* Mutants: the time stamp of an earlier need is not forgotten; it is renewed by each look.
NeedSinceKept == IF need[Here] /\ needFor[Here] = Unset THEN 0 ELSE needFor[Here]
NeedSinceRenewed == IF need[Here] THEN 0 ELSE Unset

\* needNSRTimestamp once the need was read.  0 and undefined are both "not set".
NeedSince ==
  IF ~need[Here] THEN Unset
  ELSE IF needFor[Here] = Unset THEN 0 ELSE needFor[Here]

\* Pause, delay and need are read; all must speak for the call.
Look ==
  /\ pc = "look" /\ IsEligible
  /\ needFor' = [needFor EXCEPT ![Here] = NeedSince]
  /\ sinceCalm' = [sinceCalm EXCEPT ![Here] = IF need[Here] THEN @ ELSE 0]
  /\ pc' = IF /\ ~paused[Here]
              /\ sinceNSR > BetweenNSRs
              /\ need[Here]
              /\ NeedSince > NeedConfirm
           THEN "estimate" ELSE "debt"
  /\ UNCHANGED <<chain, stray, sent, at, sinceNSR, sinceAny, untold>>

\* estimateGas reverts if the need is gone; runAndWait2 then sends the call.
Estimate ==
  /\ pc = "estimate"
  /\ \/ need[Here] /\ pc' = "wait" /\ sent' = "sent"
     \/ pc' = "debt" /\ UNCHANGED sent
  /\ UNCHANGED <<chain, stray, at, sinceNSR, needFor, history>>

\* The call was mined and did not revert: lastNSR is read from the chain.
Returned ==
  /\ pc = "wait" /\ sent = "ok"
  /\ pc' = "rest"
  /\ sent' = "none"
  /\ sinceNSR' = 0
  /\ UNCHANGED <<chain, stray, at, needFor, history>>

\* An error is caught, reported and forgotten.  The call may be executed, now or later.
Thrown ==
  /\ pc = "wait"
  /\ pc' = "debt"
  /\ sent' = "none"
  /\ stray' = IF sent = "sent" THEN stray \cup {Here} ELSE stray
  /\ untold' = (untold \/ sent = "ok")
  /\ UNCHANGED <<chain, at, sinceNSR, needFor, sinceCalm, sinceAny>>

\* sleep(DELAY_AFTER_NSR)
Rest ==
  /\ pc = "rest"
  /\ pc' = "debt"
  /\ UNCHANGED <<chain, stray, sent, at, sinceNSR, needFor, history>>

\* runResolver and what follows from it, errors included.
Debt ==
  /\ pc = "debt"
  /\ NextStrategy
  /\ UNCHANGED <<chain, stray, sent, sinceNSR, needFor, history>>

Sleep ==
  /\ pc = "sleep"
  /\ pc' = "hardwork"
  /\ UNCHANGED <<chain, stray, sent, at, sinceNSR, needFor, history>>

BotStep == HardWork \/ LookFails \/ Look \/ Estimate \/ Returned \/ Thrown \/ Rest \/ Debt \/ Sleep

-----------------------------------------------------------------------------
(* The chain, and time *)

\* The call the bot waits for is mined; without need it reverts.
Execute ==
  /\ sent = "sent"
  /\ sent' = IF need[Here] THEN "ok" ELSE "reverted"
  /\ need' = [need EXCEPT ![Here] = FALSE]
  /\ IF need[Here]
       THEN sinceAny' = 0 /\ untold' = FALSE
       ELSE UNCHANGED <<sinceAny, untold>>
  /\ UNCHANGED <<paused, stray, bot, sinceCalm>>

\* A call that was given up is mined, or dropped.
ExecuteStray(s) ==
  /\ s \in stray
  /\ stray' \in {stray, stray \ {s}}
  /\ need' \in {need, [need EXCEPT ![s] = FALSE]}
  /\ UNCHANGED <<paused, sent, bot, history>>

\* Prices move, and other bots rebalance.
MarketMove(s) ==
  /\ need' = [need EXCEPT ![s] = ~@]
  /\ UNCHANGED <<paused, stray, sent, bot, history>>

Pause(s) ==
  /\ paused' = [paused EXCEPT ![s] = ~@]
  /\ UNCHANGED <<need, stray, sent, bot, history>>

Tick ==
  /\ sinceNSR' = Older(sinceNSR)
  /\ needFor' = [s \in Strategy |-> Older(needFor[s])]
  /\ sinceCalm' = [s \in Strategy |-> Older(sinceCalm[s])]
  /\ sinceAny' = Older(sinceAny)
  /\ UNCHANGED <<chain, stray, sent, pc, at, untold>>

Init ==
  /\ need \in [Strategy -> BOOLEAN]
  /\ paused = [s \in Strategy |-> FALSE]
  /\ stray = {} /\ sent = "none"
  /\ pc = "hardwork" /\ at = 1
  /\ sinceNSR = Horizon
  /\ needFor = [s \in Strategy |-> Unset]
  /\ sinceCalm = [s \in Strategy |-> 0]
  /\ sinceAny = Horizon /\ untold = FALSE

Next ==
  \/ BotStep
  \/ Execute \/ Tick
  \/ \E s \in Strategy : ExecuteStray(s) \/ MarketMove(s) \/ Pause(s)

Spec == Init /\ [][Next]_vars

-----------------------------------------------------------------------------
TypeOK ==
  /\ need \in [Strategy -> BOOLEAN]
  /\ paused \in [Strategy -> BOOLEAN]
  /\ stray \subseteq Eligible
  /\ sent \in {"none", "sent", "ok", "reverted"}
  /\ sent # "none" => pc = "wait"
  /\ pc \in PcValues
  /\ at \in 1..Len(Strategies)
  /\ sinceNSR \in 0..Horizon
  /\ needFor \in [Strategy -> {Unset} \cup 0..Horizon]
  /\ sinceCalm \in [Strategy -> 0..Horizon]
  /\ sinceAny \in 0..Horizon
  /\ untold \in BOOLEAN

\* The bot sends a rebalance only of a strategy that needed it at each of its looks
\* of the last DELAY_NEED_NSR_CONFIRM seconds: a price that comes back in between
\* starts the delay again.  And two calls that the chain executes are more than
\* DELAY_BETWEEN_NSRS apart, whatever strategies they are for, unless the bot was told
\* that the first one failed.
NeedIsConfirmed ==
  [][sent' = "sent" /\ sent = "none" =>
       /\ sinceCalm[Here] > NeedConfirm
       /\ untold \/ sinceAny > BetweenNSRs]_vars

\* No strategy keeps needing a rebalance for ever while it is not paused and nobody
\* else uses up the delay between calls.
NeedIsServed ==
  \A s \in Eligible :
    ~<>[](need[s] /\ ~paused[s] /\ \A o \in Strategy \ {s} : ~need[o])
=============================================================================
