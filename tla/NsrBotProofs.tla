---------------------------- MODULE NsrBotProofs ----------------------------
(***************************************************************************)
(* Proofs about NsrBot, for any strategies and any delays.  The time       *)
(* stamps the bot keeps are compared with what really happened: a need is  *)
(* never stamped before the last calm look, and lastNSR is never older     *)
(* than the last call executed, but while its outcome is on the way to the *)
(* bot or was told wrong.                                                  *)
(***************************************************************************)
EXTENDS NsrBot, TLAPS

StampedSinceCalm == \A s \in Strategy : needFor[s] # Unset => needFor[s] <= sinceCalm[s]
CallIsDue == pc = "estimate" => needFor[Here] > NeedConfirm /\ sinceNSR > BetweenNSRs
CalledIsEligible == pc \in {"estimate", "wait"} => Here \in Eligible
ExecutedIsStamped == sent = "ok" \/ untold \/ sinceNSR <= sinceAny

IInv == TypeOK /\ StampedSinceCalm /\ CallIsDue /\ CalledIsEligible /\ ExecutedIsStamped

-----------------------------------------------------------------------------
LEMMA HorizonBounds ==
  ASSUME BotAssumption
  PROVE  Horizon \in Nat /\ Horizon > NeedConfirm /\ Horizon > BetweenNSRs
  BY DEF BotAssumption, Horizon

\* Ages grow up to the horizon and keep their order; what is unset stays unset.
LEMMA OlderGrows ==
  ASSUME BotAssumption, NEW a \in 0..Horizon, NEW b \in 0..Horizon
  PROVE  /\ Older(a) \in 0..Horizon /\ a <= Older(a)
         /\ a <= b => Older(a) <= Older(b)
  BY HorizonBounds DEF Older

LEMMA OlderUnset == ASSUME BotAssumption PROVE Older(Unset) = Unset
  BY HorizonBounds DEF Older, Unset

LEMMA HereIsStrategy ==
  ASSUME BotAssumption, at \in 1..Len(Strategies)
  PROVE  Here \in Strategy
  BY DEF BotAssumption, Here

LEMMA InitIInv == ASSUME BotAssumption, Init PROVE IInv
<1> USE DEF Init
<1>1. 1 \in 1..Len(Strategies)
  BY DEF BotAssumption
<1>2. TypeOK
  <2>1. 0 \in 0..Horizon /\ Horizon \in 0..Horizon
    BY HorizonBounds
  <2>2. paused \in [Strategy -> BOOLEAN] /\ needFor \in [Strategy -> {Unset} \cup 0..Horizon]
        /\ sinceCalm \in [Strategy -> 0..Horizon]
    BY <2>1
  <2>3. sinceNSR \in 0..Horizon /\ sinceAny \in 0..Horizon
    BY <2>1
  <2>4. stray \subseteq Eligible /\ untold \in BOOLEAN
    OBVIOUS
  <2>5. pc \in PcValues /\ at \in 1..Len(Strategies) /\ sent = "none"
    BY <1>1 DEF PcValues
  <2>. QED BY <2>2, <2>3, <2>4, <2>5 DEF TypeOK
<1>3. StampedSinceCalm /\ CallIsDue /\ CalledIsEligible /\ ExecutedIsStamped
  BY HorizonBounds DEF StampedSinceCalm, CallIsDue, CalledIsEligible, ExecutedIsStamped
<1>. QED BY <1>2, <1>3 DEF IInv

\* On to the next strategy, or to the end of the pass.
LEMMA NextStrategyMoves ==
  ASSUME BotAssumption, TypeOK, NextStrategy
  PROVE  at' \in 1..Len(Strategies) /\ pc' \in {"hardwork", "look", "sleep"}
  BY DEF BotAssumption, TypeOK, NextStrategy

\* A step of the bot that reads and sends nothing.
LEMMA QuietStepKeeps ==
  ASSUME BotAssumption, IInv, sent = "none", UNCHANGED <<chain, stray, sent, sinceNSR, needFor, history>>,
         pc' \in PcValues \ {"estimate", "wait"}, at' \in 1..Len(Strategies)
  PROVE  IInv'
  BY DEF IInv, TypeOK, StampedSinceCalm, CallIsDue, CalledIsEligible, ExecutedIsStamped, chain, history, PcValues

LEMMA QuietKeeps ==
  ASSUME BotAssumption, IInv, HardWork \/ LookFails \/ Rest \/ Debt \/ Sleep
  PROVE  IInv'
<1>1. sent = "none"
  BY DEF IInv, TypeOK, HardWork, LookFails, Rest, Debt, Sleep
<1>2. pc' \in PcValues \ {"estimate", "wait"} /\ at' \in 1..Len(Strategies)
  BY NextStrategyMoves DEF IInv, TypeOK, HardWork, LookFails, Rest, Debt, Sleep, PcValues, BotAssumption
<1>3. UNCHANGED <<chain, stray, sent, sinceNSR, needFor, history>>
  BY DEF HardWork, LookFails, Rest, Debt, Sleep
<1>. QED BY <1>1, <1>2, <1>3, QuietStepKeeps

-----------------------------------------------------------------------------
\* The stamp of a need is not before the last calm look.
LEMMA LookKeeps == ASSUME BotAssumption, IInv, Look PROVE IInv'
<1> USE DEF IInv
<1>1. Here \in Strategy /\ Here \in Eligible /\ sent = "none"
  BY HereIsStrategy DEF TypeOK, Look, IsEligible
<1>2. /\ needFor' = [needFor EXCEPT ![Here] = NeedSince]
      /\ sinceCalm' = [sinceCalm EXCEPT ![Here] = IF need[Here] THEN sinceCalm[Here] ELSE 0]
      /\ UNCHANGED <<need, paused, stray, sent, at, sinceNSR, sinceAny, untold>>
  BY <1>1 DEF Look, chain, TypeOK
<1>3. NeedSince \in {Unset} \cup 0..Horizon
      /\ (NeedSince # Unset => need[Here] /\ NeedSince <= sinceCalm[Here])
  BY <1>1, HorizonBounds DEF NeedSince, TypeOK, StampedSinceCalm, Unset
<1>4. pc' \in {"estimate", "debt"}
      /\ (pc' = "estimate" => sinceNSR > BetweenNSRs /\ NeedSince > NeedConfirm)
  BY DEF Look
<1> DEFINE v == NeedSince
           u == IF need[Here] THEN sinceCalm[Here] ELSE 0
           h == Here
<1>5. u \in 0..Horizon /\ (v # Unset => v <= u)
  BY <1>1, <1>3, HorizonBounds DEF TypeOK
<1>6. needFor' = [needFor EXCEPT ![h] = v] /\ sinceCalm' = [sinceCalm EXCEPT ![h] = u] /\ h \in Strategy
  BY <1>1, <1>2
<1>7. v \in {Unset} \cup 0..Horizon
  BY <1>3
<1>8. h' = h
  BY <1>2 DEF Here
<1>9. pc' = "estimate" => v > NeedConfirm
  BY <1>4
<1>10. h \in Eligible
  BY <1>1
<1> HIDE DEF v, u
<1>11. TypeOK'
  BY <1>2, <1>4, <1>5, <1>6, <1>7, <1>1 DEF TypeOK, PcValues
<1>12. StampedSinceCalm'
  BY <1>5, <1>6 DEF StampedSinceCalm, TypeOK
<1>13. CallIsDue'
  BY <1>2, <1>4, <1>6, <1>8, <1>9 DEF CallIsDue, TypeOK
<1>14. CalledIsEligible' /\ ExecutedIsStamped'
  BY <1>2, <1>8, <1>10 DEF CalledIsEligible, ExecutedIsStamped
<1>. QED BY <1>11, <1>12, <1>13, <1>14

LEMMA EstimateKeeps == ASSUME BotAssumption, IInv, Estimate PROVE IInv'
<1>1. sent = "none" /\ UNCHANGED <<need, paused, stray, at, sinceNSR, needFor, sinceCalm, sinceAny, untold>>
  BY DEF IInv, TypeOK, Estimate, chain, history
<1>2. (pc' = "wait" /\ sent' = "sent") \/ (pc' = "debt" /\ sent' = sent)
  BY DEF Estimate
<1>3. TypeOK'
  BY <1>1, <1>2 DEF IInv, TypeOK, PcValues
<1>4. Here' = Here /\ Here \in Eligible
  BY <1>1 DEF Here, IInv, CalledIsEligible, Estimate
<1>5. StampedSinceCalm' /\ CallIsDue' /\ CalledIsEligible' /\ ExecutedIsStamped'
  BY <1>1, <1>2, <1>4 DEF IInv, StampedSinceCalm, CallIsDue, CalledIsEligible, ExecutedIsStamped
<1>. QED BY <1>3, <1>5 DEF IInv

LEMMA ReturnedKeeps == ASSUME BotAssumption, IInv, Returned PROVE IInv'
  BY HorizonBounds DEF IInv, TypeOK, StampedSinceCalm, CallIsDue, CalledIsEligible, ExecutedIsStamped,
     Returned, chain, history, PcValues

LEMMA ThrownKeeps == ASSUME BotAssumption, IInv, Thrown PROVE IInv'
<1>1. Here \in Eligible
  BY DEF IInv, CalledIsEligible, Thrown
<1>2. UNCHANGED <<need, paused, at, sinceNSR, needFor, sinceCalm, sinceAny>> /\ sent' = "none" /\ pc' = "debt"
  BY DEF Thrown, chain
<1>3. stray' \subseteq Eligible
  BY <1>1 DEF Thrown, IInv, TypeOK
<1>4. untold' \in BOOLEAN /\ (untold' <=> untold \/ sent = "ok")
  BY DEF Thrown, IInv, TypeOK
<1>5. TypeOK'
  BY <1>2, <1>3, <1>4 DEF IInv, TypeOK, PcValues
<1>6. StampedSinceCalm' /\ CallIsDue' /\ CalledIsEligible'
  BY <1>2 DEF IInv, StampedSinceCalm, CallIsDue, CalledIsEligible
<1>7. ExecutedIsStamped'
  BY <1>2, <1>4 DEF IInv, ExecutedIsStamped
<1>. QED BY <1>5, <1>6, <1>7 DEF IInv

-----------------------------------------------------------------------------
(* The chain, and time *)

LEMMA ExecuteKeeps == ASSUME BotAssumption, IInv, Execute PROVE IInv'
<1>1. pc = "wait" /\ Here \in Strategy
  BY HereIsStrategy DEF IInv, TypeOK, Execute
<1>2. UNCHANGED <<paused, stray, pc, at, sinceNSR, needFor, sinceCalm>>
  BY DEF Execute, bot
<1>3. need' \in [Strategy -> BOOLEAN]
  BY DEF Execute, IInv, TypeOK
<1>4. \/ sent' = "ok" /\ sinceAny' = 0 /\ untold' = FALSE
      \/ sent' = "reverted" /\ sinceAny' = sinceAny /\ untold' = untold /\ sent = "sent"
  BY DEF Execute
<1>5. TypeOK'
  <2>1. 0 \in 0..Horizon
    BY HorizonBounds
  <2>2. sinceAny' \in 0..Horizon /\ sent' \in {"ok", "reverted"} /\ pc' = "wait"
    BY <1>1, <1>2, <1>4, <2>1 DEF IInv, TypeOK
  <2>3. untold' \in BOOLEAN
    BY <1>4 DEF IInv, TypeOK
  <2>. QED BY <1>1, <1>2, <1>3, <2>2, <2>3 DEF IInv, TypeOK
<1>6. StampedSinceCalm' /\ CallIsDue' /\ CalledIsEligible'
  BY <1>1, <1>2 DEF IInv, StampedSinceCalm, CallIsDue, CalledIsEligible, Here
<1>7. ExecutedIsStamped'
  BY <1>2, <1>4 DEF IInv, ExecutedIsStamped
<1>. QED BY <1>5, <1>6, <1>7 DEF IInv

\* What others do to the need and to the pauses the bot only reads.
LEMMA OthersKeep ==
  ASSUME BotAssumption, IInv, NEW s \in Strategy, ExecuteStray(s) \/ MarketMove(s) \/ Pause(s)
  PROVE  IInv'
<1>1. UNCHANGED <<sent, pc, at, sinceNSR, needFor, sinceCalm, sinceAny, untold>>
  BY DEF ExecuteStray, MarketMove, Pause, bot, history
<1>2. need' \in [Strategy -> BOOLEAN] /\ paused' \in [Strategy -> BOOLEAN] /\ stray' \subseteq Eligible
  <2>1. CASE ExecuteStray(s)
    BY <2>1 DEF ExecuteStray, IInv, TypeOK
  <2>2. CASE MarketMove(s)
    BY <2>2 DEF MarketMove, IInv, TypeOK
  <2>3. CASE Pause(s)
    BY <2>3 DEF Pause, IInv, TypeOK
  <2>. QED BY <2>1, <2>2, <2>3
<1>3. TypeOK'
  BY <1>1, <1>2 DEF IInv, TypeOK
<1>4. StampedSinceCalm' /\ CallIsDue' /\ CalledIsEligible' /\ ExecutedIsStamped'
  BY <1>1 DEF IInv, StampedSinceCalm, CallIsDue, CalledIsEligible, ExecutedIsStamped, Here
<1>. QED BY <1>3, <1>4 DEF IInv

LEMMA TickKeeps == ASSUME BotAssumption, IInv, Tick PROVE IInv'
<1>1. UNCHANGED <<need, paused, stray, sent, pc, at, untold>>
  BY DEF Tick, chain
<1>2. sinceNSR' = Older(sinceNSR) /\ sinceAny' = Older(sinceAny)
      /\ needFor' = [s \in Strategy |-> Older(needFor[s])]
      /\ sinceCalm' = [s \in Strategy |-> Older(sinceCalm[s])]
  BY DEF Tick
<1>3. sinceNSR \in 0..Horizon /\ sinceAny \in 0..Horizon
  BY DEF IInv, TypeOK
<1>4. sinceNSR' \in 0..Horizon /\ sinceAny' \in 0..Horizon /\ sinceNSR <= sinceNSR'
      /\ (sinceNSR <= sinceAny => sinceNSR' <= sinceAny')
  BY <1>2, <1>3, OlderGrows
<1>5. ASSUME NEW s \in Strategy
      PROVE  /\ needFor'[s] \in {Unset} \cup 0..Horizon /\ sinceCalm'[s] \in 0..Horizon
             /\ needFor'[s] # Unset => needFor[s] # Unset /\ needFor'[s] <= sinceCalm'[s]
             /\ needFor[s] # Unset => needFor[s] <= needFor'[s]
  <2>1. needFor'[s] = Older(needFor[s]) /\ sinceCalm'[s] = Older(sinceCalm[s])
    BY <1>2
  <2>2. sinceCalm[s] \in 0..Horizon /\ needFor[s] \in {Unset} \cup 0..Horizon
    BY DEF IInv, TypeOK
  <2>3. CASE needFor[s] = Unset
    BY <2>1, <2>2, <2>3, OlderUnset, OlderGrows
  <2>4. CASE needFor[s] # Unset
    <3>1. needFor[s] \in 0..Horizon /\ needFor[s] <= sinceCalm[s]
      BY <2>2, <2>4 DEF IInv, StampedSinceCalm
    <3>2. needFor'[s] \in 0..Horizon /\ sinceCalm'[s] \in 0..Horizon
          /\ needFor[s] <= needFor'[s] /\ needFor'[s] <= sinceCalm'[s]
      BY <2>1, <2>2, <3>1, OlderGrows
    <3>. QED BY <2>4, <3>2
  <2>. QED BY <2>3, <2>4
<1>6. needFor' \in [Strategy -> {Unset} \cup 0..Horizon] /\ sinceCalm' \in [Strategy -> 0..Horizon]
  BY <1>2, <1>5
<1>7. TypeOK'
  BY <1>1, <1>4, <1>6 DEF IInv, TypeOK
<1>8. StampedSinceCalm'
  BY <1>5 DEF StampedSinceCalm
<1>9. CallIsDue'
  <2> SUFFICES ASSUME pc = "estimate" PROVE needFor'[Here] > NeedConfirm /\ sinceNSR' > BetweenNSRs
    BY <1>1 DEF CallIsDue, Here
  <2>1. Here \in Strategy
    BY HereIsStrategy DEF IInv, TypeOK
  <2>2. needFor[Here] > NeedConfirm /\ sinceNSR > BetweenNSRs
    BY DEF IInv, CallIsDue
  <2>3. needFor[Here] \in {Unset} \cup 0..Horizon /\ needFor'[Here] \in {Unset} \cup 0..Horizon
    BY <1>6, <2>1 DEF IInv, TypeOK
  <2>4. NeedConfirm \in Nat /\ BetweenNSRs \in Nat /\ Unset = -1 /\ Horizon \in Nat
    BY HorizonBounds DEF BotAssumption, Unset
  <2>5. needFor[Here] # Unset
    BY <2>2, <2>4
  <2>6. needFor[Here] <= needFor'[Here]
    BY <1>5, <2>1, <2>5
  <2>. QED BY <1>3, <1>4, <2>2, <2>3, <2>4, <2>6
<1>10. CalledIsEligible' /\ ExecutedIsStamped'
  BY <1>1, <1>4 DEF IInv, CalledIsEligible, ExecutedIsStamped, Here
<1>. QED BY <1>7, <1>8, <1>9, <1>10 DEF IInv

LEMMA StepKeeps == ASSUME BotAssumption, IInv, [Next]_vars PROVE IInv'
<1>1. CASE Next
  BY <1>1, QuietKeeps, LookKeeps, EstimateKeeps, ReturnedKeeps, ThrownKeeps, ExecuteKeeps, OthersKeep, TickKeeps
     DEF Next, BotStep
<1>2. CASE UNCHANGED vars
  BY <1>2 DEF IInv, TypeOK, StampedSinceCalm, CallIsDue, CalledIsEligible, ExecutedIsStamped, Here,
              vars, chain, bot, history
<1>. QED BY <1>1, <1>2

\* Only Estimate sends, and what is due is confirmed.
LEMMA StepSendsConfirmed ==
  ASSUME BotAssumption, IInv, [Next]_vars, sent' = "sent", sent = "none"
  PROVE  sinceCalm[Here] > NeedConfirm /\ (untold \/ sinceAny > BetweenNSRs)
<1>1. Estimate
  BY DEF Next, BotStep, HardWork, LookFails, Look, Returned, Thrown, Rest, Debt, Sleep, Execute, Tick,
         ExecuteStray, MarketMove, Pause, vars
<1>2. Here \in Strategy
  BY HereIsStrategy DEF IInv, TypeOK
<1>3. needFor[Here] > NeedConfirm /\ sinceNSR > BetweenNSRs
  BY <1>1 DEF IInv, CallIsDue, Estimate
<1>4. needFor[Here] \in {Unset} \cup 0..Horizon /\ sinceCalm[Here] \in 0..Horizon
      /\ sinceNSR \in 0..Horizon /\ sinceAny \in 0..Horizon
  BY <1>2 DEF IInv, TypeOK
<1>5. NeedConfirm \in Nat /\ BetweenNSRs \in Nat /\ Unset = -1 /\ Horizon \in Nat
  BY HorizonBounds DEF BotAssumption, Unset
<1>6. needFor[Here] # Unset
  BY <1>3, <1>5
<1>7. needFor[Here] <= sinceCalm[Here]
  BY <1>2, <1>6 DEF IInv, StampedSinceCalm
<1>8. untold \/ sinceNSR <= sinceAny
  BY DEF IInv, ExecutedIsStamped
<1>. QED BY <1>3, <1>4, <1>5, <1>7, <1>8

-----------------------------------------------------------------------------
\* THEOREM.  The variables keep their types; a call is on the way only while
\* the bot waits for it, and strays are calls of strategies it may rebalance.
THEOREM TypeCorrect == ASSUME BotAssumption PROVE Spec => []TypeOK
<1>1. Init => IInv
  BY InitIInv
<1>2. IInv /\ [Next]_vars => IInv'
  BY StepKeeps
<1>3. IInv => TypeOK
  BY DEF IInv
<1>. QED BY <1>1, <1>2, <1>3, PTL DEF Spec

\* THEOREM.  rebalance.ts calls a rebalance only after a need that lasted, and
\* not soon after another call, whatever the prices, the other bots and the
\* network do in between.
THEOREM NeedConfirmed == ASSUME BotAssumption PROVE Spec => NeedIsConfirmed
<1>1. Init => IInv
  BY InitIInv
<1>2. IInv /\ [Next]_vars => IInv'
  BY StepKeeps
<1>3. IInv /\ [Next]_vars =>
        [sent' = "sent" /\ sent = "none" =>
           /\ sinceCalm[Here] > NeedConfirm
           /\ untold \/ sinceAny > BetweenNSRs]_vars
  BY StepSendsConfirmed
<1>. QED BY <1>1, <1>2, <1>3, PTL DEF Spec, NeedIsConfirmed
=============================================================================
