--------------------------- MODULE ReleasesProofs ---------------------------
(***************************************************************************)
(* Proofs about the verification of contracts, the search for a contract's *)
(* source and the deployment scripts, for all lists of contracts,          *)
(* artifacts, deployments, dictionaries of libraries and networks, and any *)
(* number of runs, edits and crashes.                                      *)
(*                                                                         *)
(* Verification: what a run concludes rests on the job it polls, that it   *)
(* is a job for the contract it works on, submitted with the input it      *)
(* remembers, and that a job knows whether its input was any good when it  *)
(* was made.                                                               *)
(*                                                                         *)
(* Information: that codes match says place by place what they have in     *)
(* common, hence the source of a contract always matches and an artifact   *)
(* that matches too cannot be told from it; the matches are the artifacts  *)
(* scanned that match, and what is normalized are the entries read.        *)
(*                                                                         *)
(* Deployment: what the lines of the scripts passed leave behind in the    *)
(* run, and what a record says of the lines that were passed when it was   *)
(* made, be it in this run or in one before.                               *)
(***************************************************************************)
EXTENDS Releases, FiniteSetTheorems, TLAPS

-----------------------------------------------------------------------------
(* Verification.                                                             *)

Outcomes == {"none", "skipped", "error", "verified", "failed"}
Verifier ==
  [at : 1..(Len(Listed) + 1), pc : {"next", "information", "input", "submit", "poll"},
   input : verification!Inputs, good : BOOLEAN, job : Nat, outcome : [verification!Contracts -> Outcomes]]
JobType ==
  [contract : verification!Contracts, input : verification!Inputs, good : BOOLEAN, status : {"pending", "pass", "fail", "already"}]

VerificationTypes ==
  /\ verifier \in [Verifiers -> Verifier]
  /\ jobs \in Seq(JobType)
  /\ verified \in [verification!Contracts -> {"no", "minimal", "full"}]

\* The full input reproduces a contract, or nothing does.
FullIsGood ==
  \A v \in Verifiers :
    verifier[v].pc = "submit" /\ verifier[v].input = "full" /\ ~verifier[v].good => verification!Current(v) \notin reproducible
JobsAreHonest ==
  \A j \in DOMAIN jobs :
    /\ jobs[j].input = "full" /\ ~jobs[j].good => jobs[j].contract \notin reproducible
    /\ jobs[j].status = "pass" => verified[jobs[j].contract] # "no"
    /\ jobs[j].status = "fail" => ~jobs[j].good
PolledIsOwn ==
  \A v \in Verifiers :
    verifier[v].pc = "poll" =>
      /\ verifier[v].at <= Len(Listed)
      /\ verifier[v].job \in DOMAIN jobs
      /\ jobs[verifier[v].job].contract = verification!Current(v)
      /\ jobs[verifier[v].job].input = verifier[v].input

VerificationInv == VerificationTypes /\ FullIsGood /\ JobsAreHonest /\ PolledIsOwn /\ verification!OutcomesAreTrue

-----------------------------------------------------------------------------
LEMMA CurrentIsContract ==
  ASSUME verification!OnRecordAssumption, VerificationTypes, NEW v \in Verifiers, verifier[v].at <= Len(Listed)
  PROVE  verification!Current(v) \in verification!Contracts /\ verifier[v].at + 1 \in 1..(Len(Listed) + 1) /\ verifier[v] \in Verifier
<1>1. verifier[v] \in Verifier
  BY DEF VerificationTypes
<1>2. verifier[v].at \in 1..(Len(Listed) + 1) /\ Len(Listed) \in Nat
  BY <1>1 DEF Verifier, verification!OnRecordAssumption
<1>3. verifier[v].at \in 1..Len(Listed) /\ DOMAIN Listed = 1..Len(Listed)
  BY <1>2 DEF verification!OnRecordAssumption
<1>4. verification!Current(v) \in verification!Contracts
  BY <1>3 DEF verification!Current, verification!Contracts
<1>. QED BY <1>1, <1>2, <1>3, <1>4

LEMMA IdleIsVerifier == ASSUME verification!OnRecordAssumption PROVE verification!Idle \in Verifier
<1>1. Len(Listed) + 1 \in Nat /\ 1 \in 1..(Len(Listed) + 1)
  BY DEF verification!OnRecordAssumption
<1>. QED BY <1>1 DEF verification!Idle, Verifier, verification!Inputs, Outcomes

LEMMA InitVerificationInv == ASSUME verification!OnRecordAssumption, verification!Init PROVE VerificationInv
<1>2. verification!Idle \in Verifier
  BY IdleIsVerifier
<1>3. verifier = [v \in Verifiers |-> verification!Idle]
  BY DEF verification!Init
<1>4. \A v \in Verifiers : verifier[v] = verification!Idle
  BY <1>3
<1>5. jobs = <<>> /\ verified \in [verification!Contracts -> {"no", "minimal", "full"}]
  BY DEF verification!Init
<1>6. verification!Idle.pc = "next" /\ \A c \in verification!Contracts : verification!Idle.outcome[c] = "none"
  BY DEF verification!Idle
<1>7. VerificationTypes
  BY <1>2, <1>3, <1>5 DEF VerificationTypes
<1>8. FullIsGood /\ PolledIsOwn /\ verification!OutcomesAreTrue
  BY <1>4, <1>6 DEF FullIsGood, PolledIsOwn, verification!OutcomesAreTrue
<1>9. JobsAreHonest
  BY <1>5 DEF JobsAreHonest
<1>. QED BY <1>7, <1>8, <1>9 DEF VerificationInv

\* What a run writes down when it is done with a contract.
LEMMA ConcludeWrites ==
  ASSUME verification!OnRecordAssumption, VerificationTypes, NEW v \in Verifiers, verifier[v].at <= Len(Listed),
         NEW o \in Outcomes, verification!Conclude(v, o)
  PROVE  /\ verifier' \in [Verifiers -> Verifier]
         /\ \A u \in Verifiers : u # v => verifier'[u] = verifier[u]
         /\ verifier'[v].pc = "next"
         /\ \A c \in verification!Contracts :
              verifier'[v].outcome[c] = IF c = verification!Current(v) THEN o ELSE verifier[v].outcome[c]
<1> DEFINE c0 == verification!Current(v)
           r == verifier[v]
<1>1. c0 \in verification!Contracts /\ r.at + 1 \in 1..(Len(Listed) + 1) /\ r \in Verifier
  BY CurrentIsContract
<1> DEFINE w == [r.outcome EXCEPT ![c0] = o]
           n == [verification!Idle EXCEPT !.at = r.at + 1, !.outcome = w]
<1>2. verifier' = [verifier EXCEPT ![v] = n]
  BY DEF verification!Conclude
<1> HIDE DEF c0
<1>3. r.outcome \in [verification!Contracts -> Outcomes]
  BY <1>1 DEF Verifier
<1>4. w \in [verification!Contracts -> Outcomes] /\ \A c \in verification!Contracts : w[c] = IF c = c0 THEN o ELSE r.outcome[c]
  BY <1>1, <1>3
<1> HIDE DEF w
<1>5. verification!Idle \in Verifier /\ verification!Idle.pc = "next"
  BY IdleIsVerifier DEF verification!Idle
<1>6. n \in Verifier /\ n.pc = "next" /\ n.outcome = w
  BY <1>1, <1>4, <1>5 DEF Verifier
<1> HIDE DEF n
<1>8. verifier'[v] = n /\ verifier' \in [Verifiers -> Verifier] /\ \A u \in Verifiers : u # v => verifier'[u] = verifier[u]
  BY <1>2, <1>6 DEF VerificationTypes
<1>. QED BY <1>4, <1>6, <1>8 DEF c0

\* A run that concludes nothing untrue about the contract it works on, while
\* the jobs only grow and what they say stays.
LEMMA ConcludeKeeps ==
  ASSUME verification!OnRecordAssumption, VerificationInv, NEW v \in Verifiers, verifier[v].at <= Len(Listed),
         NEW o \in Outcomes, verification!Conclude(v, o),
         o = "verified" => verified[verification!Current(v)] # "no",
         o = "failed" => verification!Current(v) \notin reproducible,
         UNCHANGED <<reproducible, verified>>,
         jobs' \in Seq(JobType), DOMAIN jobs \subseteq DOMAIN jobs',
         \A j \in DOMAIN jobs : jobs'[j] = jobs[j],
         JobsAreHonest'
  PROVE  VerificationInv'
<1> USE DEF VerificationInv
<1>1. verifier' \in [Verifiers -> Verifier] /\ verifier'[v].pc = "next"
      /\ \A u \in Verifiers : u # v => verifier'[u] = verifier[u]
  BY ConcludeWrites
<1>2. \A c \in verification!Contracts : verifier'[v].outcome[c] = IF c = verification!Current(v) THEN o ELSE verifier[v].outcome[c]
  BY ConcludeWrites
<1>3. VerificationTypes'
  BY <1>1 DEF VerificationTypes
<1>4. \A u \in Verifiers : u # v => verification!Current(u)' = verification!Current(u)
  BY <1>1 DEF verification!Current
<1>5. FullIsGood'
  BY <1>1, <1>4 DEF FullIsGood
<1>6. PolledIsOwn'
  BY <1>1, <1>4 DEF PolledIsOwn
<1>7. verification!OutcomesAreTrue'
  BY <1>1, <1>2 DEF verification!OutcomesAreTrue
<1>. QED BY <1>3, <1>5, <1>6, <1>7

\* A run that goes on with the contract it works on, the jobs being as they were.
LEMMA GoOnKeeps ==
  ASSUME verification!OnRecordAssumption, VerificationInv, NEW v \in Verifiers, NEW r \in Verifier,
         verifier' = [verifier EXCEPT ![v] = r], r.at = verifier[v].at, r.outcome = verifier[v].outcome,
         r.pc # "poll",
         r.pc = "submit" /\ r.input = "full" /\ ~r.good => verification!Current(v) \notin reproducible,
         UNCHANGED <<reproducible, jobs, verified>>
  PROVE  VerificationInv'
<1> USE DEF VerificationInv
<1>1. verifier' \in [Verifiers -> Verifier] /\ verifier'[v] = r
      /\ \A u \in Verifiers : u # v => verifier'[u] = verifier[u]
  BY DEF VerificationTypes
<1>2. VerificationTypes'
  BY <1>1 DEF VerificationTypes
<1>3. \A u \in Verifiers : verification!Current(u)' = verification!Current(u)
  BY <1>1 DEF verification!Current
<1>4. FullIsGood' /\ PolledIsOwn'
  BY <1>1, <1>3 DEF FullIsGood, PolledIsOwn
<1>5. verification!OutcomesAreTrue'
  BY <1>1 DEF verification!OutcomesAreTrue
<1>6. JobsAreHonest'
  BY DEF JobsAreHonest
<1>. QED BY <1>2, <1>4, <1>5, <1>6

LEMMA GoToKeeps ==
  ASSUME verification!OnRecordAssumption, VerificationInv, NEW v \in Verifiers,
         NEW place \in {"information", "input"}, verification!GoTo(v, place),
         UNCHANGED <<reproducible, jobs, verified>>
  PROVE  VerificationInv'
<1> DEFINE r == [verifier[v] EXCEPT !.pc = place]
<1>1. verifier[v] \in Verifier
  BY DEF VerificationInv, VerificationTypes
<1>2. r \in Verifier /\ r.at = verifier[v].at /\ r.outcome = verifier[v].outcome /\ r.pc = place
  BY <1>1 DEF Verifier
<1>3. verifier' = [verifier EXCEPT ![v] = r]
  BY DEF verification!GoTo, VerificationInv, VerificationTypes
<1> HIDE DEF r
<1>. QED BY <1>2, <1>3, GoOnKeeps

\* The input of a job is made: the full one is bad only if nothing is good.
LEMMA MakeInputKeeps ==
  ASSUME verification!OnRecordAssumption, VerificationInv, NEW v \in Verifiers,
         NEW input \in verification!Inputs, verification!MakeInput(v, input),
         UNCHANGED <<reproducible, jobs, verified>>
  PROVE  VerificationInv'
<1> DEFINE g == verification!Reproduces(verification!Current(v), input)
           r == [verifier[v] EXCEPT !.pc = "submit", !.input = input, !.good = g]
<1>1. verifier[v] \in Verifier /\ g \in BOOLEAN
  BY DEF VerificationInv, VerificationTypes, verification!Reproduces
<1>2. input = "full" /\ ~g => verification!Current(v) \notin reproducible
  BY DEF verification!Reproduces
<1>3. verifier' = [verifier EXCEPT ![v] = r]
  BY DEF verification!MakeInput, VerificationInv, VerificationTypes
<1> HIDE DEF g
<1>4. r \in Verifier /\ r.at = verifier[v].at /\ r.outcome = verifier[v].outcome
      /\ r.pc = "submit" /\ r.input = input /\ r.good = g
  BY <1>1 DEF Verifier
<1> HIDE DEF r
<1>. QED BY <1>2, <1>3, <1>4, GoOnKeeps

-----------------------------------------------------------------------------
LEMMA AtIsListed ==
  ASSUME NEW v, NEW place, verification!At(v, place)
  PROVE  verifier[v].at <= Len(Listed) /\ verifier[v].pc = place
  BY DEF verification!At

\* Conclusions while the jobs stay as they are.
LEMMA ConcludeOnlyKeeps ==
  ASSUME verification!OnRecordAssumption, VerificationInv, NEW v \in Verifiers, verifier[v].at <= Len(Listed),
         NEW o \in Outcomes, verification!Conclude(v, o),
         o = "verified" => verified[verification!Current(v)] # "no",
         o = "failed" => verification!Current(v) \notin reproducible,
         UNCHANGED <<reproducible, jobs, verified>>
  PROVE  VerificationInv'
<1>1. jobs' \in Seq(JobType) /\ DOMAIN jobs \subseteq DOMAIN jobs' /\ \A j \in DOMAIN jobs : jobs'[j] = jobs[j]
  BY DEF VerificationInv, VerificationTypes
<1>2. JobsAreHonest'
  BY DEF VerificationInv, JobsAreHonest
<1>. QED BY <1>1, <1>2, ConcludeKeeps

LEMMA BeforeSubmitKeeps ==
  ASSUME verification!OnRecordAssumption, VerificationInv, NEW v \in Verifiers,
         verification!SkipUndeployed(v) \/ verification!CheckVerified(v) \/ verification!GetInformation(v) \/ verification!GetMinimalInput(v) \/ verification!PollPending(v)
  PROVE  VerificationInv'
<1> USE DEF Outcomes, verification!Inputs
<1>1. CASE verification!SkipUndeployed(v)
  BY <1>1, AtIsListed, ConcludeOnlyKeeps DEF verification!SkipUndeployed
<1>2. CASE verification!CheckVerified(v)
  BY <1>2, AtIsListed, ConcludeOnlyKeeps, GoToKeeps DEF verification!CheckVerified
<1>3. CASE verification!GetInformation(v)
  BY <1>3, AtIsListed, ConcludeOnlyKeeps, GoToKeeps DEF verification!GetInformation
<1>4. CASE verification!GetMinimalInput(v)
  BY <1>4, AtIsListed, ConcludeOnlyKeeps, MakeInputKeeps DEF verification!GetMinimalInput
<1>5. CASE verification!PollPending(v)
  BY <1>5, AtIsListed, ConcludeOnlyKeeps DEF verification!PollPending
<1>. QED BY <1>1, <1>2, <1>3, <1>4, <1>5

LEMMA PollAnswerKeeps ==
  ASSUME verification!OnRecordAssumption, VerificationInv, NEW v \in Verifiers, verification!PollAnswer(v)
  PROVE  VerificationInv'
<1> DEFINE job == jobs[verifier[v].job]
<1> USE DEF Outcomes, verification!Inputs
<1>1. verifier[v].at <= Len(Listed) /\ verifier[v].pc = "poll" /\ UNCHANGED <<reproducible, jobs, verified>>
  BY DEF verification!PollAnswer, verification!At
<1>2. verifier[v].job \in DOMAIN jobs /\ job.contract = verification!Current(v) /\ job.input = verifier[v].input
  BY <1>1 DEF VerificationInv, PolledIsOwn
<1>3. /\ job.input = "full" /\ ~job.good => verification!Current(v) \notin reproducible
      /\ job.status = "pass" => verified[verification!Current(v)] # "no"
      /\ job.status = "fail" => ~job.good
  BY <1>2 DEF VerificationInv, JobsAreHonest
<1>4. \/ job.status = "pass" /\ verification!Conclude(v, "verified")
      \/ job.status = "fail" /\ verifier[v].input = "minimal" /\ verification!MakeInput(v, "full")
      \/ job.status = "fail" /\ verifier[v].input = "full" /\ verification!Conclude(v, "failed")
      \/ job.status = "already" /\ verification!Conclude(v, "error")
  BY DEF verification!PollAnswer
<1> HIDE DEF job
<1>5. CASE job.status = "pass" /\ verification!Conclude(v, "verified")
  BY <1>1, <1>3, <1>5, ConcludeOnlyKeeps
<1>6. CASE job.status = "fail" /\ verifier[v].input = "minimal" /\ verification!MakeInput(v, "full")
  BY <1>1, <1>6, MakeInputKeeps
<1>7. CASE job.status = "fail" /\ verifier[v].input = "full" /\ verification!Conclude(v, "failed")
  BY <1>1, <1>2, <1>3, <1>7, ConcludeOnlyKeeps
<1>8. CASE job.status = "already" /\ verification!Conclude(v, "error")
  BY <1>1, <1>8, ConcludeOnlyKeeps
<1>. QED BY <1>4, <1>5, <1>6, <1>7, <1>8

\* A job is queued as it was made; the answer with its number may be lost.
LEMMA SubmitKeeps ==
  ASSUME verification!OnRecordAssumption, VerificationInv, NEW v \in Verifiers, verification!Submit(v)
  PROVE  VerificationInv'
<1> USE DEF Outcomes
<1>1. verifier[v].at <= Len(Listed) /\ verifier[v].pc = "submit" /\ UNCHANGED <<reproducible, verified>>
  BY DEF verification!Submit, verification!At
<1>2. verification!Current(v) \in verification!Contracts /\ verifier[v] \in Verifier
  BY <1>1, CurrentIsContract DEF VerificationInv
<1>3. verification!Job(v) \in JobType /\ verification!Job(v).status = "pending" /\ verification!Job(v).contract = verification!Current(v)
      /\ verification!Job(v).input = verifier[v].input /\ verification!Job(v).good = verifier[v].good
  BY <1>2 DEF verification!Job, JobType, Verifier
<1>4. verification!Job(v).input = "full" /\ ~verification!Job(v).good => verification!Job(v).contract \notin reproducible
  BY <1>1, <1>3 DEF VerificationInv, FullIsGood
<1>5. CASE jobs' = jobs /\ verification!Conclude(v, "error")
  BY <1>1, <1>5, ConcludeOnlyKeeps
<1>6. CASE jobs' = Append(jobs, verification!Job(v))
  <2> DEFINE k == Len(jobs) + 1
             job == verification!Job(v)
  <2>1. jobs \in Seq(JobType) /\ job \in JobType
    BY <1>3 DEF VerificationInv, VerificationTypes
  <2> HIDE DEF job
  <2>2. jobs' = Append(jobs, job)
    BY <1>6 DEF job
  <2>3. jobs' \in Seq(JobType) /\ DOMAIN jobs' = DOMAIN jobs \cup {k} /\ k \notin DOMAIN jobs /\ jobs'[k] = job
        /\ \A j \in DOMAIN jobs : jobs'[j] = jobs[j]
    BY <2>1, <2>2
  <2>4. job.status = "pending" /\ job.contract = verification!Current(v) /\ job.input = verifier[v].input
        /\ (job.input = "full" /\ ~job.good => job.contract \notin reproducible)
    BY <1>3, <1>4 DEF job
  <2>5. JobsAreHonest'
    BY <1>1, <2>3, <2>4 DEF VerificationInv, JobsAreHonest
  <2>6. CASE verification!Conclude(v, "error")
    BY <1>1, <2>3, <2>5, <2>6, ConcludeKeeps
  <2>7. CASE verifier' = [verifier EXCEPT ![v].pc = "poll", ![v].job = k]
    <3> DEFINE r == [verifier[v] EXCEPT !.pc = "poll", !.job = k]
    <3>1. k \in Nat
      BY <2>1
    <3> HIDE DEF k
    <3>2. r \in Verifier /\ r.at = verifier[v].at /\ r.outcome = verifier[v].outcome /\ r.pc = "poll"
          /\ r.job = k /\ r.input = verifier[v].input
      BY <1>2, <3>1 DEF Verifier
    <3>3. verifier' = [verifier EXCEPT ![v] = r]
      BY <2>7 DEF VerificationInv, VerificationTypes
    <3> HIDE DEF r
    <3>4. verifier' \in [Verifiers -> Verifier] /\ verifier'[v] = r
          /\ \A u \in Verifiers : u # v => verifier'[u] = verifier[u]
      BY <3>2, <3>3 DEF VerificationInv, VerificationTypes
    <3>5. \A u \in Verifiers : verification!Current(u)' = verification!Current(u)
      BY <3>2, <3>4 DEF verification!Current
    <3>6. VerificationTypes'
      BY <1>1, <2>3, <3>4 DEF VerificationInv, VerificationTypes
    <3>7. FullIsGood'
      BY <1>1, <3>2, <3>4, <3>5 DEF VerificationInv, FullIsGood
    <3>8. PolledIsOwn'
      BY <1>1, <2>3, <2>4, <3>2, <3>4, <3>5 DEF VerificationInv, PolledIsOwn
    <3>9. verification!OutcomesAreTrue'
      BY <1>1, <3>2, <3>4 DEF VerificationInv, verification!OutcomesAreTrue
    <3>. QED BY <2>5, <3>6, <3>7, <3>8, <3>9 DEF VerificationInv
  <2>8. verifier' = [verifier EXCEPT ![v].pc = "poll", ![v].job = k] \/ verification!Conclude(v, "error")
    BY DEF verification!Submit
  <2>. QED BY <2>6, <2>7, <2>8
<1>. QED BY <1>5, <1>6 DEF verification!Submit

\* The explorer judges a job once, and verifies with what is good only.
LEMMA JudgeKeeps ==
  ASSUME verification!OnRecordAssumption, VerificationInv, NEW j, verification!Judge(j)
  PROVE  VerificationInv'
<1> USE DEF VerificationInv
<1>1. j \in DOMAIN jobs /\ UNCHANGED <<reproducible, verifier>>
  BY DEF verification!Judge
<1>2. jobs[j] \in JobType /\ jobs \in Seq(JobType)
  BY <1>1 DEF VerificationTypes
<1>3. PICK s \in {"pass", "fail", "already"} :
        /\ jobs' = [jobs EXCEPT ![j].status = s]
        /\ s = "fail" => ~jobs[j].good
        /\ s = "pass" => verified' = [verified EXCEPT ![jobs[j].contract] = jobs[j].input]
        /\ s # "pass" => verified' = verified
  BY DEF verification!Judge
<1> DEFINE job == [jobs[j] EXCEPT !.status = s]
<1>4. job \in JobType /\ job.contract = jobs[j].contract /\ job.input = jobs[j].input
      /\ job.good = jobs[j].good /\ job.status = s
  BY <1>2 DEF JobType
<1>5. jobs' = [jobs EXCEPT ![j] = job]
  BY <1>2, <1>3
<1> HIDE DEF job
<1>6. jobs' \in Seq(JobType) /\ DOMAIN jobs' = DOMAIN jobs /\ jobs'[j] = job
      /\ \A k \in DOMAIN jobs : k # j => jobs'[k] = jobs[k]
  BY <1>1, <1>2, <1>4, <1>5
<1>7. jobs[j].contract \in verification!Contracts /\ jobs[j].input \in {"minimal", "full"}
  BY <1>2 DEF JobType, verification!Inputs
<1>8. /\ verified' \in [verification!Contracts -> {"no", "minimal", "full"}]
      /\ \A c \in verification!Contracts : verified[c] # "no" => verified'[c] # "no"
      /\ s = "pass" => verified'[job.contract] # "no"
  BY <1>3, <1>4, <1>7 DEF VerificationTypes
<1>9. VerificationTypes'
  BY <1>1, <1>6, <1>8 DEF VerificationTypes
<1>10. \A v \in Verifiers : verification!Current(v)' = verification!Current(v)
  BY <1>1 DEF verification!Current
<1>11. FullIsGood'
  BY <1>1, <1>10 DEF FullIsGood
<1>12. \A k \in DOMAIN jobs : jobs'[k].contract = jobs[k].contract /\ jobs'[k].input = jobs[k].input
                              /\ jobs'[k].good = jobs[k].good /\ jobs[k].contract \in verification!Contracts
  <2> TAKE k \in DOMAIN jobs
  <2>1. jobs[k].contract \in verification!Contracts
    <3>1. jobs[k] \in JobType
      BY <1>2
    <3>. QED BY <3>1 DEF JobType
  <2>2. CASE k = j
    BY <2>1, <2>2, <1>4, <1>6
  <2>3. CASE k # j
    BY <2>1, <2>3, <1>6
  <2>. QED BY <2>2, <2>3
<1>13. PolledIsOwn'
  BY <1>1, <1>6, <1>10, <1>12 DEF PolledIsOwn
<1>14. JobsAreHonest'
  <2> SUFFICES ASSUME NEW k \in DOMAIN jobs
               PROVE  /\ jobs'[k].input = "full" /\ ~jobs'[k].good => jobs'[k].contract \notin reproducible
                      /\ jobs'[k].status = "pass" => verified'[jobs'[k].contract] # "no"
                      /\ jobs'[k].status = "fail" => ~jobs'[k].good
    BY <1>1, <1>6 DEF JobsAreHonest
  <2>1. CASE k = j
    BY <2>1, <1>3, <1>4, <1>6, <1>8 DEF JobsAreHonest
  <2>2. CASE k # j
    BY <2>2, <1>6, <1>8, <1>12 DEF JobsAreHonest
  <2>. QED BY <2>1, <2>2
<1>15. verification!OutcomesAreTrue'
  BY <1>1, <1>8 DEF verification!OutcomesAreTrue
<1>. QED BY <1>9, <1>11, <1>13, <1>14, <1>15

\* Editing the sources, the end, and stuttering change nothing the runs rely on.
LEMMA RestKeeps == ASSUME VerificationInv, UNCHANGED <<reproducible, verifier, jobs, verified>> PROVE VerificationInv'
  BY DEF VerificationInv, VerificationTypes, FullIsGood, JobsAreHonest, PolledIsOwn, verification!OutcomesAreTrue, verification!Current

LEMMA StepKeeps == ASSUME verification!OnRecordAssumption, VerificationInv, [verification!Next]_verification!vars PROVE VerificationInv'
<1>1. CASE \E v \in Verifiers : verification!Step(v)
  BY <1>1, BeforeSubmitKeeps, SubmitKeeps, PollAnswerKeeps DEF verification!Step
<1>2. CASE \E j \in 1..verification!MaxJobs : verification!Judge(j)
  BY <1>2, JudgeKeeps
<1>3. CASE verification!EditSources \/ verification!Terminating \/ UNCHANGED verification!vars
  BY <1>3, RestKeeps DEF verification!EditSources, verification!Terminating, verification!vars
<1>. QED BY <1>1, <1>2, <1>3 DEF verification!Next

-----------------------------------------------------------------------------
(* Information.  What the code on chain says of an artifact.  Art(a) is what is*)
(* assumed of an artifact, and D(d, a) that d is a deployment of it.          *)

Art(a) ==
  /\ a \in Range(Artifacts)
  /\ a.code # <<>> /\ a.code \in Seq(Range(a.code)) /\ ~information!IsOvm(a.code)
  /\ IsFiniteSet(information!AllLibraries(a))
  /\ a.creationOnly \intersect information!Detectable(a) = {}
  /\ \A l \in information!Detectable(a) : \E p \in a.links[l] : \A q \in a.links[l] : p <= q
  /\ information!Places(a) \subseteq (DOMAIN a.code) \ {1}
  /\ a.code[1] = "73" => Len(a.code) >= 2 /\ a.code[2] = "00" /\ 2 \notin information!Places(a)

LEMMA CardinalityOfInformation ==
  ASSUME NEW S
  PROVE  information!Cardinality(S) = Cardinality(S) /\ information!IsFiniteSet(S) = IsFiniteSet(S)
  BY DEF Cardinality, information!Cardinality, IsFiniteSet, information!IsFiniteSet

LEMMA ArtifactsAreArt ==
  ASSUME information!ArtifactsAssumption
  PROVE  /\ \A a \in Range(Artifacts) : Art(a)
         /\ Artifacts \in Seq(Range(Artifacts))
         /\ \A a, b \in Range(Artifacts) : a.name = b.name => a = b
         /\ \A k, n \in DOMAIN Artifacts : Artifacts[k] = Artifacts[n] => k = n
<1>1. information!Range(Artifacts) = Range(Artifacts)
  BY DEF Range, information!Range
<1>2. \A a : information!Range(a.code) = Range(a.code)
  BY DEF Range, information!Range
<1>3. \A a \in Range(Artifacts) : information!IsFiniteSet(information!AllLibraries(a)) => IsFiniteSet(information!AllLibraries(a))
  BY CardinalityOfInformation
<1>4. \A a \in Range(Artifacts) : Art(a)
  BY <1>1, <1>2, <1>3 DEF information!ArtifactsAssumption, Art, information!Push20, information!Zero
<1>5. \A k, n \in DOMAIN Artifacts : Artifacts[k].name = Artifacts[n].name => k = n
  BY DEF information!ArtifactsAssumption
<1>6. \A a, b \in Range(Artifacts) : a.name = b.name => a = b
  BY <1>5 DEF Range
<1>7. Artifacts \in Seq(Range(Artifacts))
  BY <1>1 DEF information!ArtifactsAssumption
<1>. QED BY <1>4, <1>5, <1>6, <1>7

\* The code an artifact is compared as.
LEMMA ReferenceIs ==
  ASSUME NEW d, NEW a, Art(a)
  PROVE  LET ref == information!Reference(d, a) IN
         /\ ref \in Seq(Range(a.code) \cup {"ovm-replace"}) /\ Len(ref) = Len(a.code)
         /\ DOMAIN ref = 1..Len(a.code) /\ DOMAIN a.code = 1..Len(a.code)
         /\ Len(a.code) \in Nat /\ Len(a.code) >= 1
         /\ \A p \in 1..Len(a.code) :
              ref[p] = IF information!IsOvm(d) /\ a.code[p] = "ovm-find" THEN "ovm-replace" ELSE a.code[p]
<1> DEFINE S == Range(a.code) \cup {"ovm-replace"}
           n == Len(a.code)
           ref == information!Reference(d, a)
<1>1. a.code \in Seq(Range(a.code)) /\ a.code # <<>>
  BY DEF Art
<1>2. n \in Nat /\ n >= 1 /\ DOMAIN a.code = 1..n
  BY <1>1
<1>3. \A p \in 1..n : a.code[p] \in Range(a.code)
  BY <1>2 DEF Range
<1>4. /\ DOMAIN ref = 1..n
      /\ \A p \in 1..n :
           ref[p] = IF information!IsOvm(d) /\ a.code[p] = "ovm-find" THEN "ovm-replace" ELSE a.code[p]
  BY <1>2 DEF information!Reference, information!OvmFind, information!OvmReplace
<1>5. ref = [p \in 1..n |-> ref[p]]
  BY <1>2 DEF information!Reference
<1>6. ref \in [1..n -> S]
  BY <1>3, <1>4, <1>5
<1> HIDE DEF ref, n, S
<1>7. ref \in Seq(S) /\ Len(ref) = n
  BY <1>2, <1>4, <1>6
<1>. QED BY <1>2, <1>4, <1>7 DEF ref, n, S

\* Where a code is masked, when it is compared with an artifact.
Masked(d, a) == information!Places(a) \cup information!CallProtectionOffsets(d, a)

LEMMA MaskedIs ==
  ASSUME NEW d, NEW a
  PROVE  \A p : p \in Masked(d, a) <=>
           \/ p \in information!Places(a)
           \/ p = 2 /\ Len(d) >= 2 /\ d[1] = "73" /\ Len(a.code) >= 2 /\ a.code[1] = "73" /\ a.code[2] = "00"
  BY DEF Masked, information!CallProtectionOffsets, information!Push20, information!Zero

LEMMA NullifiedIs ==
  ASSUME NEW d, NEW a
  PROVE  /\ DOMAIN information!Nullified(d, a) = DOMAIN d
         /\ \A p \in DOMAIN d : information!Nullified(d, a)[p] = IF p \in Masked(d, a) THEN "00" ELSE d[p]
         /\ information!Nullified(d, a) = [p \in DOMAIN d |-> IF p \in Masked(d, a) THEN "00" ELSE d[p]]
  BY DEF information!Nullified, Masked, information!Zero

\* A contract matches the artifact it was deployed from.
LEMMA OwnMatches ==
  ASSUME NEW d, NEW a, Art(a), information!DeployedFrom(d, a)
  PROVE  information!Compare(d.code, a)
<1> DEFINE code0 == d.code
           ref == information!Reference(code0, a)
           n == Len(a.code)
<1>1. DOMAIN ref = 1..n /\ Len(ref) = n /\ n \in Nat /\ n >= 1 /\ DOMAIN a.code = 1..n
  BY ReferenceIs
<1>2. \A p \in 1..n : ref[p] = IF information!IsOvm(code0) /\ a.code[p] = "ovm-find" THEN "ovm-replace" ELSE a.code[p]
  BY ReferenceIs
<1>3. code0 \in Seq(Range(code0)) /\ Len(code0) = n
  BY DEF information!DeployedFrom, Range, information!Range
<1>4. DOMAIN code0 = 1..n
  BY <1>1, <1>3
<1>5. \A p \in (1..n) \ information!Places(a) : code0[p] = ref[p] \/ (p = 2 /\ a.code[1] = "73")
  BY <1>1 DEF information!DeployedFrom, information!Push20
<1>6. 1 \notin information!Places(a) /\ (a.code[1] = "73" => n >= 2 /\ a.code[2] = "00" /\ 2 \notin information!Places(a))
  BY DEF Art
<1> HIDE DEF ref, code0, n
<1>7. code0[1] = ref[1]
  BY <1>1, <1>5, <1>6
<1>8. ref[1] = "73" <=> a.code[1] = "73"
  BY <1>1, <1>2
<1>9. \A p : p \in Masked(code0, a) <=> p \in Masked(ref, a)
  BY <1>1, <1>3, <1>7, MaskedIs
<1>10. \A p \in 1..n : p \in Masked(code0, a) \/ code0[p] = ref[p]
  <2> TAKE p \in 1..n
  <2>1. p \in Masked(code0, a) \/ code0[p] = ref[p] \/ (p = 2 /\ a.code[1] = "73")
    BY <1>5, MaskedIs
  <2>2. CASE p = 2 /\ a.code[1] = "73"
    <3>1. code0[1] = "73" /\ n >= 2 /\ a.code[2] = "00" /\ Len(code0) >= 2
      BY <1>3, <1>6, <1>7, <1>8, <2>2
    <3>. QED BY <2>2, <3>1, MaskedIs DEF n
  <2>. QED BY <2>1, <2>2
<1>11. information!Nullified(code0, a) = information!Nullified(ref, a)
  BY <1>1, <1>4, <1>9, <1>10, NullifiedIs
<1>. QED BY <1>1, <1>3, <1>11 DEF information!Compare, ref, code0

\* What a match says: place by place, up to the mask.
LEMMA MatchSays ==
  ASSUME NEW d, NEW a, Art(a), information!Compare(d, a), DOMAIN d = 1..Len(d), Len(d) \in Nat
  PROVE  LET ref == information!Reference(d, a) IN
         /\ Len(d) = Len(a.code)
         /\ d[1] = ref[1]
         /\ \A p \in 1..Len(d) :
              \/ p \in information!Places(a) \/ d[p] = ref[p]
              \/ p = 2 /\ Len(a.code) >= 2 /\ d[1] = "73" /\ a.code[1] = "73" /\ a.code[2] = "00"
<1> DEFINE ref == information!Reference(d, a)
           n == Len(a.code)
<1>1. DOMAIN ref = 1..n /\ Len(ref) = n /\ n \in Nat /\ n >= 1
  BY ReferenceIs
<1>2. 1 \notin information!Places(a)
  BY DEF Art
<1>3. information!Nullified(d, a) = information!Nullified(ref, a)
  BY DEF information!Compare
<1> HIDE DEF ref
<1>4. 1..Len(d) = 1..n
  BY <1>1, <1>3, NullifiedIs
<1> HIDE DEF n
<1>5. Len(d) = n
  <2> DEFINE m == Len(d)
  <2>1. m \in Nat /\ n \in Nat /\ n >= 1 /\ 1..m = 1..n
    BY <1>1, <1>4
  <2> HIDE DEF m
  <2>2. n \in 1..m
    BY <2>1
  <2>3. m \in 1..n
    BY <2>1, <2>2
  <2>4. m = n
    BY <2>1, <2>2, <2>3
  <2>. QED BY <2>4 DEF m
<1>6. \A p \in 1..n : (IF p \in Masked(d, a) THEN "00" ELSE d[p]) = (IF p \in Masked(ref, a) THEN "00" ELSE ref[p])
  BY <1>1, <1>3, <1>5, NullifiedIs
<1>7. 1 \notin Masked(d, a) /\ 1 \notin Masked(ref, a)
  BY <1>2, MaskedIs
<1>8. d[1] = ref[1]
  BY <1>1, <1>6, <1>7
<1>9. \A p \in 1..n : p \in Masked(d, a) <=> p \in Masked(ref, a)
  BY <1>1, <1>5, <1>8, MaskedIs
<1>10. \A p \in 1..n : p \in Masked(d, a) \/ d[p] = ref[p]
  BY <1>6, <1>9
<1>. QED BY <1>5, <1>8, <1>10, MaskedIs DEF ref, n

\* Two artifacts that a contract matches, one of which it was deployed from,
\* cannot be told apart.
LEMMA MatchesLookAlike ==
  ASSUME NEW a, NEW b, Art(a), Art(b), information!DeployedFrom(deployed, a),
         information!Compare(deployed.code, a), information!Compare(deployed.code, b)
  PROVE  information!LooksLike(b, a)
<1> DEFINE d == deployed.code
           n == Len(a.code)
           ra == information!Reference(d, a)
           rb == information!Reference(d, b)
<1>1. d \in Seq(Range(d)) /\ Len(d) = n
  BY DEF information!DeployedFrom, Range, information!Range
<1> HIDE DEF d
<1>2. DOMAIN d = 1..Len(d) /\ Len(d) \in Nat
  BY <1>1
<1>3. /\ Len(d) = Len(a.code) /\ d[1] = ra[1]
      /\ \A p \in 1..Len(d) :
           \/ p \in information!Places(a) \/ d[p] = ra[p]
           \/ p = 2 /\ Len(a.code) >= 2 /\ d[1] = "73" /\ a.code[1] = "73" /\ a.code[2] = "00"
  BY <1>2, MatchSays DEF d
<1>4. /\ Len(d) = Len(b.code) /\ d[1] = rb[1]
      /\ \A p \in 1..Len(d) :
           \/ p \in information!Places(b) \/ d[p] = rb[p]
           \/ p = 2 /\ Len(b.code) >= 2 /\ d[1] = "73" /\ b.code[1] = "73" /\ b.code[2] = "00"
  BY <1>2, MatchSays DEF d
<1>5. /\ n \in Nat /\ n >= 1
      /\ DOMAIN a.code = 1..n
      /\ \A p \in 1..n : ra[p] = IF information!IsOvm(d) /\ a.code[p] = "ovm-find" THEN "ovm-replace" ELSE a.code[p]
  BY ReferenceIs
<1>6. /\ DOMAIN b.code = 1..Len(b.code)
      /\ \A p \in 1..Len(b.code) : rb[p] = IF information!IsOvm(d) /\ b.code[p] = "ovm-find" THEN "ovm-replace" ELSE b.code[p]
  BY ReferenceIs
<1>7. Len(b.code) = n
  BY <1>1, <1>4
<1>8. \A p \in 1..n : a.code[p] # "ovm-replace" /\ b.code[p] # "ovm-replace"
  BY <1>5, <1>6, <1>7 DEF Art, information!IsOvm, information!OvmReplace
<1>9. a.code[1] = "73" => n >= 2 /\ a.code[2] = "00" /\ 2 \notin information!Places(a)
  BY DEF Art
<1>10. b.code[1] = "73" => Len(b.code) >= 2 /\ b.code[2] = "00" /\ 2 \notin information!Places(b)
  BY DEF Art
<1> HIDE DEF n, ra, rb
<1>11. d[1] = "73" <=> a.code[1] = "73"
  BY <1>3, <1>5
<1>12. d[1] = "73" <=> b.code[1] = "73"
  BY <1>4, <1>5, <1>6, <1>7
<1>13. ASSUME NEW p \in 1..n
       PROVE  b.code[p] = a.code[p] \/ p \in information!Places(b) \/ (p \in information!Places(a) /\ rb[p] = d[p])
  <2>1. CASE p = 2 /\ d[1] = "73"
    BY <2>1, <1>9, <1>10, <1>11, <1>12
  <2>2. CASE ~(p = 2 /\ d[1] = "73")
    <3>1. p \in information!Places(b) \/ d[p] = rb[p]
      BY <1>1, <1>4, <2>2
    <3>2. p \in information!Places(a) \/ d[p] = ra[p]
      BY <1>1, <1>3, <2>2
    <3>3. d[p] = ra[p] /\ d[p] = rb[p] => a.code[p] = b.code[p]
      BY <1>5, <1>6, <1>7, <1>8
    <3>. QED BY <3>1, <3>2, <3>3
  <2>. QED BY <2>1, <2>2
<1>. QED BY <1>6, <1>7, <1>13 DEF information!LooksLike, n, rb, d

-----------------------------------------------------------------------------
\* The invariant of the search.

Given(u, k, a) == information!LookupLibrary(u[k].key, a)

InformationTypes ==
  /\ deployed \in Deployments /\ userLibraries \in UserInputs
  /\ wanted = {} \/ \E name : wanted = {name}
  /\ pc = "scan" => wanted = {}
  /\ pc = "named" => wanted # {}
  /\ pc \in {"versions", "named", "scan"} => normalized = <<>>
  /\ pc \in {"versions", "named"} => matches = <<>> /\ cursor = 1

\* The matches are the artifacts scanned that match, each once.
ScanInv ==
  pc = "scan" =>
    /\ cursor \in 1..(Len(Artifacts) + 1)
    /\ matches \in Seq(Range(Artifacts))
    /\ \A n \in DOMAIN matches : \E k \in 1..(cursor - 1) :
         matches[n] = Artifacts[k] /\ information!IsMatch(Artifacts[k])
    /\ \A k \in 1..(cursor - 1) :
         information!IsMatch(Artifacts[k]) => \E n \in DOMAIN matches : matches[n] = Artifacts[k]
    /\ \A n, o \in DOMAIN matches : matches[n] = matches[o] => n = o

Chosen == pc \in {"normalize", "link", "done"}

\* What is chosen is the only one that matches, or the one that was named.
ChosenInv ==
  Chosen =>
    /\ matches[1] \in Range(Artifacts) /\ information!IsMatch(matches[1])
    /\ wanted = {} => \A b \in Range(Artifacts) : information!IsMatch(b) => b = matches[1]
    /\ wanted # {} => matches[1].name \in wanted

\* What is normalized are the entries read so far, one library each.
NormalizeInv ==
  Chosen =>
    /\ cursor \in 1..(Len(userLibraries) + 1)
    /\ pc # "normalize" => cursor = Len(userLibraries) + 1
    /\ \A l \in DOMAIN normalized : \E k \in 1..(cursor - 1) :
         Given(userLibraries, k, matches[1]) = {l} /\ normalized[l] = userLibraries[k].address
    /\ \A k \in 1..(cursor - 1) : \E l \in DOMAIN normalized : Given(userLibraries, k, matches[1]) = {l}

LinksInv ==
  pc = "done" =>
    /\ submitted = information!MergeLibraries(information!AddressesFromBytecode(matches[1]))
    /\ information!Cardinality(DOMAIN submitted) >= information!Cardinality(information!AllLibraries(matches[1]))

InformationInv ==
  /\ InformationTypes /\ ScanInv /\ ChosenInv /\ NormalizeInv /\ LinksInv
  /\ information!SoundIsAccepted

\* A request that is sound, with the artifact it is sound for.
SoundFor(a) ==
  /\ a \in Range(Artifacts) /\ information!IsMatch(a) /\ a.name = deployed.of
  /\ wanted = {a.name} \/ (wanted = {} /\ \A b \in Range(Artifacts) : information!IsMatch(b) => b = a)
  /\ \A k \in DOMAIN userLibraries :
       /\ userLibraries[k].address.valid
       /\ information!Cardinality(Given(userLibraries, k, a)) = 1
       /\ \A l \in Given(userLibraries, k, a) \intersect information!Detectable(a) :
            userLibraries[k].address.of = deployed.linked[l]
       /\ \A n \in DOMAIN userLibraries \ {k} : Given(userLibraries, n, a) # Given(userLibraries, k, a)
  /\ a.creationOnly \subseteq UNION {Given(userLibraries, k, a) : k \in DOMAIN userLibraries}

LEMMA RangeOfInformation == ASSUME NEW s PROVE information!Range(s) = Range(s)
  BY DEF Range, information!Range

\* The source of the contract matches, and was deployed.
LEMMA LocalMatches ==
  ASSUME ReleaseAssumptions, deployed \in Deployments, NEW a \in information!Local
  PROVE  /\ a \in Range(Artifacts) /\ Art(a) /\ a.name = deployed.of
         /\ information!IsMatch(a) /\ information!DeployedFrom(deployed, a)
<1>1. a \in Range(Artifacts) /\ a.name = deployed.of /\ a.buildInfo /\ information!VersionFits(a)
  BY RangeOfInformation DEF information!Local
<1>2. Art(a)
  BY <1>1, ArtifactsAreArt DEF ReleaseAssumptions
<1>3. information!DeployedFrom(deployed, a)
  BY <1>1, RangeOfInformation DEF ReleaseAssumptions, information!DeploymentsAssumption
<1>4. information!Compare(deployed.code, a)
  BY <1>2, <1>3, OwnMatches
<1>. QED BY <1>1, <1>2, <1>3, <1>4 DEF information!IsMatch

SoundWith(a) ==
  /\ wanted = {a.name} \/ (wanted = {} /\ \A b \in Range(Artifacts) \ {a} : ~information!LooksLike(b, a))
  /\ \A k \in DOMAIN userLibraries :
       /\ userLibraries[k].address.valid
       /\ information!Cardinality(Given(userLibraries, k, a)) = 1
       /\ \A l \in Given(userLibraries, k, a) \intersect information!Detectable(a) :
            userLibraries[k].address.of = deployed.linked[l]
       /\ \A n \in DOMAIN userLibraries \ {k} : Given(userLibraries, n, a) # Given(userLibraries, k, a)
  /\ a.creationOnly \subseteq UNION {Given(userLibraries, k, a) : k \in DOMAIN userLibraries}

LEMMA SoundRequestIs ==
  information!SoundRequest <=> information!Supported /\ \E a \in information!Local : SoundWith(a)
  BY RangeOfInformation DEF information!SoundRequest, SoundWith, Given

LEMMA SoundIsFor ==
  ASSUME ReleaseAssumptions, deployed \in Deployments, information!SoundRequest
  PROVE  \E a : SoundFor(a)
<1>1. PICK a \in information!Local : SoundWith(a)
  BY SoundRequestIs
<1>2. a \in Range(Artifacts) /\ Art(a) /\ a.name = deployed.of
      /\ information!IsMatch(a) /\ information!DeployedFrom(deployed, a)
  BY LocalMatches
<1>3. ASSUME NEW b \in Range(Artifacts), information!IsMatch(b), wanted = {}
      PROVE  b = a
  <2>1. Art(b)
    BY ArtifactsAreArt DEF ReleaseAssumptions
  <2>2. information!LooksLike(b, a)
    BY <1>2, <1>3, <2>1, MatchesLookAlike DEF information!IsMatch
  <2>3. wanted # {a.name}
    BY <1>3
  <2>. QED BY <1>1, <2>2, <2>3 DEF SoundWith
<1>. QED BY <1>1, <1>2, <1>3 DEF SoundFor, SoundWith

LEMMA SoundStays ==
  ASSUME UNCHANGED <<compilers, deployed, wanted, userLibraries>>
  PROVE  information!SoundRequest' <=> information!SoundRequest
<1>1. information!Local' = information!Local
  BY DEF information!Local, information!VersionFits, information!MatchingVersions, information!IsOvm
<1>2. \A a, b : information!LooksLike(b, a)' <=> information!LooksLike(b, a)
  BY DEF information!LooksLike
<1>3. \A a : SoundWith(a)' <=> SoundWith(a)
  BY <1>2 DEF SoundWith, Given
<1>4. information!SoundRequest' <=> information!Supported' /\ \E a \in information!Local' : SoundWith(a)'
  BY RangeOfInformation DEF information!SoundRequest, SoundWith, Given
<1>5. information!Supported' <=> information!Supported
  BY DEF information!Supported
<1>. QED BY <1>1, <1>3, <1>4, <1>5, SoundRequestIs

LEMMA MatchStays ==
  ASSUME UNCHANGED <<compilers, deployed>>, NEW a
  PROVE  information!IsMatch(a)' <=> information!IsMatch(a)
  BY DEF information!IsMatch, information!VersionFits, information!MatchingVersions, information!IsOvm

LEMMA FailKeeps ==
  ASSUME InformationInv, NEW name, information!Fail(name), ~information!SoundRequest
  PROVE  InformationInv'
<1>1. UNCHANGED <<compilers, deployed, wanted, userLibraries>> /\ pc' = "error"
  BY DEF information!Fail
<1>2. ~information!SoundRequest'
  BY <1>1, SoundStays
<1>3. InformationTypes'
  BY <1>1 DEF InformationInv, InformationTypes
<1>. QED BY <1>1, <1>2, <1>3 DEF InformationInv, ScanInv, ChosenInv, NormalizeInv, LinksInv, Chosen, information!SoundIsAccepted

LEMMA InitInformationInv == ASSUME information!Init PROVE InformationInv
<1>1. pc = "versions" /\ cursor = 1 /\ matches = <<>> /\ normalized = <<>>
      /\ deployed \in Deployments /\ userLibraries \in UserInputs
  BY DEF information!Init
<1>2. wanted = {} \/ \E name : wanted = {name}
  BY DEF information!Init
<1>. QED BY <1>1, <1>2 DEF InformationInv, InformationTypes, ScanInv, ChosenInv, NormalizeInv, LinksInv, Chosen,
                           information!SoundIsAccepted

LEMMA VersionsKeep ==
  ASSUME ReleaseAssumptions, InformationInv, information!MatchVersions
  PROVE  InformationInv'
<1>1. CASE information!Fail("CompilerVersionsMismatch")
  <2>1. information!MatchingVersions = {} /\ ~information!IsOvm(deployed.code)
    BY <1>1 DEF information!MatchVersions, information!Fail
  <2>2. \A a : ~information!VersionFits(a)
    BY <2>1 DEF information!VersionFits
  <2>3. ~information!SoundRequest
    BY <2>2 DEF information!SoundRequest, information!Local
  <2>. QED BY <1>1, <2>3, FailKeeps
<1>3. CASE information!Fail("EtherscanVersionNotSupported")
  <2>1. ~information!Supported
    BY <1>3 DEF information!MatchVersions, information!Fail
  <2>2. ~information!SoundRequest
    BY <2>1 DEF information!SoundRequest
  <2>. QED BY <1>3, <2>2, FailKeeps
<1>2. CASE ~information!Fail("CompilerVersionsMismatch") /\ ~information!Fail("EtherscanVersionNotSupported")
  <2>1. pc = "versions" /\ pc' = (IF wanted = {} THEN "scan" ELSE "named")
        /\ UNCHANGED <<compilers, deployed, wanted, userLibraries, cursor, matches, normalized, submitted>>
    BY <1>2 DEF information!MatchVersions
  <2>2. InformationTypes'
    BY <2>1 DEF InformationInv, InformationTypes
  <2>3. Len(Artifacts) \in Nat
    BY ArtifactsAreArt DEF ReleaseAssumptions
  <2>4. matches = <<>> /\ cursor = 1
    BY <2>1 DEF InformationInv, InformationTypes
  <2>5. ScanInv'
    BY <2>1, <2>3, <2>4 DEF ScanInv
  <2>. QED BY <2>1, <2>2, <2>5 DEF InformationInv, ChosenInv, NormalizeInv, LinksInv, Chosen, information!SoundIsAccepted
<1>. QED BY <1>1, <1>2, <1>3

\* The choice of an artifact begins the reading of the user's libraries.
LEMMA ChoiceKeeps ==
  ASSUME ReleaseAssumptions, InformationInv, NEW a \in Range(Artifacts),
         pc \in {"named", "scan"}, pc' = "normalize", matches'[1] = a, cursor' = 1,
         UNCHANGED <<compilers, deployed, wanted, userLibraries, normalized>>,
         information!IsMatch(a),
         wanted = {} => \A b \in Range(Artifacts) : information!IsMatch(b) => b = a,
         wanted # {} => a.name \in wanted
  PROVE  InformationInv'
<1>1. InformationTypes' /\ normalized = <<>>
  BY DEF InformationInv, InformationTypes
<1>3. ChosenInv'
  BY MatchStays DEF ChosenInv
<1>4. Len(userLibraries) \in Nat
  BY DEF ReleaseAssumptions, information!DeploymentsAssumption, InformationInv, InformationTypes
<1>5. NormalizeInv'
  BY <1>1, <1>4 DEF NormalizeInv
<1>. QED BY <1>1, <1>3, <1>5 DEF InformationInv, ScanInv, LinksInv, information!SoundIsAccepted

LEMMA NamedKeeps ==
  ASSUME ReleaseAssumptions, InformationInv, information!LookupNamed
  PROVE  InformationInv'
<1>1. pc = "named" /\ wanted # {} /\ deployed \in Deployments
  BY DEF information!LookupNamed, InformationInv, InformationTypes
<1>2. \A a \in Range(Artifacts) : information!SoundRequest /\ a.name \in wanted => information!IsMatch(a)
  <2> SUFFICES ASSUME NEW a \in Range(Artifacts), information!SoundRequest, a.name \in wanted
               PROVE  information!IsMatch(a)
    OBVIOUS
  <2>1. PICK b : SoundFor(b)
    BY <1>1, SoundIsFor
  <2>2. b \in Range(Artifacts) /\ wanted = {b.name} /\ information!IsMatch(b)
    BY <1>1, <2>1 DEF SoundFor
  <2>3. a = b
    BY <2>2, ArtifactsAreArt DEF ReleaseAssumptions
  <2>. QED BY <2>2, <2>3
<1>3. CASE (\A a \in Range(Artifacts) : a.name \notin wanted) /\ information!Fail("ContractNotFound")
  <2>1. ~information!SoundRequest
    BY <1>1, <1>3, SoundIsFor DEF SoundFor
  <2>. QED BY <1>3, <2>1, FailKeeps
<1>4. CASE \E a \in Range(Artifacts) : a.name \in wanted /\ ~information!IsMatch(a) /\ \E name : information!Fail(name)
  <2>1. ~information!SoundRequest
    BY <1>2, <1>4
  <2>. QED BY <1>4, <2>1, FailKeeps
<1>5. CASE \E a \in Range(Artifacts) :
             /\ a.name \in wanted /\ information!IsMatch(a)
             /\ matches' = <<a>> /\ pc' = "normalize" /\ cursor' = 1
             /\ UNCHANGED <<compilers, deployed, wanted, userLibraries, normalized>>
  BY <1>1, <1>5, ChoiceKeeps
<1>. QED BY <1>3, <1>4, <1>5, RangeOfInformation DEF information!LookupNamed, information!IsMatch

LEMMA ScanKeeps ==
  ASSUME ReleaseAssumptions, InformationInv, information!ScanArtifact
  PROVE  InformationInv'
<1> DEFINE a == Artifacts[cursor]
<1>1. pc = "scan" /\ cursor <= Len(Artifacts) /\ cursor' = cursor + 1
      /\ UNCHANGED <<compilers, deployed, wanted, userLibraries, pc, normalized, submitted>>
      /\ matches' = IF information!IsMatch(a) THEN Append(matches, a) ELSE matches
  BY DEF information!ScanArtifact
<1>2. InformationTypes'
  BY <1>1 DEF InformationInv, InformationTypes
<1>3. /\ Artifacts \in Seq(Range(Artifacts))
      /\ \A k, n \in DOMAIN Artifacts : Artifacts[k] = Artifacts[n] => k = n
  BY ArtifactsAreArt DEF ReleaseAssumptions
<1>4. cursor \in 1..(Len(Artifacts) + 1) /\ matches \in Seq(Range(Artifacts)) /\ ScanInv
  BY <1>1 DEF InformationInv, ScanInv
<1>5. cursor \in 1..Len(Artifacts) /\ Len(Artifacts) \in Nat /\ DOMAIN Artifacts = 1..Len(Artifacts)
  BY <1>1, <1>3, <1>4
<1>6. a \in Range(Artifacts)
  BY <1>5 DEF Range
<1>7. \A k \in 1..(cursor - 1) : k \in DOMAIN Artifacts /\ k # cursor
  BY <1>5
<1>8. 1..(cursor' - 1) = (1..(cursor - 1)) \cup {cursor} /\ cursor' \in 1..(Len(Artifacts) + 1)
  BY <1>1, <1>5
<1>9. \A b : information!IsMatch(b)' <=> information!IsMatch(b)
  BY <1>1, MatchStays
<1>10. \A n \in DOMAIN matches : matches[n] # a
  BY <1>1, <1>3, <1>4, <1>5, <1>7 DEF ScanInv
<1> DEFINE N == 1..(cursor - 1)
           N1 == 1..(cursor' - 1)
<1>11. /\ \A n \in DOMAIN matches : \E k \in N : matches[n] = Artifacts[k] /\ information!IsMatch(Artifacts[k])
       /\ \A k \in N : information!IsMatch(Artifacts[k]) => \E n \in DOMAIN matches : matches[n] = Artifacts[k]
       /\ \A n, o \in DOMAIN matches : matches[n] = matches[o] => n = o
  BY <1>1, <1>4 DEF ScanInv
<1>12. N1 = N \cup {cursor} /\ Artifacts[cursor] = a
  BY <1>8
<1>13. /\ cursor' \in 1..(Len(Artifacts) + 1)
       /\ matches' \in Seq(Range(Artifacts))
       /\ \A n \in DOMAIN matches' : \E k \in N1 : matches'[n] = Artifacts[k] /\ information!IsMatch(Artifacts[k])
       /\ \A k \in N1 : information!IsMatch(Artifacts[k]) => \E n \in DOMAIN matches' : matches'[n] = Artifacts[k]
       /\ \A n, o \in DOMAIN matches' : matches'[n] = matches'[o] => n = o
       => ScanInv'
  BY <1>9 DEF ScanInv
<1> HIDE DEF a, N, N1
<1>14. information!IsMatch(a) => ScanInv'
  <2> HAVE information!IsMatch(a)
  <2>1. /\ matches' \in Seq(Range(Artifacts))
        /\ DOMAIN matches' = DOMAIN matches \cup {Len(matches) + 1}
        /\ matches'[Len(matches) + 1] = a
        /\ \A n \in DOMAIN matches : matches'[n] = matches[n]
    BY <1>1, <1>4, <1>6
  <2>2. \A n \in DOMAIN matches' : \E k \in N1 : matches'[n] = Artifacts[k] /\ information!IsMatch(Artifacts[k])
    BY <1>11, <1>12, <2>1
  <2>3. \A k \in N1 : information!IsMatch(Artifacts[k]) => \E n \in DOMAIN matches' : matches'[n] = Artifacts[k]
    BY <1>11, <1>12, <2>1
  <2>4. \A n, o \in DOMAIN matches' : matches'[n] = matches'[o] => n = o
    BY <1>10, <1>11, <2>1
  <2>. QED BY <1>8, <1>13, <2>1, <2>2, <2>3, <2>4
<1>15. ~information!IsMatch(a) => ScanInv'
  <2> HAVE ~information!IsMatch(a)
  <2>1. matches' = matches
    BY <1>1
  <2>. QED BY <1>4, <1>8, <1>11, <1>12, <1>13, <2>1
<1>16. ScanInv'
  BY <1>14, <1>15
<1>. QED BY <1>1, <1>2, <1>16 DEF InformationInv, ChosenInv, NormalizeInv, LinksInv, Chosen, information!SoundIsAccepted

LEMMA ScanEndKeeps ==
  ASSUME ReleaseAssumptions, InformationInv, information!ScanEnd
  PROVE  InformationInv'
<1>1. pc = "scan" /\ cursor > Len(Artifacts) /\ wanted = {} /\ deployed \in Deployments
  BY DEF information!ScanEnd, InformationInv, InformationTypes
<1>2. Artifacts \in Seq(Range(Artifacts))
  BY ArtifactsAreArt DEF ReleaseAssumptions
<1>3. matches \in Seq(Range(Artifacts)) /\ cursor \in 1..(Len(Artifacts) + 1)
  BY <1>1 DEF InformationInv, ScanInv
<1>4. 1..(cursor - 1) = DOMAIN Artifacts
  BY <1>1, <1>2, <1>3
<1>5. /\ \A n \in DOMAIN matches : information!IsMatch(matches[n]) /\ matches[n] \in Range(Artifacts)
      /\ \A b \in Range(Artifacts) : information!IsMatch(b) => \E n \in DOMAIN matches : matches[n] = b
      /\ \A n, o \in DOMAIN matches : matches[n] = matches[o] => n = o
  <2>1. /\ \A n \in DOMAIN matches : \E k \in DOMAIN Artifacts :
             matches[n] = Artifacts[k] /\ information!IsMatch(Artifacts[k])
        /\ \A k \in DOMAIN Artifacts :
             information!IsMatch(Artifacts[k]) => \E n \in DOMAIN matches : matches[n] = Artifacts[k]
        /\ \A n, o \in DOMAIN matches : matches[n] = matches[o] => n = o
    BY <1>1, <1>4 DEF InformationInv, ScanInv
  <2>. QED BY <2>1 DEF Range
<1>6. DOMAIN matches = 1..Len(matches) /\ Len(matches) \in Nat
  BY <1>3
<1>7. ASSUME NEW a, SoundFor(a)
      PROVE  Len(matches) = 1
  <2>1. a \in Range(Artifacts) /\ information!IsMatch(a) /\ \A b \in Range(Artifacts) : information!IsMatch(b) => b = a
    BY <1>1, <1>7 DEF SoundFor
  <2>2. PICK n \in DOMAIN matches : matches[n] = a
    BY <1>5, <2>1
  <2>3. ASSUME Len(matches) > 1
        PROVE  FALSE
    <3>1. 1 \in DOMAIN matches /\ 2 \in DOMAIN matches
      BY <1>6, <2>3
    <3>2. matches[1] = a /\ matches[2] = a
      BY <1>5, <2>1, <3>1
    <3>. QED BY <1>5, <3>1, <3>2
  <2>. QED BY <1>6, <2>2, <2>3
<1>8. CASE Len(matches) # 1 /\ \E name : information!Fail(name)
  <2>1. ~information!SoundRequest
    BY <1>1, <1>7, <1>8, SoundIsFor
  <2>. QED BY <1>8, <2>1, FailKeeps
<1>9. CASE /\ Len(matches) = 1 /\ pc' = "normalize" /\ cursor' = 1
           /\ UNCHANGED <<compilers, deployed, wanted, userLibraries, matches, normalized>>
  <2>1. 1 \in DOMAIN matches /\ \A n \in DOMAIN matches : n = 1
    BY <1>6, <1>9
  <2>2. matches[1] \in Range(Artifacts) /\ information!IsMatch(matches[1])
        /\ \A b \in Range(Artifacts) : information!IsMatch(b) => b = matches[1]
    BY <1>5, <2>1
  <2>. QED BY <1>1, <1>9, <2>2, ChoiceKeeps
<1>. QED BY <1>6, <1>8, <1>9 DEF information!ScanEnd

\* What was chosen is what the request is sound for.
LEMMA SoundIsChosen ==
  ASSUME ReleaseAssumptions, InformationInv, Chosen, information!SoundRequest
  PROVE  SoundFor(matches[1])
<1>1. PICK a : SoundFor(a)
  BY SoundIsFor DEF InformationInv, InformationTypes
<1>2. a \in Range(Artifacts) /\ information!IsMatch(a)
      /\ (wanted = {a.name} \/ wanted = {})
  BY <1>1 DEF SoundFor
<1>3. matches[1] \in Range(Artifacts)
      /\ (wanted = {} => \A b \in Range(Artifacts) : information!IsMatch(b) => b = matches[1])
      /\ (wanted # {} => matches[1].name \in wanted)
  BY DEF InformationInv, ChosenInv
<1>4. a = matches[1]
  BY <1>2, <1>3, ArtifactsAreArt DEF ReleaseAssumptions
<1>. QED BY <1>1, <1>4

LEMMA FoundIsOne ==
  ASSUME NEW k, NEW a, Art(a), information!Cardinality(Given(userLibraries, k, a)) = 1
  PROVE  \E l : Given(userLibraries, k, a) = {l}
<1>1. Given(userLibraries, k, a) \subseteq information!AllLibraries(a)
  BY DEF Given, information!LookupLibrary
<1>2. IsFiniteSet(Given(userLibraries, k, a))
  BY <1>1, FS_Subset DEF Art
<1>3. Cardinality(Given(userLibraries, k, a)) = 1
  BY CardinalityOfInformation
<1>. QED BY <1>2, <1>3, FS_Singleton

LEMMA EntriesAreTyped ==
  ASSUME ReleaseAssumptions, InformationInv
  PROVE  /\ userLibraries \in Seq(Range(userLibraries)) /\ Len(userLibraries) \in Nat
         /\ DOMAIN userLibraries = 1..Len(userLibraries)
         /\ \A k \in DOMAIN userLibraries :
              userLibraries[k].address \in [valid : BOOLEAN, of : {userLibraries[k].address.of}, lower : BOOLEAN]
<1>1. userLibraries \in UserInputs
  BY DEF InformationInv, InformationTypes
<1>2. /\ userLibraries \in Seq(Range(userLibraries))
      /\ \A entry \in Range(userLibraries) :
           entry.address \in [valid : BOOLEAN, of : {entry.address.of}, lower : BOOLEAN]
  BY <1>1, RangeOfInformation DEF ReleaseAssumptions, information!DeploymentsAssumption
<1>. QED BY <1>2 DEF Range

LEMMA NormalizeKeeps ==
  ASSUME ReleaseAssumptions, InformationInv, information!NormalizeLibrary
  PROVE  InformationInv'
<1> DEFINE m == matches[1]
           entry == userLibraries[cursor]
           found == Given(userLibraries, cursor, m)
<1>1. pc = "normalize" /\ cursor <= Len(userLibraries) /\ Chosen
  BY DEF information!NormalizeLibrary, Chosen
<1>2. Art(m) /\ cursor \in 1..(Len(userLibraries) + 1)
  BY <1>1, ArtifactsAreArt DEF ReleaseAssumptions, InformationInv, ChosenInv, NormalizeInv
<1>3. DOMAIN userLibraries = 1..Len(userLibraries) /\ Len(userLibraries) \in Nat
  BY EntriesAreTyped
<1>4. cursor \in DOMAIN userLibraries /\ \A k \in 1..(cursor - 1) : k \in DOMAIN userLibraries \ {cursor}
  BY <1>1, <1>2, <1>3
<1>5. /\ \A l \in DOMAIN normalized : \E k \in 1..(cursor - 1) :
           Given(userLibraries, k, m) = {l} /\ normalized[l] = userLibraries[k].address
      /\ \A k \in 1..(cursor - 1) : \E l \in DOMAIN normalized : Given(userLibraries, k, m) = {l}
  BY <1>1 DEF InformationInv, NormalizeInv
<1>6. ASSUME information!SoundRequest
      PROVE  /\ entry.address.valid /\ found # {} /\ ~(information!Cardinality(found) > 1)
             /\ \A l \in found : l \notin DOMAIN normalized
  <2>1. SoundFor(m)
    BY <1>1, <1>6, SoundIsChosen
  <2>2. /\ entry.address.valid /\ information!Cardinality(found) = 1
        /\ \A k \in DOMAIN userLibraries \ {cursor} : Given(userLibraries, k, m) # found
    BY <1>4, <2>1 DEF SoundFor
  <2> HIDE DEF m
  <2>3. PICK x : found = {x}
    BY <1>2, <2>2, FoundIsOne
  <2> HIDE DEF found
  <2>. QED BY <1>4, <1>5, <2>2, <2>3
<1>7. CASE \E name : information!Fail(name)
           /\ \/ ~entry.address.valid
              \/ found = {}
              \/ information!Cardinality(found) > 1
              \/ \E l \in found : l \in DOMAIN normalized
  <2>1. ~information!SoundRequest
    BY <1>6, <1>7
  <2>. QED BY <1>7, <2>1, FailKeeps
<1>8. CASE \E l \in found :
             /\ information!Cardinality(found) = 1 /\ l \notin DOMAIN normalized
             /\ normalized' = [n \in DOMAIN normalized \cup {l} |-> IF n = l THEN entry.address ELSE normalized[n]]
             /\ cursor' = cursor + 1
             /\ UNCHANGED <<compilers, deployed, wanted, userLibraries, pc, matches, submitted>>
  <2>1. PICK l \in found :
             /\ information!Cardinality(found) = 1 /\ l \notin DOMAIN normalized
             /\ normalized' = [n \in DOMAIN normalized \cup {l} |-> IF n = l THEN entry.address ELSE normalized[n]]
             /\ cursor' = cursor + 1
             /\ UNCHANGED <<compilers, deployed, wanted, userLibraries, pc, matches, submitted>>
    BY <1>8
  <2>2. found = {l}
    BY <1>2, <2>1, FoundIsOne
  <2>3. InformationTypes'
    BY <1>1, <2>1 DEF InformationInv, InformationTypes
  <2>4. ChosenInv'
    BY <2>1, MatchStays DEF InformationInv, ChosenInv, Chosen
  <2>5. cursor' \in 1..(Len(userLibraries) + 1) /\ \A k : k \in 1..(cursor' - 1) <=> k \in 1..(cursor - 1) \/ k = cursor
    BY <1>1, <1>2, <1>3, <2>1
  <2>6. DOMAIN normalized' = DOMAIN normalized \cup {l} /\ normalized'[l] = entry.address
        /\ \A n \in DOMAIN normalized : normalized'[n] = normalized[n]
    BY <2>1
  <2>8. \A n \in DOMAIN normalized' : \E k \in 1..(cursor' - 1) :
           Given(userLibraries, k, m) = {n} /\ normalized'[n] = userLibraries[k].address
    <3> SUFFICES ASSUME NEW n \in DOMAIN normalized'
                 PROVE  \E k \in 1..(cursor' - 1) : Given(userLibraries, k, m) = {n} /\ normalized'[n] = userLibraries[k].address
      OBVIOUS
    <3>1. CASE n = l
      <4>1. cursor \in 1..(cursor' - 1) /\ Given(userLibraries, cursor, m) = {n} /\ normalized'[n] = userLibraries[cursor].address
        BY <2>2, <2>5, <2>6, <3>1
      <4>. QED BY <4>1
    <3>2. CASE n # l
      <4>1. n \in DOMAIN normalized /\ normalized'[n] = normalized[n]
        BY <2>6, <3>2
      <4>. QED BY <1>5, <2>5, <4>1
    <3>. QED BY <3>1, <3>2
  <2>9. \A k \in 1..(cursor' - 1) : \E n \in DOMAIN normalized' : Given(userLibraries, k, m) = {n}
    BY <1>5, <2>2, <2>5, <2>6
  <2>10. NormalizeInv'
    BY <1>1, <2>1, <2>5, <2>8, <2>9 DEF NormalizeInv
  <2>. QED BY <1>1, <2>1, <2>3, <2>4, <2>10 DEF InformationInv, ScanInv, LinksInv, information!SoundIsAccepted
<1>. QED BY <1>7, <1>8 DEF information!NormalizeLibrary, Given

LEMMA NormalizeEndKeeps ==
  ASSUME ReleaseAssumptions, InformationInv, information!NormalizeEnd
  PROVE  InformationInv'
<1>1. pc = "normalize" /\ pc' = "link" /\ cursor > Len(userLibraries) /\ Chosen
      /\ UNCHANGED <<compilers, deployed, wanted, userLibraries, cursor, matches, normalized, submitted>>
  BY DEF information!NormalizeEnd, Chosen
<1>2. InformationTypes'
  BY <1>1 DEF InformationInv, InformationTypes
<1>3. ChosenInv'
  BY <1>1, MatchStays DEF InformationInv, ChosenInv, Chosen
<1>4. Len(userLibraries) \in Nat
  BY EntriesAreTyped
<1>5. cursor = Len(userLibraries) + 1
  BY <1>1, <1>4 DEF InformationInv, NormalizeInv
<1>7. NormalizeInv'
  BY <1>1, <1>5 DEF InformationInv, NormalizeInv, Chosen
<1>. QED BY <1>1, <1>2, <1>3, <1>7 DEF InformationInv, ScanInv, LinksInv, information!SoundIsAccepted

\* The address detected of a library is the one the contract was linked with.
LEMMA DetectedIsLinked ==
  ASSUME NEW a, Art(a), information!DeployedFrom(deployed, a), NEW l \in information!Detectable(a)
  PROVE  information!AddressesFromBytecode(a)[l] = [valid |-> TRUE, of |-> deployed.linked[l], lower |-> TRUE]
<1> DEFINE first == CHOOSE p \in a.links[l] : \A q \in a.links[l] : p <= q
<1>1. \E p \in a.links[l] : \A q \in a.links[l] : p <= q
  BY DEF Art
<1>2. first \in a.links[l]
  BY <1>1
<1>3. information!AddressesFromBytecode(a)[l] = [valid |-> TRUE, of |-> deployed.code[first], lower |-> TRUE]
  BY DEF information!AddressesFromBytecode
<1> HIDE DEF first
<1>4. deployed.code[first] = deployed.linked[l]
  BY <1>2 DEF information!DeployedFrom
<1>. QED BY <1>3, <1>4

LEMMA LowerCase ==
  ASSUME NEW x, NEW y \in [valid : BOOLEAN, of : {x}, lower : BOOLEAN], y.valid
  PROVE  information!ToLowerCase(y) = [valid |-> TRUE, of |-> x, lower |-> TRUE]
<1> DEFINE z == [y EXCEPT !.lower = TRUE]
<1>1. z \in [valid : BOOLEAN, of : {x}, lower : BOOLEAN] /\ z.lower = TRUE /\ z.of = y.of /\ z.valid = y.valid
  OBVIOUS
<1>2. information!ToLowerCase(y) = z
  BY DEF information!ToLowerCase
<1> HIDE DEF z
<1>3. z = [valid |-> z.valid, of |-> z.of, lower |-> z.lower]
  BY <1>1
<1>4. z.valid = TRUE /\ z.of = x /\ z.lower = TRUE
  BY <1>1
<1>. QED BY <1>2, <1>3, <1>4

LEMMA LinkKeeps ==
  ASSUME ReleaseAssumptions, InformationInv, information!LinkLibraries
  PROVE  InformationInv'
<1> DEFINE m == matches[1]
           detected == information!AddressesFromBytecode(m)
           merged == information!MergeLibraries(detected)
<1>1. pc = "link" /\ Chosen
  BY DEF information!LinkLibraries, Chosen
<1>2. Art(m) /\ cursor = Len(userLibraries) + 1
  BY <1>1, ArtifactsAreArt DEF ReleaseAssumptions, InformationInv, ChosenInv, NormalizeInv
<1>3. /\ DOMAIN userLibraries = 1..Len(userLibraries) /\ Len(userLibraries) \in Nat
      /\ \A k \in DOMAIN userLibraries :
              userLibraries[k].address \in [valid : BOOLEAN, of : {userLibraries[k].address.of}, lower : BOOLEAN]
  BY EntriesAreTyped
<1>4. 1..(cursor - 1) = DOMAIN userLibraries
  BY <1>2, <1>3
<1>5. /\ \A l \in DOMAIN normalized : \E k \in DOMAIN userLibraries :
           Given(userLibraries, k, m) = {l} /\ normalized[l] = userLibraries[k].address
      /\ \A k \in DOMAIN userLibraries : \E l \in DOMAIN normalized : Given(userLibraries, k, m) = {l}
  BY <1>1, <1>4 DEF InformationInv, NormalizeInv
<1>6. DOMAIN detected = information!Detectable(m) /\ DOMAIN merged = DOMAIN normalized \cup information!Detectable(m)
  BY DEF information!AddressesFromBytecode, information!MergeLibraries
<1>7. \A l \in DOMAIN normalized : l \in information!AllLibraries(m)
  BY <1>5 DEF Given, information!LookupLibrary
<1>8. ASSUME information!SoundRequest
      PROVE  information!Conflicts(detected) = {} /\ DOMAIN merged = information!AllLibraries(m)
  <2>1. SoundFor(m)
    BY <1>1, <1>8, SoundIsChosen
  <2>2. information!DeployedFrom(deployed, m)
    BY <2>1, RangeOfInformation DEF SoundFor, ReleaseAssumptions, information!DeploymentsAssumption,
                                    InformationInv, InformationTypes
  <2>3. ASSUME NEW l \in DOMAIN normalized \cap information!Detectable(m)
        PROVE  information!ToLowerCase(normalized[l]) = detected[l]
    <3> DEFINE linked == deployed.linked[l]
    <3>1. PICK k \in DOMAIN userLibraries : Given(userLibraries, k, m) = {l} /\ normalized[l] = userLibraries[k].address
      BY <1>5, <2>3
    <3>2. userLibraries[k].address.valid /\ userLibraries[k].address.of = linked
      BY <2>1, <2>3, <3>1 DEF SoundFor
    <3>3. normalized[l] \in [valid : BOOLEAN, of : {linked}, lower : BOOLEAN] /\ normalized[l].valid
      BY <1>3, <3>1, <3>2
    <3>4. detected[l] = [valid |-> TRUE, of |-> linked, lower |-> TRUE]
      BY <1>2, <2>2, <2>3, DetectedIsLinked
    <3> HIDE DEF linked, detected, m
    <3>. QED BY <3>3, <3>4, LowerCase
  <2>4. information!Conflicts(detected) = {}
    BY <1>6, <2>3 DEF information!Conflicts
  <2>5. m.creationOnly \subseteq DOMAIN normalized
    BY <1>5, <2>1 DEF SoundFor
  <2>. QED BY <1>6, <1>7, <2>4, <2>5 DEF information!AllLibraries
<1>9. CASE \E name : information!Fail(name)
           /\ \/ information!Conflicts(detected) # {}
              \/ information!Cardinality(DOMAIN merged) < information!Cardinality(information!AllLibraries(m))
  <2>1. ~information!SoundRequest
    <3>1. Cardinality(information!AllLibraries(m)) \in Nat
      BY <1>2, FS_CardinalityType DEF Art
    <3>2. DOMAIN merged = information!AllLibraries(m) =>
            ~(information!Cardinality(DOMAIN merged) < information!Cardinality(information!AllLibraries(m)))
      BY <3>1, CardinalityOfInformation
    <3>. QED BY <1>8, <1>9, <3>2
  <2>. QED BY <1>9, <2>1, FailKeeps
<1>10. CASE /\ information!Cardinality(DOMAIN merged) >= information!Cardinality(information!AllLibraries(m))
            /\ submitted' = merged /\ pc' = "done"
            /\ UNCHANGED <<compilers, deployed, wanted, userLibraries, cursor, matches, normalized>>
  <2>1. InformationTypes'
    BY <1>10 DEF InformationInv, InformationTypes
  <2>2. ChosenInv'
    BY <1>1, <1>10, MatchStays DEF InformationInv, ChosenInv
  <2>4. NormalizeInv'
    BY <1>1, <1>2, <1>10 DEF InformationInv, NormalizeInv
  <2>5. merged' = merged
    BY <1>10 DEF information!MergeLibraries, information!AddressesFromBytecode
  <2>6. LinksInv'
    BY <1>10, <2>5 DEF LinksInv
  <2>. QED BY <1>10, <2>1, <2>2, <2>4, <2>6 DEF InformationInv, ScanInv, information!SoundIsAccepted
<1>. QED BY <1>9, <1>10 DEF information!LinkLibraries

LEMMA InformationRest ==
  ASSUME InformationInv,
         UNCHANGED <<compilers, deployed, wanted, userLibraries, pc, cursor, matches, normalized, submitted>>
  PROVE  InformationInv'
<1>1. \A a : information!IsMatch(a)' <=> information!IsMatch(a)
  BY MatchStays
<1>3. information!SoundRequest' <=> information!SoundRequest
  BY SoundStays
<1>4. InformationTypes' /\ ScanInv' /\ ChosenInv'
  BY <1>1 DEF InformationInv, InformationTypes, ScanInv, ChosenInv, Chosen
<1>5. NormalizeInv'
  BY DEF InformationInv, NormalizeInv, Chosen
<1>6. LinksInv'
  BY DEF InformationInv, LinksInv, information!MergeLibraries, information!AddressesFromBytecode
<1>. QED BY <1>3, <1>4, <1>5, <1>6 DEF InformationInv, information!SoundIsAccepted

LEMMA InformationStep ==
  ASSUME ReleaseAssumptions, InformationInv, information!Next
  PROVE  InformationInv'
<1>1. CASE information!Terminating
  <2>1. UNCHANGED <<compilers, deployed, wanted, userLibraries, pc, cursor, matches, normalized, submitted, error>>
    BY <1>1 DEF information!Terminating, information!vars
  <2>. QED BY <2>1, InformationRest
<1>. QED BY <1>1, VersionsKeep, NamedKeeps, ScanKeeps, ScanEndKeeps, NormalizeKeeps, NormalizeEndKeeps, LinkKeeps
         DEF information!Next

\* The links of a finished search.
LEMMA InformationHolds ==
  ASSUME ReleaseAssumptions, InformationInv
  PROVE  information!InformationIsTrue
<1> DEFINE m == matches[1]
           detected == information!AddressesFromBytecode(m)
<1> SUFFICES ASSUME pc = "done"
             PROVE  /\ wanted = {} /\ information!Local # {} => m.name = deployed.of
                    /\ m.name = deployed.of =>
                         /\ DOMAIN submitted = information!AllLibraries(m)
                         /\ \A l \in information!Detectable(m) : submitted[l].of = deployed.linked[l]
                         /\ \A l \in m.creationOnly :
                              \E k \in DOMAIN userLibraries :
                                /\ userLibraries[k].address = submitted[l]
                                /\ userLibraries[k].key.name = l.name
  BY DEF information!InformationIsTrue
<1>1. deployed \in Deployments /\ m \in Range(Artifacts)
      /\ (wanted = {} => \A b \in Range(Artifacts) : information!IsMatch(b) => b = m)
  BY DEF InformationInv, InformationTypes, ChosenInv, Chosen
<1>2. wanted = {} /\ information!Local # {} => m.name = deployed.of
  BY <1>1, LocalMatches
<1>3. ASSUME m.name = deployed.of
      PROVE  /\ DOMAIN submitted = information!AllLibraries(m)
             /\ \A l \in information!Detectable(m) : submitted[l].of = deployed.linked[l]
             /\ \A l \in m.creationOnly :
                  \E k \in DOMAIN userLibraries :
                    /\ userLibraries[k].address = submitted[l]
                    /\ userLibraries[k].key.name = l.name
  <2>1. Art(m) /\ information!DeployedFrom(deployed, m)
    BY <1>1, <1>3, RangeOfInformation, ArtifactsAreArt DEF ReleaseAssumptions, information!DeploymentsAssumption
  <2>2. /\ DOMAIN submitted = DOMAIN normalized \cup information!Detectable(m)
        /\ \A l \in DOMAIN submitted :
             submitted[l] = IF l \in information!Detectable(m) THEN detected[l] ELSE normalized[l]
        /\ information!Cardinality(DOMAIN submitted) >= information!Cardinality(information!AllLibraries(m))
    BY DEF InformationInv, LinksInv, information!MergeLibraries, information!AddressesFromBytecode
  <2>3. \A l \in DOMAIN normalized : \E k \in DOMAIN userLibraries :
           Given(userLibraries, k, m) = {l} /\ normalized[l] = userLibraries[k].address
    <3>1. DOMAIN userLibraries = 1..Len(userLibraries) /\ Len(userLibraries) \in Nat
      BY EntriesAreTyped
    <3>2. 1..(cursor - 1) = DOMAIN userLibraries
      BY <3>1 DEF InformationInv, NormalizeInv, Chosen
    <3>. QED BY <3>2 DEF InformationInv, NormalizeInv, Chosen
  <2>4. \A k : \A l \in Given(userLibraries, k, m) : l \in information!AllLibraries(m) /\ l.name = userLibraries[k].key.name
    BY DEF Given, information!LookupLibrary
  <2>5. DOMAIN submitted \subseteq information!AllLibraries(m)
    BY <2>2, <2>3, <2>4 DEF information!AllLibraries
  <2>6. DOMAIN submitted = information!AllLibraries(m)
    <3> DEFINE S == information!AllLibraries(m)
               T == DOMAIN submitted
    <3>1. IsFiniteSet(S) /\ T \subseteq S
      BY <2>1, <2>5 DEF Art
    <3>2. Cardinality(T) >= Cardinality(S)
      BY <2>2, CardinalityOfInformation
    <3> HIDE DEF S, T
    <3>3. IsFiniteSet(T) /\ Cardinality(T) <= Cardinality(S) /\ (Cardinality(S) = Cardinality(T) => S = T)
      BY <3>1, FS_Subset
    <3>4. Cardinality(S) \in Nat /\ Cardinality(T) \in Nat
      BY <3>1, <3>3, FS_CardinalityType
    <3>5. S = T
      BY <3>2, <3>3, <3>4
    <3>. QED BY <3>5 DEF S, T
  <2>7. \A l \in information!Detectable(m) : submitted[l].of = deployed.linked[l]
    <3> SUFFICES ASSUME NEW l \in information!Detectable(m)
                 PROVE  submitted[l].of = deployed.linked[l]
      OBVIOUS
    <3>1. submitted[l] = detected[l]
      BY <2>2
    <3>2. detected[l] = [valid |-> TRUE, of |-> deployed.linked[l], lower |-> TRUE]
      BY <2>1, DetectedIsLinked
    <3>. QED BY <3>1, <3>2
  <2>8. ASSUME NEW l \in m.creationOnly
        PROVE  \E k \in DOMAIN userLibraries :
                 userLibraries[k].address = submitted[l] /\ userLibraries[k].key.name = l.name
    <3>1. l \in DOMAIN submitted /\ l \notin information!Detectable(m)
      BY <2>1, <2>6, <2>8 DEF Art, information!AllLibraries
    <3>2. l \in DOMAIN normalized /\ submitted[l] = normalized[l]
      BY <2>2, <3>1
    <3>3. PICK k \in DOMAIN userLibraries : Given(userLibraries, k, m) = {l} /\ normalized[l] = userLibraries[k].address
      BY <2>3, <3>2
    <3>4. userLibraries[k].key.name = l.name
      BY <2>4, <3>3
    <3>. QED BY <3>2, <3>3, <3>4
  <2>. QED BY <2>6, <2>7, <2>8
<1>. QED BY <1>2, <1>3

-----------------------------------------------------------------------------
(* Deployment.                                                               *)

Whole == OrderOn(net, request)
Behind == Len(Whole) - Len(plan)

\* Line k of the script in place q of the order is done, or left out.
Passed(q, k) == q <= Behind \/ (q = Behind + 1 /\ k < step)

\* The run is at line k of script i.
Here(i, k) == outcome = "running" /\ plan # <<>> /\ Head(plan) = i /\ step = k

UpToDate(s) == records[s.name].code = CodeOf(s.name) /\ records[s.name].links = Links(s)

PlanInv ==
  /\ net \in NetworksToCome
  /\ outcome = "running" =>
       /\ request \in net.requests \cup {{}}
       /\ plan \in Seq(DOMAIN Files) /\ Len(plan) <= Len(Whole)
       /\ \A q \in 1..Len(plan) : plan[q] = Whole[Behind + q]
       /\ plan # <<>> => step \in Lines(Head(plan))

\* What the lines passed leave behind.
DoneInv ==
  outcome = "running" =>
    \A q \in DOMAIN Whole : \A k \in Lines(Whole[q]) : Passed(q, k) =>
      /\ Makes(Line(Whole[q], k)) => Line(Whole[q], k).name \in DOMAIN records
      /\ Inits(Line(Whole[q], k)) /\ (\A o \in Lines(Whole[q]) : Line(Whole[q], o).op # "once")
           => Line(Whole[q], k).name \in inited
      /\ request = {} /\ Line(Whole[q], k).op = "link" => UpToDate(Line(Whole[q], k))

\* The same of the lines of the script at hand, all of which were done; and what
\* is still to be done, when the script has looked that it was not done.
HereInv ==
  \A i \in DOMAIN Files : \A k \in Lines(i) : Here(i, k) =>
    /\ \A m \in Lines(i) : m < k =>
         /\ Line(i, m).gets \subseteq DOMAIN records
         /\ Makes(Line(i, m)) => Line(i, m).name \in DOMAIN records
         /\ Line(i, m).op = "initProxy" => Line(i, m).name \in proxied
         /\ Line(i, m).op = "create" => Line(i, m).live \subseteq inited
    /\ \A o, m \in Lines(i) :
         o < k /\ k <= m /\ Line(i, o).op = "once" /\ Makes(Line(i, m)) /\ Line(i, m).name = Line(i, o).name
         => Line(i, m).name \notin DOMAIN records
    /\ \A j, o \in Lines(i) :
         Guards(i, j, o) /\ Line(i, o).op = "init" /\ j < k /\ k <= o => Line(i, o).name \notin inited

\* What a record says of the lines up to the one that made it.
RecordsInv ==
  \A i \in DOMAIN Files : \A k \in Lines(i) :
    Makes(Line(i, k)) /\ Line(i, k).name \in DOMAIN records =>
      \A m \in Lines(i) : m <= k =>
        /\ Line(i, m).gets \subseteq DOMAIN records
        /\ Line(i, m).op \in {"keep", "create"} /\ Line(i, m).name = Line(i, k).name
             => Line(i, m).live \subseteq inited

\* A strategy is deployed, given its proxy and initialised in this order; a run
\* that stops in between leaves a hit.
InitedInv ==
  \A i \in DOMAIN Files : \A j, k \in Lines(i) : Guards(i, j, k) =>
    /\ Line(i, k).name \in inited =>
         /\ Line(i, j).name \in DOMAIN records
         /\ \A m \in Lines(i) : m < k /\ Line(i, m).op = "initProxy" => Line(i, m).name \in proxied
    /\ Line(i, j).name \in DOMAIN records =>
         Line(i, k).name \in inited \cup hit \/ \E m \in Lines(i) : Here(i, m) /\ j < m /\ m <= k

LinkInv ==
  settled =>
    \A i \in DOMAIN Files : \A k \in Lines(i) :
      Line(i, k).op = "link" /\ RunsOn(net, i) /\ Line(i, k).name \in DOMAIN records => UpToDate(Line(i, k))

ScriptsInv ==
  /\ PlanInv /\ DoneInv /\ HereInv /\ RecordsInv /\ InitedInv /\ LinkInv
  /\ FailureIsExplained /\ SuccessMeansReady

-----------------------------------------------------------------------------
LEMMA LinesAre ==
  ASSUME ScriptsAssumption, NEW i \in DOMAIN Files
  PROVE  /\ Lines(i) = 1..Len(Files[i].steps)
         /\ Len(Files[i].steps) \in Nat /\ Len(Files[i].steps) >= 1
<1>1. Files[i].steps # <<>> /\ Files[i].steps \in Seq(Range(Files[i].steps))
  BY DEF ScriptsAssumption, NamesAreOwn
<1> DEFINE s == Files[i].steps
           R == Range(s)
<1>2. s # <<>> /\ s \in Seq(R)
  BY <1>1
<1> HIDE DEF s, R
<1>3. DOMAIN s = 1..Len(s) /\ Len(s) \in Nat /\ Len(s) >= 1
  BY <1>2
<1>. QED BY <1>3 DEF s, Lines

LEMMA MadeOnce ==
  ASSUME ScriptsAssumption, NEW i \in DOMAIN Files, NEW f \in DOMAIN Files, NEW k \in Lines(i), NEW m \in Lines(f)
  PROVE  /\ Makes(Line(i, k)) /\ Makes(Line(f, m)) /\ Line(i, k).name = Line(f, m).name => i = f /\ k = m
         /\ Inits(Line(i, k)) /\ Inits(Line(f, m)) /\ Line(i, k).name = Line(f, m).name => i = f /\ k = m
         /\ Line(i, k).op = "save" /\ Line(f, m).op = "link" => Line(i, k).name \notin Line(f, m).gets
         /\ Line(i, k).op = "link" => Line(i, k).name \notin Line(i, k).gets
  BY DEF ScriptsAssumption, NamesAreOwn

LEMMA OrderIs ==
  ASSUME ScriptsAssumption, NEW n \in NetworksToCome, NEW tags \in n.requests \cup {{}}
  PROVE  /\ OrderOn(n, tags) \in Seq({i \in DOMAIN Files : RunsOn(n, i)})
         /\ tags = {} => \A i \in DOMAIN Files : RunsOn(n, i) => i \in Range(OrderOn(n, tags))
         /\ tags \cap WithoutDependencies = {} =>
              \A q \in DOMAIN OrderOn(n, tags) : \A k \in Lines(OrderOn(n, tags)[q]) :
                \A l \in Line(OrderOn(n, tags)[q], k).gets :
                  \E p \in 1..q : \E m \in Lines(OrderOn(n, tags)[p]) :
                    /\ Makes(Line(OrderOn(n, tags)[p], m)) /\ Line(OrderOn(n, tags)[p], m).name = l
                    /\ p < q \/ m < k
  BY DEF ScriptsAssumption, OrdersFollow

\* Where a run is in the order of its scripts.
LEMMA PlanFacts ==
  ASSUME ScriptsAssumption, PlanInv, outcome = "running"
  PROVE  /\ Len(Whole) \in Nat /\ Len(plan) \in Nat /\ Behind \in Nat /\ Behind + Len(plan) = Len(Whole)
         /\ DOMAIN Whole = 1..Len(Whole)
         /\ \A q \in DOMAIN Whole : Whole[q] \in DOMAIN Files /\ RunsOn(net, Whole[q])
         /\ plan # <<>> =>
              /\ Head(plan) \in DOMAIN Files /\ Behind + 1 \in DOMAIN Whole /\ Whole[Behind + 1] = Head(plan)
              /\ step \in Lines(Head(plan)) /\ Len(plan) >= 1
         /\ plan = <<>> => Behind = Len(Whole)
<1> DEFINE R == {i \in DOMAIN Files : RunsOn(net, i)}
           w == Whole
<1>1. w \in Seq(R)
  BY OrderIs DEF PlanInv, Whole
<1>2. plan \in Seq(DOMAIN Files) /\ Len(plan) <= Len(w)
  BY DEF PlanInv
<1>3. \A i \in R : i \in DOMAIN Files /\ RunsOn(net, i)
  OBVIOUS
<1> HIDE DEF R, w
<1>4. Len(w) \in Nat /\ DOMAIN w = 1..Len(w) /\ \A q \in DOMAIN w : w[q] \in R
  BY <1>1
<1>5. Len(plan) \in Nat
  BY <1>2
<1>6. Behind \in Nat /\ Behind + Len(plan) = Len(w)
  BY <1>2, <1>4, <1>5 DEF Behind, w
<1>7. ASSUME plan # <<>>
      PROVE  /\ Head(plan) \in DOMAIN Files /\ Behind + 1 \in DOMAIN w /\ w[Behind + 1] = Head(plan)
             /\ step \in Lines(Head(plan)) /\ Len(plan) >= 1
  <2>1. Len(plan) >= 1 /\ Head(plan) = plan[1]
    BY <1>2, <1>7
  <2>2. plan[1] = w[Behind + 1] /\ Behind + 1 \in DOMAIN w
    BY <1>4, <1>5, <1>6, <2>1 DEF PlanInv, w
  <2>. QED BY <1>3, <1>4, <1>7, <2>1, <2>2 DEF PlanInv
<1>8. plan = <<>> => Len(plan) = 0
  OBVIOUS
<1>. QED BY <1>3, <1>4, <1>5, <1>6, <1>7, <1>8 DEF w

\* The next line, or the next script.
LEMMA AfterMove ==
  ASSUME ScriptsAssumption, PlanInv, NEW i \in DOMAIN Files, NEW k \in Lines(i), Here(i, k), MoveOn,
         UNCHANGED <<net, request, outcome>>
  PROVE  /\ PlanInv' /\ Whole' = Whole /\ Behind + 1 \in DOMAIN Whole /\ Whole[Behind + 1] = i
         /\ \A q \in DOMAIN Whole : \A m \in Lines(Whole[q]) :
              Passed(q, m)' <=> Passed(q, m) \/ (q = Behind + 1 /\ m = k)
         /\ \A f, m : Here(f, m)' => m = 1 \/ (f = i /\ m = k + 1)
         /\ k + 1 \in Lines(i) => Here(i, k + 1)'
<1> DEFINE b == Behind
           w == Whole
           n == Len(Files[i].steps)
<1>1. /\ Len(w) \in Nat /\ Len(plan) \in Nat /\ b \in Nat /\ b + Len(plan) = Len(w)
      /\ DOMAIN w = 1..Len(w) /\ \A q \in DOMAIN w : w[q] \in DOMAIN Files
      /\ b + 1 \in DOMAIN w /\ w[b + 1] = i /\ Len(plan) >= 1
  BY PlanFacts DEF Here
<1>2. Lines(i) = 1..n /\ n \in Nat /\ n >= 1
  BY LinesAre
<1>3. w' = w
  BY DEF Whole
<1>4. plan \in Seq(DOMAIN Files) /\ plan # <<>> /\ Head(plan) = i /\ step = k /\ outcome = "running"
      /\ net \in NetworksToCome /\ request \in net.requests \cup {{}}
      /\ \A q \in 1..Len(plan) : plan[q] = w[b + q]
  BY DEF Here, PlanInv
<1>5. \A q \in DOMAIN w : \A m \in Lines(w[q]) : m \in Nat /\ m >= 1
  BY <1>1, LinesAre
<1>6. CASE k = n
  <2>1. plan' = Tail(plan) /\ step' = 1
    BY <1>4, <1>6 DEF MoveOn, This
  <2>2. /\ plan' \in Seq(DOMAIN Files) /\ Len(plan') = Len(plan) - 1
        /\ \A q \in 1..Len(plan') : plan'[q] = plan[q + 1]
    BY <1>4, <2>1
  <2>3. b' = b + 1
    BY <1>1, <1>3, <2>2 DEF Behind
  <2> HIDE DEF b, w, n
  <2>4. \A q \in 1..Len(plan') : plan'[q] = w'[b' + q]
    <3> TAKE q \in 1..Len(plan')
    <3>0. Len(plan') = Len(plan) - 1 /\ Len(plan) \in Nat /\ b \in Nat
      BY <1>1, <2>2
    <3> DEFINE a == Len(plan)
           a1 == Len(plan')
    <3>1. q \in 1..a1 /\ a1 = a - 1 /\ a \in Nat /\ b \in Nat
      BY <3>0
    <3> HIDE DEF a, a1
    <3>2. q + 1 \in 1..a /\ b + (q + 1) = (b + 1) + q
      BY <3>1
    <3>. QED BY <1>3, <1>4, <2>2, <2>3, <3>2 DEF a
  <2>5. plan' # <<>> => Head(plan') \in DOMAIN Files /\ step' \in Lines(Head(plan'))
    <3>1. plan' # <<>> => Head(plan') \in DOMAIN Files
      BY <2>2
    <3>. QED BY <2>1, <3>1, LinesAre
  <2>6. PlanInv'
    BY <1>1, <1>3, <1>4, <2>2, <2>4, <2>5 DEF PlanInv, b, w
  <2>7. \A q \in DOMAIN w : \A m \in Lines(w[q]) : Passed(q, m)' <=> Passed(q, m) \/ (q = b + 1 /\ m = k)
    <3> TAKE q \in DOMAIN w
    <3> TAKE m \in Lines(w[q])
    <3>1. q \in Nat /\ m \in Nat /\ m >= 1 /\ (q = b + 1 => m <= n)
      BY <1>1, <1>2, <1>5
    <3>2. Passed(q, m)' <=> (q <= b + 1 \/ (q = b + 2 /\ m < 1))
      BY <1>1, <2>1, <2>3 DEF Passed, b
    <3>3. Passed(q, m) <=> (q <= b \/ (q = b + 1 /\ m < k))
      BY <1>4 DEF Passed, b
    <3>. QED BY <1>1, <1>2, <1>6, <3>1, <3>2, <3>3
  <2>8. \A f, m : Here(f, m)' => m = 1
    BY <2>1 DEF Here
  <2>9. k + 1 \notin Lines(i)
    BY <1>2, <1>6
  <2>. QED BY <1>1, <1>3, <2>6, <2>7, <2>8, <2>9 DEF b, w
<1>7. CASE k # n
  <2>1. plan' = plan /\ step' = k + 1
    BY <1>4, <1>7 DEF MoveOn, This
  <2>2. b' = b
    BY <1>3, <2>1 DEF Behind
  <2> HIDE DEF b, w, n
  <2>3. k + 1 \in Lines(i)
    BY <1>2, <1>7
  <2>4. PlanInv'
    BY <1>1, <1>3, <1>4, <2>1, <2>2, <2>3 DEF PlanInv, b, w
  <2>5. \A q \in DOMAIN w : \A m \in Lines(w[q]) : Passed(q, m)' <=> Passed(q, m) \/ (q = b + 1 /\ m = k)
    <3> TAKE q \in DOMAIN w
    <3> TAKE m \in Lines(w[q])
    <3>1. q \in Nat /\ m \in Nat
      BY <1>1, <1>5
    <3>2. Passed(q, m)' <=> (q <= b \/ (q = b + 1 /\ m < k + 1))
      BY <2>1, <2>2 DEF Passed, b
    <3>3. Passed(q, m) <=> (q <= b \/ (q = b + 1 /\ m < k))
      BY <1>4 DEF Passed, b
    <3>. QED BY <1>1, <1>2, <3>1, <3>2, <3>3
  <2>6. \A f, m : Here(f, m)' => f = i /\ m = k + 1
    BY <1>4, <2>1 DEF Here
  <2>7. Here(i, k + 1)'
    BY <1>4, <2>1 DEF Here
  <2>. QED BY <1>1, <1>3, <2>4, <2>5, <2>6, <2>7 DEF b, w
<1>. QED BY <1>6, <1>7

\* The rest of a script is left out.
LEMMA AfterLeave ==
  ASSUME ScriptsAssumption, PlanInv, NEW i \in DOMAIN Files, NEW k \in Lines(i), Here(i, k), Leave,
         UNCHANGED <<net, request, outcome>>
  PROVE  /\ PlanInv' /\ Whole' = Whole /\ Behind + 1 \in DOMAIN Whole /\ Whole[Behind + 1] = i
         /\ \A q \in DOMAIN Whole : \A m \in Lines(Whole[q]) :
              Passed(q, m)' => Passed(q, m) \/ (q = Behind + 1 /\ m >= k)
         /\ \A f, m : Here(f, m)' => m = 1
<1> DEFINE b == Behind
           w == Whole
<1>1. /\ Len(w) \in Nat /\ Len(plan) \in Nat /\ b \in Nat /\ b + Len(plan) = Len(w)
      /\ DOMAIN w = 1..Len(w) /\ \A q \in DOMAIN w : w[q] \in DOMAIN Files
      /\ b + 1 \in DOMAIN w /\ w[b + 1] = i /\ Len(plan) >= 1
  BY PlanFacts DEF Here
<1>2. Lines(i) = 1..Len(Files[i].steps) /\ Len(Files[i].steps) \in Nat
  BY LinesAre
<1>3. w' = w
  BY DEF Whole
<1>4. plan \in Seq(DOMAIN Files) /\ plan # <<>> /\ Head(plan) = i /\ step = k /\ outcome = "running"
      /\ net \in NetworksToCome /\ request \in net.requests \cup {{}}
      /\ \A q \in 1..Len(plan) : plan[q] = w[b + q]
  BY DEF Here, PlanInv
<1>5. \A q \in DOMAIN w : \A m \in Lines(w[q]) : m \in Nat /\ m >= 1
  BY <1>1, LinesAre
<1>6. plan' = Tail(plan) /\ step' = 1
  BY DEF Leave
<1>7. /\ plan' \in Seq(DOMAIN Files) /\ Len(plan') = Len(plan) - 1
      /\ \A q \in 1..Len(plan') : plan'[q] = plan[q + 1]
  BY <1>4, <1>6
<1>8. b' = b + 1
  BY <1>1, <1>3, <1>7 DEF Behind
<1> HIDE DEF b, w
<1>9. \A q \in 1..Len(plan') : plan'[q] = w'[b' + q]
  <2> TAKE q \in 1..Len(plan')
  <2>0. Len(plan') = Len(plan) - 1 /\ Len(plan) \in Nat /\ b \in Nat
    BY <1>1, <1>7
  <2> DEFINE a == Len(plan)
         a1 == Len(plan')
  <2>1. q \in 1..a1 /\ a1 = a - 1 /\ a \in Nat /\ b \in Nat
    BY <2>0
  <2> HIDE DEF a, a1
  <2>2. q + 1 \in 1..a /\ b + (q + 1) = (b + 1) + q
    BY <2>1
  <2>. QED BY <1>3, <1>4, <1>7, <1>8, <2>2 DEF a
<1>10. plan' # <<>> => Head(plan') \in DOMAIN Files /\ step' \in Lines(Head(plan'))
  <2>1. plan' # <<>> => Head(plan') \in DOMAIN Files
    BY <1>7
  <2>. QED BY <1>6, <2>1, LinesAre
<1>11. PlanInv'
  BY <1>1, <1>3, <1>4, <1>7, <1>9, <1>10 DEF PlanInv, b, w
<1>12. \A q \in DOMAIN w : \A m \in Lines(w[q]) : Passed(q, m)' => Passed(q, m) \/ (q = b + 1 /\ m >= k)
  <2> TAKE q \in DOMAIN w
  <2> TAKE m \in Lines(w[q])
  <2>1. q \in Nat /\ m \in Nat /\ m >= 1
    BY <1>1, <1>5
  <2>2. Passed(q, m)' <=> (q <= b + 1 \/ (q = b + 2 /\ m < 1))
    BY <1>1, <1>6, <1>8 DEF Passed, b
  <2>3. Passed(q, m) <=> (q <= b \/ (q = b + 1 /\ m < k))
    BY <1>4 DEF Passed, b
  <2>. QED BY <1>1, <1>2, <2>1, <2>2, <2>3
<1>13. \A f, m : Here(f, m)' => m = 1
  BY <1>6 DEF Here
<1>. QED BY <1>1, <1>3, <1>11, <1>12, <1>13 DEF b, w

-----------------------------------------------------------------------------
\* What a line does to the chain and the records.
Effect(s) ==
  /\ DOMAIN records' = DOMAIN records \cup (IF Makes(s) THEN {s.name} ELSE {})
  /\ \A l \in DOMAIN records : l # s.name => records'[l] = records[l]
  /\ \/ ~Makes(s)
     \/ s.op = "keep" /\ s.name \in DOMAIN records
     \/ s.op = "link" /\ s.name \in DOMAIN records /\ UpToDate(s)
     => records' = records
  /\ s.op = "link" /\ s.name \notin s.gets => UpToDate(s)'
  /\ proxied' = proxied \cup (IF s.op = "initProxy" THEN {s.name} ELSE {})
  /\ inited' = inited \cup (IF Inits(s) THEN {s.name} ELSE {})

\* What a line asks for is there.
Allowed(s) ==
  /\ s.gets \subseteq DOMAIN records
  /\ s.op = "read" => s.name \in proxied
  /\ s.op \in {"keep", "create"} /\ s.name \notin DOMAIN records => s.live \subseteq inited

LEMMA UpToDateStays ==
  ASSUME NEW s, code' = code, records'[s.name] = records[s.name], \A l \in s.gets : records'[l] = records[l]
  PROVE  UpToDate(s)' <=> UpToDate(s)
<1>1. CodeOf(s.name)' = CodeOf(s.name)
  BY DEF CodeOf
<1>2. Links(s)' = Links(s)
  BY DEF Links
<1>. QED BY <1>1, <1>2 DEF UpToDate

\* A new record of a library or an implementation is up to date.
LEMMA DeployedIs ==
  ASSUME NEW s, records' = Deployed(s.name, s), code' = code
  PROVE  /\ DOMAIN records' = DOMAIN records \cup {s.name}
         /\ \A l \in DOMAIN records : l # s.name => records'[l] = records[l]
         /\ s.name \notin s.gets /\ s.gets \subseteq DOMAIN records => UpToDate(s)'
<1> DEFINE new == [address |-> IF Recorded(s.name) THEN records[s.name].address + 1 ELSE 1,
                   code |-> CodeOf(s.name), links |-> Links(s)]
<1>1. new.code = CodeOf(s.name) /\ new.links = Links(s)
  OBVIOUS
<1>2. records' = [m \in DOMAIN records \cup {s.name} |-> IF m = s.name THEN new ELSE records[m]]
  BY DEF Deployed
<1> HIDE DEF new
<1>3. /\ DOMAIN records' = DOMAIN records \cup {s.name} /\ records'[s.name] = new
      /\ \A l \in DOMAIN records : l # s.name => records'[l] = records[l]
  BY <1>2
<1>4. ASSUME s.name \notin s.gets, s.gets \subseteq DOMAIN records
      PROVE  UpToDate(s)'
  <2>1. \A l \in s.gets : records'[l] = records[l]
    BY <1>3, <1>4
  <2>2. Links(s)' = Links(s)
    BY <2>1 DEF Links
  <2>3. CodeOf(s.name)' = CodeOf(s.name)
    BY DEF CodeOf
  <2>. QED BY <1>1, <1>3, <2>2, <2>3 DEF UpToDate
<1>. QED BY <1>3, <1>4

LEMMA StatementIs ==
  ASSUME Statement, NEW i, NEW k, Here(i, k)
  PROVE  /\ Allowed(Line(i, k))
         /\ UNCHANGED <<net, code, request, outcome, crashes, runs, hit, settled>>
         /\ \/ /\ Line(i, k).op = "once" /\ Line(i, k).name \in DOMAIN records /\ Leave
               /\ UNCHANGED chainVars
            \/ /\ MoveOn /\ Effect(Line(i, k))
               /\ Line(i, k).op = "once" => Line(i, k).name \notin DOMAIN records
<1> DEFINE s == Line(i, k)
<1>1. Now = s
  BY DEF Here, Now, This, Line
<1>2. ~Fails(s) /\ UNCHANGED <<net, code, request, outcome, crashes, runs, hit, settled>>
  BY <1>1 DEF Statement
<1> HIDE DEF s
<1>3. Allowed(s)
  BY <1>2 DEF Fails, Allowed, Recorded
<1>4. CASE Once_
  BY <1>1, <1>2, <1>3, <1>4 DEF Once_, Effect, Makes, Inits, Recorded, chainVars, s
<1>5. CASE Get_
  BY <1>1, <1>2, <1>3, <1>5 DEF Get_, Effect, Makes, Inits, chainVars, s
<1>6. CASE Deploy_
  <2>1. MoveOn /\ UNCHANGED <<proxied, inited, created>> /\ s.op \in {"keep", "link"}
        /\ records' = IF NeedsDeploy(s) THEN Deployed(s.name, s) ELSE records
    BY <1>1, <1>6 DEF Deploy_
  <2>2. CASE NeedsDeploy(s)
    <3>1. records' = Deployed(s.name, s) /\ code' = code
      BY <1>2, <2>1, <2>2
    <3>2. /\ DOMAIN records' = DOMAIN records \cup {s.name}
          /\ \A l \in DOMAIN records : l # s.name => records'[l] = records[l]
          /\ s.name \notin s.gets /\ s.gets \subseteq DOMAIN records => UpToDate(s)'
      BY <3>1, DeployedIs
    <3>3. s.name \notin DOMAIN records \/ (s.op = "link" /\ ~UpToDate(s))
      BY <2>2 DEF NeedsDeploy, Recorded, UpToDate
    <3>4. Effect(s)
      BY <1>3, <2>1, <3>2, <3>3 DEF Effect, Makes, Inits, Allowed
    <3>. QED BY <1>2, <1>3, <2>1, <3>4 DEF s
  <2>3. CASE ~NeedsDeploy(s)
    <3>1. records' = records /\ code' = code /\ s.name \in DOMAIN records
      BY <1>2, <2>1, <2>3 DEF NeedsDeploy, Recorded
    <3>2. s.op = "link" => UpToDate(s)
      BY <2>3 DEF NeedsDeploy, UpToDate
    <3>3. UpToDate(s)' <=> UpToDate(s)
      BY <3>1, UpToDateStays
    <3>4. Effect(s)
      BY <2>1, <3>1, <3>2, <3>3 DEF Effect, Makes, Inits
    <3>. QED BY <1>2, <1>3, <2>1, <3>4 DEF s
  <2>. QED BY <2>2, <2>3
<1>7. CASE InitProxy_
  BY <1>1, <1>2, <1>3, <1>7 DEF InitProxy_, Effect, Makes, Inits, s
<1>8. CASE Init_
  BY <1>1, <1>2, <1>3, <1>8 DEF Init_, Effect, Makes, Inits, s
<1>9. CASE Create_
  BY <1>1, <1>2, <1>3, <1>9 DEF Create_, Effect, Makes, Inits, s
<1>10. CASE Save_
  <2>1. MoveOn /\ UNCHANGED <<proxied, inited, created>> /\ s.op = "save"
        /\ records' = Deployed(s.name, s)
    BY <1>1, <1>10 DEF Save_
  <2>2. /\ DOMAIN records' = DOMAIN records \cup {s.name}
        /\ \A l \in DOMAIN records : l # s.name => records'[l] = records[l]
    BY <1>2, <2>1, DeployedIs
  <2>3. Effect(s)
    BY <2>1, <2>2 DEF Effect, Makes, Inits
  <2>. QED BY <1>2, <1>3, <2>1, <2>3 DEF s
<1>. QED BY <1>4, <1>5, <1>6, <1>7, <1>8, <1>9, <1>10 DEF Statement

\* What is up to date stays so while a line is done that is no reason to change it.
LEMMA StaysUpToDate ==
  ASSUME ScriptsAssumption, code' = code,
         NEW i \in DOMAIN Files, NEW k \in Lines(i), Effect(Line(i, k)),
         NEW f \in DOMAIN Files, NEW m \in Lines(f), Line(f, m).op = "link", Line(f, m).name \in DOMAIN records,
         Line(f, m).gets \subseteq DOMAIN records, UpToDate(Line(f, m)),
         Line(i, k).op = "link" /\ Line(i, k).name \in DOMAIN records
           /\ Line(i, k).name \in {Line(f, m).name} \cup Line(f, m).gets => UpToDate(Line(i, k))
  PROVE  UpToDate(Line(f, m))'
<1> DEFINE s == Line(i, k)
           t == Line(f, m)
<1>1. /\ Makes(s) /\ Makes(t) /\ s.name = t.name => s = t
      /\ s.op = "save" => s.name \notin t.gets
  BY MadeOnce
<1>2. Makes(t) /\ t.op = "link" /\ t.name \in DOMAIN records /\ t.gets \subseteq DOMAIN records
  BY DEF Makes
<1> HIDE DEF s, t
<1>3. CASE records' = records
  BY <1>3, UpToDateStays DEF t
<1>4. CASE records' # records
  <2>1. /\ Makes(s)
        /\ ~(s.op = "keep" /\ s.name \in DOMAIN records)
        /\ ~(s.op = "link" /\ s.name \in DOMAIN records /\ UpToDate(s))
        /\ \A l \in DOMAIN records : l # s.name => records'[l] = records[l]
    BY <1>4 DEF Effect, s
  <2>2. s.name \notin {t.name} \cup t.gets
    <3> SUFFICES ASSUME s.name \in {t.name} \cup t.gets PROVE FALSE
      OBVIOUS
    <3>1. s.name \in DOMAIN records
      BY <1>2
    <3>2. s.op = "save"
      BY <2>1, <3>1 DEF Makes, s, t
    <3>. QED BY <1>1, <1>2, <2>1, <3>2
  <2>3. records'[t.name] = records[t.name] /\ \A l \in t.gets : records'[l] = records[l]
    BY <1>2, <2>1, <2>2
  <2>. QED BY <2>3, UpToDateStays DEF t
<1>. QED BY <1>3, <1>4

\* The records are those of lines as they are here.
LEMMA LinkedIs == LinkInv => LinkedToNewest
<1> SUFFICES ASSUME LinkInv, settled, NEW i \in DOMAIN Files, NEW k \in DOMAIN Files[i].steps,
                    Files[i].steps[k].op = "link", RunsOn(net, i), Recorded(Files[i].steps[k].name)
             PROVE  /\ records[Files[i].steps[k].name].code = CodeOf(Files[i].steps[k].name)
                    /\ records[Files[i].steps[k].name].links = Links(Files[i].steps[k])
  BY DEF LinkedToNewest
<1>1. k \in Lines(i) /\ Line(i, k) = Files[i].steps[k]
  BY DEF Lines, Line
<1>2. UpToDate(Line(i, k))
  BY <1>1 DEF LinkInv, Recorded
<1>. QED BY <1>1, <1>2 DEF UpToDate

\* What a line asks for comes from a line before it.
LEMMA Provided ==
  ASSUME ScriptsAssumption, PlanInv, outcome = "running", request \cap WithoutDependencies = {},
         NEW q \in DOMAIN Whole, NEW k \in Lines(Whole[q]), NEW l \in Line(Whole[q], k).gets
  PROVE  \E p \in DOMAIN Whole : \E m \in Lines(Whole[p]) :
           Makes(Line(Whole[p], m)) /\ Line(Whole[p], m).name = l /\ (p < q \/ (p = q /\ m < k))
<1>1. net \in NetworksToCome /\ request \in net.requests \cup {{}}
  BY DEF PlanInv
<1>2. \E p \in 1..q : \E m \in Lines(Whole[p]) :
        Makes(Line(Whole[p], m)) /\ Line(Whole[p], m).name = l /\ (p < q \/ m < k)
  <2>1. \A a \in DOMAIN OrderOn(net, request) : \A b \in Lines(OrderOn(net, request)[a]) :
          \A c \in Line(OrderOn(net, request)[a], b).gets :
            \E p \in 1..a : \E m \in Lines(OrderOn(net, request)[p]) :
              /\ Makes(Line(OrderOn(net, request)[p], m)) /\ Line(OrderOn(net, request)[p], m).name = c
              /\ p < a \/ m < b
    BY <1>1, OrderIs
  <2>. QED BY <2>1 DEF Whole
<1>3. PICK p \in 1..q : \E m \in Lines(Whole[p]) :
        Makes(Line(Whole[p], m)) /\ Line(Whole[p], m).name = l /\ (p < q \/ m < k)
  BY <1>2
<1>4. DOMAIN Whole = 1..Len(Whole) /\ Len(Whole) \in Nat
  BY PlanFacts
<1>5. p \in DOMAIN Whole /\ (p < q \/ p = q)
  BY <1>4
<1>. QED BY <1>3, <1>5

-----------------------------------------------------------------------------
\* A line is done and the run moves on.
LEMMA MoveDone ==
  ASSUME ScriptsAssumption, ScriptsInv, NEW i \in DOMAIN Files, NEW k \in Lines(i), Here(i, k), MoveOn,
         Allowed(Line(i, k)), Effect(Line(i, k)), UNCHANGED <<net, code, request, outcome, hit, settled>>
  PROVE  DoneInv'
<1> DEFINE w == Whole
           b == Behind
           s == Line(i, k)
<1>1. /\ w' = w /\ b + 1 \in DOMAIN w /\ w[b + 1] = i
      /\ \A q \in DOMAIN w : \A m \in Lines(w[q]) : Passed(q, m)' <=> Passed(q, m) \/ (q = b + 1 /\ m = k)
  BY AfterMove DEF ScriptsInv
<1>2. outcome = "running" /\ b \in Nat /\ DOMAIN w = 1..Len(w) /\ Len(w) \in Nat
      /\ \A q \in DOMAIN w : w[q] \in DOMAIN Files
  BY PlanFacts DEF ScriptsInv, Here
<1>3. DOMAIN records \subseteq DOMAIN records' /\ inited \subseteq inited'
      /\ (Makes(s) => s.name \in DOMAIN records') /\ (Inits(s) => s.name \in inited')
      /\ (s.op = "link" => UpToDate(s)')
  BY MadeOnce DEF Effect
<1>4. net \in NetworksToCome /\ request \in net.requests \cup {{}} /\ request' = request
  BY <1>2 DEF ScriptsInv, PlanInv
<1>5. SUFFICES ASSUME NEW q \in DOMAIN w, NEW m \in Lines(w[q]), Passed(q, m)'
               PROVE  /\ Makes(Line(w[q], m)) => Line(w[q], m).name \in DOMAIN records'
                      /\ Inits(Line(w[q], m)) /\ (\A o \in Lines(w[q]) : Line(w[q], o).op # "once")
                           => Line(w[q], m).name \in inited'
                      /\ request = {} /\ Line(w[q], m).op = "link" => UpToDate(Line(w[q], m))'
  BY <1>1, <1>4 DEF DoneInv
<1>6. CASE q = b + 1 /\ m = k
  BY <1>1, <1>3, <1>6
<1>7. CASE Passed(q, m)
  <2> DEFINE t == Line(w[q], m)
  <2>1. /\ Makes(t) => t.name \in DOMAIN records
        /\ Inits(t) /\ (\A o \in Lines(w[q]) : Line(w[q], o).op # "once") => t.name \in inited
        /\ request = {} /\ t.op = "link" => UpToDate(t)
    BY <1>2, <1>7 DEF ScriptsInv, DoneInv
  <2>2. ASSUME request = {}, t.op = "link" PROVE UpToDate(t)'
    <3>1. Makes(t) /\ t.name \in DOMAIN records /\ UpToDate(t) /\ w[q] \in DOMAIN Files
      BY <1>2, <2>1, <2>2 DEF Makes
    <3>2. m \in Nat /\ m <= m
      BY <3>1, LinesAre
    <3>3. t.gets \subseteq DOMAIN records
      BY <3>1, <3>2 DEF ScriptsInv, RecordsInv
    <3>4. ASSUME s.op = "link", s.name \in {t.name} \cup t.gets PROVE UpToDate(s)
      <4>1. CASE s.name = t.name
        BY <2>1, <2>2, <3>1, <3>4, <4>1, MadeOnce DEF Makes
      <4>2. CASE s.name \in t.gets
        <5>1. request \cap WithoutDependencies = {} /\ PlanInv
          BY <2>2 DEF ScriptsInv
        <5>2. PICK p \in DOMAIN w : \E o \in Lines(w[p]) :
                Makes(Line(w[p], o)) /\ Line(w[p], o).name = s.name /\ (p < q \/ (p = q /\ o < m))
          <6>1. PICK l \in Line(Whole[q], m).gets : l = s.name
            BY <4>2
          <6>2. q \in DOMAIN Whole /\ m \in Lines(Whole[q]) /\ outcome = "running"
            BY <1>2
          <6>3. \E p \in DOMAIN Whole : \E o \in Lines(Whole[p]) :
                  Makes(Line(Whole[p], o)) /\ Line(Whole[p], o).name = l /\ (p < q \/ (p = q /\ o < m))
            BY ONLY ScriptsAssumption, <5>1, <6>2, l \in Line(Whole[q], m).gets, Provided
          <6>. QED BY <6>1, <6>3
        <5>3. PICK o \in Lines(w[p]) :
                Makes(Line(w[p], o)) /\ Line(w[p], o).name = s.name /\ (p < q \/ (p = q /\ o < m))
          BY <5>2
        <5>4. Line(w[p], o) = s
          BY <1>2, <3>4, <5>3, MadeOnce DEF Makes
        <5>5. o \in Nat /\ step = k /\ k \in Nat /\ p \in Nat /\ q \in Nat
          BY <1>2, LinesAre DEF Here
        <5>6. Passed(p, o)
          BY <1>2, <1>7, <3>2, <5>3, <5>5 DEF Passed
        <5>. QED BY <1>2, <2>2, <3>4, <5>4, <5>6 DEF ScriptsInv, DoneInv
      <4>. QED BY <3>4, <4>1, <4>2
    <3>5. PICK f \in DOMAIN Files : f = w[q]
      BY <1>2
    <3>6. UpToDate(Line(f, m))'
      BY <2>2, <3>1, <3>3, <3>4, <3>5, StaysUpToDate
    <3>7. Whole' = Whole
      BY <1>1
    <3>. QED BY <3>5, <3>6, <3>7 DEF UpToDate
  <2>. QED BY <1>3, <2>1, <2>2
<1>. QED BY <1>1, <1>5, <1>6, <1>7

LEMMA MoveRecords ==
  ASSUME ScriptsAssumption, ScriptsInv, NEW i \in DOMAIN Files, NEW k \in Lines(i), Here(i, k), MoveOn,
         Allowed(Line(i, k)), Effect(Line(i, k)), UNCHANGED <<net, code, request, outcome, hit, settled>>
  PROVE  RecordsInv'
<1> DEFINE s == Line(i, k)
<1>1. SUFFICES ASSUME NEW f \in DOMAIN Files, NEW m \in Lines(f), Makes(Line(f, m)),
                      Line(f, m).name \in DOMAIN records'
               PROVE  \A o \in Lines(f) : o <= m =>
                        /\ Line(f, o).gets \subseteq DOMAIN records'
                        /\ Line(f, o).op \in {"keep", "create"} /\ Line(f, o).name = Line(f, m).name
                             => Line(f, o).live \subseteq inited'
  BY DEF RecordsInv
<1>2. DOMAIN records \subseteq DOMAIN records' /\ inited \subseteq inited'
      /\ DOMAIN records' \subseteq DOMAIN records \cup (IF Makes(s) THEN {s.name} ELSE {})
  BY DEF Effect
<1>3. CASE Line(f, m).name \in DOMAIN records
  BY <1>1, <1>2, <1>3 DEF ScriptsInv, RecordsInv
<1>4. CASE Line(f, m).name \notin DOMAIN records
  <2>1. Makes(s) /\ s.name = Line(f, m).name
    BY <1>1, <1>2, <1>4
  <2>2. f = i /\ m = k
    BY <1>1, <2>1, MadeOnce
  <2>3. ASSUME NEW o \in Lines(i), o <= k
        PROVE  /\ Line(i, o).gets \subseteq DOMAIN records
               /\ Line(i, o).op \in {"keep", "create"} /\ Line(i, o).name = s.name
                    => Line(i, o).live \subseteq inited
    <3>1. CASE o = k
      BY <1>4, <2>1, <3>1 DEF Allowed
    <3>2. CASE o < k
      <4>1. /\ Line(i, o).gets \subseteq DOMAIN records
            /\ Line(i, o).op = "create" => Line(i, o).live \subseteq inited
        BY <3>2 DEF ScriptsInv, HereInv
      <4>2. Line(i, o).op = "keep" => Line(i, o).name # s.name
        BY <2>1, <3>2, LinesAre, MadeOnce DEF Makes
      <4>. QED BY <4>1, <4>2
    <3>. QED BY <2>3, <3>1, <3>2, LinesAre
  <2>. QED BY <1>2, <2>1, <2>2, <2>3
<1>. QED BY <1>3, <1>4

LEMMA MoveHere ==
  ASSUME ScriptsAssumption, ScriptsInv, NEW i \in DOMAIN Files, NEW k \in Lines(i), Here(i, k), MoveOn,
         Allowed(Line(i, k)), Effect(Line(i, k)), UNCHANGED <<net, code, request, outcome, hit, settled>>,
         Line(i, k).op = "once" => Line(i, k).name \notin DOMAIN records
  PROVE  HereInv'
<1> DEFINE s == Line(i, k)
<1>1. SUFFICES ASSUME NEW f \in DOMAIN Files, NEW n \in Lines(f), Here(f, n)'
      PROVE
        /\ \A m \in Lines(f) : m < n =>
             /\ Line(f, m).gets \subseteq DOMAIN records'
             /\ Makes(Line(f, m)) => Line(f, m).name \in DOMAIN records'
             /\ Line(f, m).op = "initProxy" => Line(f, m).name \in proxied'
             /\ Line(f, m).op = "create" => Line(f, m).live \subseteq inited'
        /\ \A o, m \in Lines(f) :
             o < n /\ n <= m /\ Line(f, o).op = "once" /\ Makes(Line(f, m)) /\ Line(f, m).name = Line(f, o).name
             => Line(f, m).name \notin DOMAIN records'
        /\ \A j, o \in Lines(f) :
             Guards(f, j, o) /\ Line(f, o).op = "init" /\ j < n /\ n <= o => Line(f, o).name \notin inited'
  BY DEF HereInv
<1>2. n = 1 \/ (f = i /\ n = k + 1)
  BY <1>1, AfterMove DEF ScriptsInv
<1>3. \A m \in Lines(f) : m \in Nat /\ m >= 1
  BY LinesAre
<1>4. CASE n = 1
  BY <1>3, <1>4
<1>5. CASE f = i /\ n = k + 1
  <2>0. k \in Nat /\ \A m \in Lines(i) : m \in Nat /\ (m < k + 1 <=> m < k \/ m = k) /\ (k + 1 <= m <=> k < m)
    BY LinesAre
  <2>1. DOMAIN records \subseteq DOMAIN records' /\ proxied \subseteq proxied' /\ inited \subseteq inited'
        /\ DOMAIN records' = DOMAIN records \cup (IF Makes(s) THEN {s.name} ELSE {})
        /\ inited' = inited \cup (IF Inits(s) THEN {s.name} ELSE {})
        /\ (s.op = "initProxy" => s.name \in proxied')
    BY DEF Effect
  <2>2. ASSUME NEW o \in Lines(i), NEW m \in Lines(i), o < k, k <= m,
               Line(i, o).op = "once", Makes(Line(i, m)), Line(i, m).name = Line(i, o).name
        PROVE  Line(i, m).name \notin DOMAIN records
    BY <2>2 DEF ScriptsInv, HereInv
  <2>3. ASSUME NEW m \in Lines(i), m < k + 1
        PROVE  /\ Line(i, m).gets \subseteq DOMAIN records'
               /\ Makes(Line(i, m)) => Line(i, m).name \in DOMAIN records'
               /\ Line(i, m).op = "initProxy" => Line(i, m).name \in proxied'
               /\ Line(i, m).op = "create" => Line(i, m).live \subseteq inited'
    <3>1. CASE m < k
      BY <2>1, <3>1 DEF ScriptsInv, HereInv
    <3>2. CASE m = k
      <4>1. s.op = "create" => s.name \notin DOMAIN records
        <5>1. SUFFICES ASSUME s.op = "create" PROVE s.name \notin DOMAIN records
          OBVIOUS
        <5>2. PICK o, p \in Lines(i) : /\ o < k /\ Line(i, o).op = "once" /\ Line(i, o).name = s.name
                                       /\ k < p /\ Line(i, p).op = "save" /\ Line(i, p).name = s.name
          BY <5>1 DEF ScriptsAssumption, ChecksComeFirst
        <5>3. k <= p /\ Makes(Line(i, p)) /\ Line(i, p).name = Line(i, o).name
          BY <2>0, <5>2 DEF Makes
        <5>. QED BY <2>2, <5>2, <5>3
      <4>2. s.gets \subseteq DOMAIN records /\ (s.op = "create" => s.live \subseteq inited)
        BY <4>1 DEF Allowed
      <4>. QED BY <2>1, <3>2, <4>2
    <3>. QED BY <2>0, <2>3, <3>1, <3>2
  <2>4. ASSUME NEW o \in Lines(i), NEW m \in Lines(i), o < k + 1, k + 1 <= m,
               Line(i, o).op = "once", Makes(Line(i, m)), Line(i, m).name = Line(i, o).name
        PROVE  Line(i, m).name \notin DOMAIN records'
    <3>1. Line(i, m).name \notin DOMAIN records
      <4>1. CASE o < k
        BY <2>0, <2>2, <2>4, <4>1
      <4>2. CASE o = k
        BY <2>4, <4>2
      <4>. QED BY <2>0, <2>4, <4>1, <4>2
    <3>2. Makes(s) => s.name # Line(i, m).name
      BY <2>0, <2>4, MadeOnce
    <3>. QED BY <2>1, <3>1, <3>2
  <2>5. ASSUME NEW j \in Lines(i), NEW o \in Lines(i), Guards(i, j, o), Line(i, o).op = "init", j < k + 1, k + 1 <= o
        PROVE  Line(i, o).name \notin inited'
    <3>1. Line(i, o).name \notin inited
      <4>1. CASE j < k
        BY <2>0, <2>5, <4>1 DEF ScriptsInv, HereInv
      <4>2. CASE j = k
        <5>1. PICK r \in 1..(j - 1) : Line(i, r).op = "once" /\ Line(i, r).name = Line(i, j).name
          BY <2>5 DEF Guards
        <5>2. r \in Lines(i) /\ r < k /\ k <= j
          BY <4>2, LinesAre
        <5>3. Makes(Line(i, j))
          BY <2>5 DEF Guards, Makes
        <5>4. Line(i, j).name \notin DOMAIN records
          BY <2>2, <5>1, <5>2, <5>3
        <5>. QED BY <2>5, <5>4 DEF ScriptsInv, InitedInv
      <4>. QED BY <2>0, <2>5, <4>1, <4>2
    <3>2. Inits(s) => s.name # Line(i, o).name
      BY <2>0, <2>5, MadeOnce DEF Guards
    <3>. QED BY <2>1, <3>1, <3>2
  <2>. QED BY <1>5, <2>3, <2>4, <2>5
<1>. QED BY <1>2, <1>4, <1>5

LEMMA MoveInited ==
  ASSUME ScriptsAssumption, ScriptsInv, NEW i \in DOMAIN Files, NEW k \in Lines(i), Here(i, k), MoveOn,
         Allowed(Line(i, k)), Effect(Line(i, k)), UNCHANGED <<net, code, request, outcome, hit, settled>>
  PROVE  InitedInv'
<1> DEFINE s == Line(i, k)
<1>1. SUFFICES ASSUME NEW f \in DOMAIN Files, NEW j \in Lines(f), NEW o \in Lines(f), Guards(f, j, o)
      PROVE
        /\ Line(f, o).name \in inited' =>
             /\ Line(f, j).name \in DOMAIN records'
             /\ \A m \in Lines(f) : m < o /\ Line(f, m).op = "initProxy" => Line(f, m).name \in proxied'
        /\ Line(f, j).name \in DOMAIN records' =>
             Line(f, o).name \in inited' \cup hit \/ \E m \in Lines(f) : Here(f, m)' /\ j < m /\ m <= o
  BY DEF InitedInv
<1>2. DOMAIN records' = DOMAIN records \cup (IF Makes(s) THEN {s.name} ELSE {})
      /\ inited' = inited \cup (IF Inits(s) THEN {s.name} ELSE {}) /\ proxied \subseteq proxied'
  BY DEF Effect
<1>3. Makes(Line(f, j)) /\ Inits(Line(f, o)) /\ j < o
  BY <1>1 DEF Guards, Makes
<1>4. /\ Line(f, o).name \in inited =>
           /\ Line(f, j).name \in DOMAIN records
           /\ \A m \in Lines(f) : m < o /\ Line(f, m).op = "initProxy" => Line(f, m).name \in proxied
      /\ Line(f, j).name \in DOMAIN records =>
           Line(f, o).name \in inited \cup hit \/ \E m \in Lines(f) : Here(f, m) /\ j < m /\ m <= o
  BY <1>1 DEF ScriptsInv, InitedInv
<1>5. k \in Nat /\ \A m \in Lines(f) : m \in Nat
  BY LinesAre
<1>6. k + 1 \in Lines(i) => Here(i, k + 1)'
  BY AfterMove DEF ScriptsInv
<1>7. ASSUME f = i, j <= k, k < o
      PROVE  \E m \in Lines(f) : Here(f, m)' /\ j < m /\ m <= o
  <2>1. k + 1 \in Lines(i) /\ j < k + 1 /\ k + 1 <= o
    BY <1>5, <1>7, LinesAre
  <2>. QED BY <1>6, <1>7, <2>1
<1>8. ASSUME Line(f, o).name \in inited', Line(f, o).name \notin inited
      PROVE  /\ Line(f, j).name \in DOMAIN records
             /\ \A m \in Lines(f) : m < o /\ Line(f, m).op = "initProxy" => Line(f, m).name \in proxied
  <2>1. f = i /\ o = k
    BY <1>2, <1>3, <1>8, MadeOnce
  <2>. QED BY <1>3, <2>1 DEF ScriptsInv, HereInv
<1>9. ASSUME Line(f, j).name \in DOMAIN records, Line(f, o).name \notin inited \cup hit
      PROVE  Line(f, o).name \in inited' \/ \E m \in Lines(f) : Here(f, m)' /\ j < m /\ m <= o
  <2>1. PICK m \in Lines(f) : Here(f, m) /\ j < m /\ m <= o
    BY <1>4, <1>9
  <2>2. f = i /\ m = k
    BY <2>1 DEF Here
  <2>3. CASE k = o
    BY <1>2, <1>3, <2>2, <2>3
  <2>4. CASE k # o
    BY <1>5, <1>7, <2>1, <2>2, <2>4
  <2>. QED BY <2>3, <2>4
<1>10. ASSUME Line(f, j).name \in DOMAIN records', Line(f, j).name \notin DOMAIN records
       PROVE  \E m \in Lines(f) : Here(f, m)' /\ j < m /\ m <= o
  <2>1. f = i /\ j = k
    BY <1>2, <1>3, <1>10, MadeOnce
  <2>2. j <= k /\ k < o
    BY <1>3, <1>5, <2>1
  <2>. QED BY <1>7, <2>1, <2>2
<1>. QED BY <1>2, <1>4, <1>8, <1>9, <1>10

LEMMA MoveLink ==
  ASSUME ScriptsAssumption, ScriptsInv, NEW i \in DOMAIN Files, NEW k \in Lines(i), Here(i, k), MoveOn,
         Allowed(Line(i, k)), Effect(Line(i, k)), UNCHANGED <<net, code, request, outcome, hit, settled>>
  PROVE  LinkInv'
<1> DEFINE s == Line(i, k)
<1>1. SUFFICES ASSUME settled, NEW f \in DOMAIN Files, NEW m \in Lines(f), Line(f, m).op = "link",
                      RunsOn(net, f), Line(f, m).name \in DOMAIN records'
               PROVE  UpToDate(Line(f, m))'
  BY DEF LinkInv
<1>0. RunsOn(net, i)
  BY PlanFacts DEF ScriptsInv, Here
<1>2. ASSUME NEW g \in DOMAIN Files, NEW o \in Lines(g), Line(g, o).op = "link", RunsOn(net, g),
             Line(g, o).name \in DOMAIN records
      PROVE  UpToDate(Line(g, o))
  BY <1>1, <1>2 DEF ScriptsInv, LinkInv
<1>3. CASE Line(f, m).name \in DOMAIN records
  <2>1. m <= m /\ Makes(Line(f, m))
    BY <1>1, LinesAre DEF Makes
  <2>2. Line(f, m).gets \subseteq DOMAIN records
    BY <1>3, <2>1 DEF ScriptsInv, RecordsInv
  <2>3. UpToDate(Line(f, m)) /\ (s.op = "link" /\ s.name \in DOMAIN records => UpToDate(s))
    BY <1>0, <1>1, <1>2, <1>3
  <2>. QED BY <1>1, <1>3, <2>2, <2>3, StaysUpToDate
<1>4. CASE Line(f, m).name \notin DOMAIN records
  <2>1. Makes(s) /\ s.name = Line(f, m).name
    BY <1>1, <1>4 DEF Effect
  <2>2. f = i /\ m = k
    BY <1>1, <2>1, MadeOnce DEF Makes
  <2>3. s.name \notin s.gets
    BY <1>1, <2>2, MadeOnce
  <2>. QED BY <1>1, <2>2, <2>3 DEF Effect
<1>. QED BY <1>3, <1>4

\* A script that finds its deployment leaves the rest out.
LEMMA LeaveKeeps ==
  ASSUME ScriptsAssumption, ScriptsInv, NEW i \in DOMAIN Files, NEW k \in Lines(i), Here(i, k), Leave,
         Line(i, k).op = "once", Line(i, k).name \in DOMAIN records,
         UNCHANGED <<net, code, chainVars, request, outcome, hit, settled>>
  PROVE  DoneInv' /\ HereInv' /\ RecordsInv' /\ InitedInv' /\ LinkInv'
<1> DEFINE w == Whole
           b == Behind
           s == Line(i, k)
<1>1. /\ w' = w /\ b + 1 \in DOMAIN w /\ w[b + 1] = i
      /\ \A q \in DOMAIN w : \A m \in Lines(w[q]) : Passed(q, m)' => Passed(q, m) \/ (q = b + 1 /\ m >= k)
      /\ \A f, m : Here(f, m)' => m = 1
  BY AfterLeave DEF ScriptsInv
<1>2. outcome = "running" /\ records' = records /\ inited' = inited /\ proxied' = proxied /\ code' = code
  BY DEF Here, chainVars
<1>3. ASSUME NEW t, UpToDate(t) PROVE UpToDate(t)'
  BY <1>2, <1>3, UpToDateStays
<1>4. DoneInv'
  <2>1. SUFFICES ASSUME NEW q \in DOMAIN w, NEW m \in Lines(w[q]), Passed(q, m)'
                 PROVE  /\ Makes(Line(w[q], m)) => Line(w[q], m).name \in DOMAIN records
                        /\ Inits(Line(w[q], m)) /\ (\A o \in Lines(w[q]) : Line(w[q], o).op # "once")
                             => Line(w[q], m).name \in inited
                        /\ request = {} /\ Line(w[q], m).op = "link" => UpToDate(Line(w[q], m))'
    BY <1>1, <1>2 DEF DoneInv
  <2>2. CASE Passed(q, m)
    <3>1. /\ Makes(Line(w[q], m)) => Line(w[q], m).name \in DOMAIN records
          /\ Inits(Line(w[q], m)) /\ (\A o \in Lines(w[q]) : Line(w[q], o).op # "once")
               => Line(w[q], m).name \in inited
          /\ request = {} /\ Line(w[q], m).op = "link" => UpToDate(Line(w[q], m))
      BY <1>2, <2>2 DEF ScriptsInv, DoneInv
    <3>2. PICK f \in {w[q]} : TRUE
      OBVIOUS
    <3>3. UpToDate(Line(f, m)) => UpToDate(Line(f, m))'
      BY <1>3
    <3>4. UpToDate(Line(w[q], m)) => UpToDate(Line(w[q], m))'
      BY <1>1, <3>2, <3>3 DEF UpToDate
    <3>. QED BY <3>1, <3>4
  <2>3. CASE q = b + 1 /\ m >= k
    <3>1. /\ Line(i, m).op # "link"
          /\ m > k /\ Makes(Line(i, m)) => Line(i, m).name = s.name
      BY <1>1, <2>3 DEF ScriptsAssumption, ChecksComeFirst
    <3>2. m = k => ~Makes(Line(i, m))
      BY DEF Makes
    <3>3. m > k \/ m = k
      BY <1>1, <2>3, LinesAre
    <3>. QED BY <1>1, <2>3, <3>1, <3>2, <3>3
  <2>. QED BY <1>1, <2>1, <2>2, <2>3
<1>5. HereInv'
  <2>1. SUFFICES ASSUME NEW f \in DOMAIN Files, NEW n \in Lines(f), Here(f, n)'
        PROVE
          /\ \A m \in Lines(f) : ~(m < n)
          /\ \A m \in Lines(f) : n <= m
    BY DEF HereInv
  <2>2. n = 1 /\ \A m \in Lines(f) : m \in Nat /\ m >= 1
    BY <1>1, <2>1, LinesAre
  <2>. QED BY <2>2
<1>6. RecordsInv'
  BY <1>2 DEF ScriptsInv, RecordsInv
<1>7. InitedInv'
  <2>1. SUFFICES ASSUME NEW f \in DOMAIN Files, NEW j \in Lines(f), NEW o \in Lines(f), Guards(f, j, o),
                        NEW m \in Lines(f), Here(f, m), j < m, m <= o
                 PROVE  FALSE
    BY <1>2 DEF ScriptsInv, InitedInv
  <2>2. f = i /\ m = k
    BY <2>1 DEF Here
  <2>3. CASE m = o
    BY <2>1, <2>2, <2>3 DEF Guards, Inits
  <2>4. CASE m # o
    <3>1. m < o
      BY <2>1, <2>4, LinesAre
    <3>. QED BY <2>1, <2>2, <3>1 DEF Guards
  <2>. QED BY <2>3, <2>4
<1>8. LinkInv'
  <2>1. SUFFICES ASSUME settled, NEW f \in DOMAIN Files, NEW m \in Lines(f), Line(f, m).op = "link",
                        RunsOn(net, f), Line(f, m).name \in DOMAIN records
                 PROVE  UpToDate(Line(f, m))'
    BY <1>2 DEF LinkInv
  <2>2. UpToDate(Line(f, m))
    BY <2>1 DEF ScriptsInv, LinkInv
  <2>. QED BY <1>3, <2>2
<1>. QED BY <1>4, <1>5, <1>6, <1>7, <1>8

LEMMA StatementKeeps ==
  ASSUME ScriptsAssumption, ScriptsInv, Statement
  PROVE  ScriptsInv'
<1>1. outcome = "running" /\ plan # <<>> /\ PlanInv
  BY DEF Statement, ScriptsInv
<1>2. PICK i \in DOMAIN Files : i = Head(plan) /\ step \in Lines(i)
  BY <1>1, PlanFacts
<1>3. PICK k \in Lines(i) : k = step
  BY <1>2
<1>4. Here(i, k)
  BY <1>1, <1>2, <1>3 DEF Here
<1>5. Allowed(Line(i, k)) /\ UNCHANGED <<net, code, request, outcome, crashes, runs, hit, settled>>
  BY <1>4, StatementIs
<1>6. outcome' = "running"
  BY <1>1, <1>5
<1>7. PlanInv' /\ DoneInv' /\ HereInv' /\ RecordsInv' /\ InitedInv' /\ LinkInv'
  <2>1. CASE Line(i, k).op = "once" /\ Line(i, k).name \in DOMAIN records /\ Leave /\ UNCHANGED chainVars
    <3>1. PlanInv'
      BY <1>1, <1>4, <1>5, <2>1, AfterLeave
    <3>. QED BY <1>4, <1>5, <2>1, <3>1, LeaveKeeps
  <2>2. CASE MoveOn /\ Effect(Line(i, k)) /\ (Line(i, k).op = "once" => Line(i, k).name \notin DOMAIN records)
    <3>1. PlanInv'
      BY <1>1, <1>4, <1>5, <2>2, AfterMove
    <3>2. DoneInv'
      BY <1>4, <1>5, <2>2, MoveDone
    <3>3. HereInv'
      BY <1>4, <1>5, <2>2, MoveHere
    <3>4. RecordsInv'
      BY <1>4, <1>5, <2>2, MoveRecords
    <3>5. InitedInv'
      BY <1>4, <1>5, <2>2, MoveInited
    <3>6. LinkInv'
      BY <1>4, <1>5, <2>2, MoveLink
    <3>. QED BY <3>1, <3>2, <3>3, <3>4, <3>5, <3>6
  <2>. QED BY <1>4, <2>1, <2>2, StatementIs
<1>8. FailureIsExplained' /\ SuccessMeansReady'
  BY <1>6 DEF FailureIsExplained, SuccessMeansReady
<1>. QED BY <1>7, <1>8 DEF ScriptsInv

-----------------------------------------------------------------------------
\* A failed line: what can be the matter.
LEMMA AskedIsThere ==
  ASSUME ScriptsAssumption, ScriptsInv, NEW s, s.gets \subseteq DOMAIN records, NEW name, Asks(s, name)
  PROVE  name \in DOMAIN records
<1>1. CASE name \in s.gets
  BY <1>1
<1>2. ASSUME NEW f \in DOMAIN Files, NEW m \in Lines(f), Makes(Line(f, m)), Line(f, m).name \in s.gets,
             NEW o \in 1..m, name \in Line(f, o).gets
      PROVE  name \in DOMAIN records
  <2>1. o \in Lines(f) /\ o <= m
    BY LinesAre
  <2>. QED BY <1>2, <2>1 DEF ScriptsInv, RecordsInv
<1>. QED BY <1>1, <1>2 DEF Asks

\* A strategy whose deployment is recorded is initialised or was hit, unless the run is between the two.
LEMMA BetweenOrHit ==
  ASSUME ScriptsAssumption, ScriptsInv, NEW i \in DOMAIN Files, NEW k \in Lines(i), Here(i, k),
         Line(i, k).op # "initProxy", ~Inits(Line(i, k)),
         NEW f \in DOMAIN Files, NEW j \in Lines(f), NEW o \in Lines(f), Guards(f, j, o),
         Line(f, j).name \in DOMAIN records
  PROVE  Line(f, o).name \in inited \cup hit
<1>1. SUFFICES ASSUME NEW m \in Lines(f), Here(f, m), j < m, m <= o PROVE FALSE
  BY DEF ScriptsInv, InitedInv
<1>2. f = i /\ m = k
  BY <1>1 DEF Here
<1>3. CASE m = o
  BY <1>2, <1>3 DEF Guards
<1>4. CASE m # o
  <2>1. m < o
    BY <1>1, <1>4, LinesAre
  <2>. QED BY <1>1, <1>2, <2>1 DEF Guards
<1>. QED BY <1>3, <1>4

\* Between the two no line fails.
LEMMA NoFailBetween ==
  ASSUME ScriptsAssumption, ScriptsInv, NEW i \in DOMAIN Files, NEW j \in Lines(i), NEW o \in Lines(i),
         Guards(i, j, o), NEW m \in Lines(i), Here(i, m), j < m, m <= o
  PROVE  ~Fails(Line(i, m))
<1> DEFINE s == Line(i, m)
<1>0. j \in Nat /\ m \in Nat /\ o \in Nat /\ Lines(i) = 1..Len(Files[i].steps) /\ Len(Files[i].steps) \in Nat
  BY LinesAre
<1>1. \A r \in Lines(i) : r < m =>
        /\ Line(i, r).gets \subseteq DOMAIN records
        /\ Makes(Line(i, r)) => Line(i, r).name \in DOMAIN records
  BY DEF ScriptsInv, HereInv
<1>2. s.gets \subseteq {Line(i, j).name} \cup UNION {Line(i, r).gets : r \in 1..j}
  BY DEF Guards
<1>3. Line(i, j).name \in DOMAIN records
  BY <1>1 DEF Guards, Makes
<1>4. \A r \in 1..j : r \in Lines(i) /\ r < m
  BY <1>0
<1>5. s.gets \subseteq DOMAIN records
  BY <1>1, <1>2, <1>3, <1>4
<1>6. CASE m < o
  <2>1. s.op = "initProxy"
    BY <1>6 DEF Guards
  <2>. QED BY <1>5, <2>1 DEF Fails, Recorded
<1>7. CASE m = o
  <2>1. s.op \in {"init", "initUnlessSet"}
    BY <1>7 DEF Guards, Inits
  <2>2. s.op = "init" => F!ValidThresholds(s.limits) /\ s.name \notin inited
    BY <1>7 DEF Guards, ScriptsInv, HereInv
  <2>. QED BY <1>5, <2>1, <2>2 DEF Fails, Recorded
<1>. QED BY <1>0, <1>6, <1>7

LEMMA FailedRunKeeps ==
  ASSUME ScriptsAssumption, ScriptsInv, Fail
  PROVE  ScriptsInv'
<1>1. outcome = "running" /\ plan # <<>> /\ PlanInv
  BY DEF Fail, ScriptsInv
<1>2. PICK i \in DOMAIN Files : i = Head(plan) /\ step \in Lines(i)
  BY <1>1, PlanFacts
<1>3. PICK k \in Lines(i) : k = step
  BY <1>2
<1>4. Here(i, k)
  BY <1>1, <1>2, <1>3 DEF Here
<1> DEFINE s == Line(i, k)
           missing == \E l \in s.gets : l \notin DOMAIN records
<1>5. Now = s
  BY <1>2, <1>3 DEF Now, This, Line
<1>6. /\ Fails(s) /\ outcome' = (IF missing THEN "missing" ELSE "reverted") /\ settled' = FALSE
      /\ UNCHANGED <<net, code, chainVars, request, plan, step, crashes, runs, hit>>
  BY <1>5 DEF Fail, Recorded
<1>7. records' = records /\ inited' = inited /\ proxied' = proxied /\ outcome' # "running" /\ outcome' # "ok"
  BY <1>6 DEF chainVars
<1>8. PlanInv' /\ DoneInv' /\ HereInv' /\ LinkInv'
  BY <1>1, <1>6, <1>7 DEF PlanInv, DoneInv, HereInv, Here, LinkInv
<1>9. RecordsInv'
  BY <1>6, <1>7 DEF ScriptsInv, RecordsInv
<1>10. InitedInv'
  <2>1. SUFFICES ASSUME NEW f \in DOMAIN Files, NEW j \in Lines(f), NEW o \in Lines(f), Guards(f, j, o),
                        NEW m \in Lines(f), Here(f, m), j < m, m <= o
                 PROVE  FALSE
    BY <1>6, <1>7 DEF ScriptsInv, InitedInv
  <2>2. f = i /\ m = k
    BY <1>4, <2>1 DEF Here
  <2>. QED BY <1>6, <2>1, <2>2, NoFailBetween
<1>11. ASSUME missing PROVE request \cap WithoutDependencies # {}
  <2>1. SUFFICES ASSUME request \cap WithoutDependencies = {} PROVE FALSE
    OBVIOUS
  <2>2. Behind + 1 \in DOMAIN Whole /\ Whole[Behind + 1] = i /\ Behind \in Nat
        /\ DOMAIN Whole = 1..Len(Whole) /\ Len(Whole) \in Nat
        /\ \A q \in DOMAIN Whole : Whole[q] \in DOMAIN Files
    BY <1>1, <1>2, PlanFacts
  <2>3. PICK q \in DOMAIN Whole : q = Behind + 1
    BY <2>2
  <2>4. k \in Lines(Whole[q]) /\ Line(Whole[q], k) = s
    BY <2>2, <2>3
  <2>5. PICK l \in Line(Whole[q], k).gets : l \notin DOMAIN records
    BY <1>11, <2>4
  <2>6. PICK p \in DOMAIN Whole : \E m \in Lines(Whole[p]) :
          Makes(Line(Whole[p], m)) /\ Line(Whole[p], m).name = l /\ (p < q \/ (p = q /\ m < k))
    BY ONLY ScriptsAssumption, <1>1, <2>1, <2>4, Provided
  <2>7. PICK m \in Lines(Whole[p]) :
          Makes(Line(Whole[p], m)) /\ Line(Whole[p], m).name = l /\ (p < q \/ (p = q /\ m < k))
    BY <2>6
  <2>8. Passed(p, m)
    <3>1. p \in Nat
      BY <2>2
    <3>. QED BY <1>3, <2>2, <2>3, <2>7, <3>1 DEF Passed
  <2>. QED BY <1>1, <2>5, <2>7, <2>8 DEF ScriptsInv, DoneInv
<1>12. ASSUME ~missing PROVE hit \ inited # {}
  <2>1. s.gets \subseteq DOMAIN records
    BY <1>12
  <2>2. ~Inits(s)
    <3>1. SUFFICES ASSUME Inits(s) PROVE FALSE
      OBVIOUS
    <3>2. PICK j \in Lines(i) : Guards(i, j, k)
      BY <3>1 DEF ScriptsAssumption, InitsFollow
    <3>3. j < k /\ k <= k
      BY <3>2, LinesAre DEF Guards
    <3>. QED BY <1>4, <1>6, <3>2, <3>3, NoFailBetween
  <2>3. \/ s.op = "read" /\ s.name \notin proxied
        \/ s.op \in {"keep", "create"} /\ ~(s.live \subseteq inited)
    BY <1>6, <2>1, <2>2 DEF Fails, Recorded, Inits
  <2>4. s.op # "initProxy"
    BY <2>3
  <2>5. CASE s.op = "read" /\ s.name \notin proxied
    <3>1. PICK f \in DOMAIN Files : \E j, m, o \in Lines(f) :
            /\ Guards(f, j, o) /\ Asks(s, Line(f, j).name) /\ Line(f, o).name = s.name
            /\ Line(f, m).op = "initProxy" /\ m < o /\ Line(f, m).name = s.name
      BY <2>5 DEF ScriptsAssumption, CallsAreGuarded
    <3>2. PICK j, m, o \in Lines(f) :
            /\ Guards(f, j, o) /\ Asks(s, Line(f, j).name) /\ Line(f, o).name = s.name
            /\ Line(f, m).op = "initProxy" /\ m < o /\ Line(f, m).name = s.name
      BY <3>1
    <3>3. Line(f, j).name \in DOMAIN records
      BY <2>1, <3>2, AskedIsThere
    <3>4. s.name \in inited \cup hit
      BY <1>4, <2>2, <2>4, <3>2, <3>3, BetweenOrHit
    <3>5. s.name \notin inited
      BY <2>5, <3>2 DEF ScriptsInv, InitedInv
    <3>. QED BY <3>4, <3>5
  <2>6. CASE s.op \in {"keep", "create"} /\ ~(s.live \subseteq inited)
    <3>1. PICK name \in s.live : name \notin inited
      BY <2>6
    <3>2. PICK f \in DOMAIN Files : \E j, o \in Lines(f) :
            Guards(f, j, o) /\ Asks(s, Line(f, j).name) /\ Line(f, o).name = name
      BY DEF ScriptsAssumption, CallsAreGuarded
    <3>3. PICK j, o \in Lines(f) :
            Guards(f, j, o) /\ Asks(s, Line(f, j).name) /\ Line(f, o).name = name
      BY <3>2
    <3>4. Line(f, j).name \in DOMAIN records
      BY <2>1, <3>3, AskedIsThere
    <3>5. name \in inited \cup hit
      BY <1>4, <2>2, <2>4, <3>3, <3>4, BetweenOrHit
    <3>. QED BY <3>1, <3>5
  <2>. QED BY <2>3, <2>5, <2>6
<1>13. FailureIsExplained'
  BY <1>6, <1>7, <1>11, <1>12 DEF FailureIsExplained
<1>14. SuccessMeansReady'
  BY <1>7 DEF SuccessMeansReady
<1>. QED BY <1>8, <1>9, <1>10, <1>13, <1>14 DEF ScriptsInv

-----------------------------------------------------------------------------
LEMMA FinishKeeps ==
  ASSUME ScriptsAssumption, ScriptsInv, Finish
  PROVE  ScriptsInv'
<1>1. outcome = "running" /\ plan = <<>> /\ PlanInv /\ outcome' = "ok" /\ settled' = (settled \/ request = {})
      /\ UNCHANGED <<net, code, chainVars, request, plan, step, crashes, runs, hit>>
  BY DEF Finish, ScriptsInv
<1>2. records' = records /\ inited' = inited /\ proxied' = proxied
  BY <1>1 DEF chainVars
<1>3. net \in NetworksToCome /\ request \in net.requests \cup {{}}
  BY <1>1 DEF PlanInv
<1>4. /\ Behind = Len(Whole) /\ Len(Whole) \in Nat /\ DOMAIN Whole = 1..Len(Whole)
      /\ \A q \in DOMAIN Whole : Whole[q] \in DOMAIN Files
  BY <1>1, PlanFacts
\* Every line of a whole run is passed.
<1>5. ASSUME request = {}, NEW f \in DOMAIN Files, RunsOn(net, f), NEW m \in Lines(f)
      PROVE  /\ Makes(Line(f, m)) => Line(f, m).name \in DOMAIN records
             /\ Inits(Line(f, m)) /\ (\A o \in Lines(f) : Line(f, o).op # "once") => Line(f, m).name \in inited
             /\ Line(f, m).op = "link" => UpToDate(Line(f, m))
  <2>1. f \in Range(Whole)
    BY <1>3, <1>5, OrderIs DEF Whole
  <2>2. PICK q \in DOMAIN Whole : Whole[q] = f
    BY <2>1 DEF Range
  <2>3. q <= Behind
    BY <1>4
  <2>4. Passed(q, m)
    BY <2>3 DEF Passed
  <2>. QED BY <1>1, <1>5, <2>2, <2>4 DEF ScriptsInv, DoneInv
<1>6. PlanInv' /\ DoneInv' /\ HereInv'
  BY <1>1, <1>3 DEF PlanInv, DoneInv, HereInv, Here
<1>7. RecordsInv'
  BY <1>1, <1>2 DEF ScriptsInv, RecordsInv
<1>8. \A f, m : ~Here(f, m)
  BY <1>1 DEF Here
<1>9. InitedInv'
  BY <1>1, <1>2, <1>8 DEF ScriptsInv, InitedInv
<1>10. LinkInv'
  <2>1. SUFFICES ASSUME settled \/ request = {}, NEW f \in DOMAIN Files, NEW m \in Lines(f),
                        Line(f, m).op = "link", RunsOn(net, f), Line(f, m).name \in DOMAIN records
                 PROVE  UpToDate(Line(f, m))'
    BY <1>1, <1>2 DEF LinkInv
  <2>2. UpToDate(Line(f, m))
    BY <1>5, <2>1 DEF ScriptsInv, LinkInv
  <2>. QED BY <1>1, <1>2, <2>2, UpToDateStays
<1>11. FailureIsExplained'
  BY <1>1 DEF FailureIsExplained
<1>12. SuccessMeansReady'
  <2>1. SUFFICES ASSUME request = {}, NEW i \in DOMAIN Files, NEW k \in DOMAIN Files[i].steps,
                        Files[i].steps[k].op \in {"init", "initUnlessSet"}, RunsOn(net, i)
                 PROVE  Files[i].steps[k].name \in inited \cup (hit \cap Unread(net))
    BY <1>1, <1>2 DEF SuccessMeansReady
  <2> DEFINE name == Line(i, k).name
  <2>2. k \in Lines(i) /\ Inits(Line(i, k)) /\ Files[i].steps[k] = Line(i, k)
    BY <2>1 DEF Lines, Line, Inits
  <2>3. PICK j \in Lines(i) : Guards(i, j, k)
    BY <2>2 DEF ScriptsAssumption, InitsFollow
  <2>4. Line(i, j).name \in DOMAIN records
    BY <1>5, <2>1, <2>3 DEF Guards, Makes
  <2>5. name \in inited \cup hit
    BY <1>8, <2>2, <2>3, <2>4 DEF ScriptsInv, InitedInv
  <2>6. ASSUME name \notin Unread(net) PROVE name \in inited
    <3>1. CASE \A o \in Lines(i) : Line(i, o).op # "once"
      BY <1>5, <2>1, <2>2, <3>1
    <3>2. CASE \E o \in Lines(i) : Line(i, o).op = "once"
      <4>1. PICK f \in DOMAIN Files : \E o, m \in Lines(f) :
              /\ RunsOn(net, f) /\ name \in Line(f, o).live /\ Line(f, o).op \in {"keep", "create"}
              /\ o <= m /\ Makes(Line(f, m)) /\ Line(f, m).name = Line(f, o).name
        BY <1>3, <2>1, <2>2, <2>6, <3>2 DEF ScriptsAssumption, OthersAreCalled
      <4>2. PICK o, m \in Lines(f) :
              /\ RunsOn(net, f) /\ name \in Line(f, o).live /\ Line(f, o).op \in {"keep", "create"}
              /\ o <= m /\ Makes(Line(f, m)) /\ Line(f, m).name = Line(f, o).name
        BY <4>1
      <4>3. Line(f, m).name \in DOMAIN records
        BY <1>5, <2>1, <4>2
      <4>. QED BY <4>2, <4>3 DEF ScriptsInv, RecordsInv
    <3>. QED BY <3>1, <3>2
  <2>. QED BY <2>2, <2>5, <2>6
<1>. QED BY <1>6, <1>7, <1>9, <1>10, <1>11, <1>12 DEF ScriptsInv

\* What a run was cut off at is hit.
LEMMA CrashKeeps ==
  ASSUME ScriptsAssumption, ScriptsInv, Crash
  PROVE  ScriptsInv'
<1>1. outcome = "running" /\ outcome' = "crashed" /\ hit' = (IF plan = <<>> THEN hit ELSE hit \cup HalfDone)
      /\ UNCHANGED <<net, code, chainVars, request, plan, step, runs, settled>>
  BY DEF Crash
<1>2. records' = records /\ inited' = inited /\ proxied' = proxied /\ code' = code
  BY <1>1 DEF chainVars
<1>3. PlanInv' /\ DoneInv' /\ HereInv'
  BY <1>1 DEF ScriptsInv, PlanInv, DoneInv, HereInv, Here
<1>4. RecordsInv'
  BY <1>1, <1>2 DEF ScriptsInv, RecordsInv
<1>5. hit \subseteq hit'
  BY <1>1
<1>6. InitedInv'
  <2>1. SUFFICES ASSUME NEW f \in DOMAIN Files, NEW j \in Lines(f), NEW o \in Lines(f), Guards(f, j, o),
                        NEW m \in Lines(f), Here(f, m), j < m, m <= o
                 PROVE  Line(f, o).name \in hit'
    BY <1>2, <1>5 DEF ScriptsInv, InitedInv
  <2>2. plan # <<>> /\ Head(plan) = f /\ step = m /\ Line(f, j).op = "keep"
    BY <2>1 DEF Here, Guards
  <2>3. j \in 1..(step - 1) /\ Line(f, j) = This.steps[j]
    BY <2>1, <2>2, LinesAre DEF Line, This
  <2>4. Line(f, o).name \in {This.steps[k].name : k \in DOMAIN This.steps}
    BY <2>2 DEF Line, Lines, This
  <2>5. j \in {k \in 1..(step - 1) : This.steps[k].op \in {"keep", "initProxy", "create"}}
    BY <2>2, <2>3
  <2>6. Line(f, o).name \in HalfDone
    BY <2>4, <2>5 DEF HalfDone
  <2>. QED BY <1>1, <2>2, <2>6
<1>7. LinkInv'
  <2>1. SUFFICES ASSUME settled, NEW f \in DOMAIN Files, NEW m \in Lines(f), Line(f, m).op = "link",
                        RunsOn(net, f), Line(f, m).name \in DOMAIN records
                 PROVE  UpToDate(Line(f, m))'
    BY <1>1, <1>2 DEF LinkInv
  <2>2. UpToDate(Line(f, m))
    BY <2>1 DEF ScriptsInv, LinkInv
  <2>. QED BY <1>2, <2>2, UpToDateStays
<1>8. FailureIsExplained' /\ SuccessMeansReady'
  BY <1>1 DEF FailureIsExplained, SuccessMeansReady
<1>. QED BY <1>3, <1>4, <1>6, <1>7, <1>8 DEF ScriptsInv

LEMMA StartKeeps ==
  ASSUME ScriptsAssumption, ScriptsInv, NEW tags \in net.requests, StartRun(tags)
  PROVE  ScriptsInv'
<1>1. outcome # "running" /\ outcome' = "running" /\ request' = tags /\ plan' = OrderOn(net, tags) /\ step' = 1
      /\ UNCHANGED <<net, code, chainVars, crashes, hit, settled>>
  BY DEF StartRun, Idle
<1>2. records' = records /\ inited' = inited /\ proxied' = proxied /\ code' = code /\ net' = net
  BY <1>1 DEF chainVars
<1>3. net \in NetworksToCome /\ tags \in net.requests \cup {{}}
  BY DEF ScriptsInv, PlanInv
<1> DEFINE order == OrderOn(net, tags)
           R == {i \in DOMAIN Files : RunsOn(net, i)}
<1>4. order \in Seq(R)
  BY <1>3, OrderIs
<1>5. Whole' = order /\ plan' = order
  BY <1>1, <1>2 DEF Whole
<1>6. R \subseteq DOMAIN Files
  OBVIOUS
<1> HIDE DEF order, R
<1>7. /\ Len(order) \in Nat /\ DOMAIN order = 1..Len(order) /\ order \in Seq(DOMAIN Files)
      /\ order # <<>> => Head(order) \in DOMAIN Files
  BY <1>4, <1>6
<1>8. Behind' = 0
  BY <1>5, <1>7 DEF Behind
<1>9. PlanInv'
  <2>1. order # <<>> => 1 \in Lines(Head(order))
    BY <1>7, LinesAre
  <2>2. \A q \in 1..Len(order) : order[q] = order[0 + q]
    BY <1>7
  <2>3. Len(order) <= Len(order)
    BY <1>7
  <2>. QED BY <1>1, <1>2, <1>3, <1>5, <1>7, <1>8, <2>1, <2>2, <2>3 DEF PlanInv
<1>10. DoneInv'
  <2>1. SUFFICES ASSUME NEW q \in DOMAIN order, NEW k \in Lines(order[q]), Passed(q, k)' PROVE FALSE
    BY <1>5 DEF DoneInv
  <2>2. order[q] \in DOMAIN Files
    BY <1>4, <1>6
  <2>3. q \in Nat /\ q >= 1 /\ k \in Nat /\ k >= 1
    BY <1>7, <2>2, LinesAre
  <2>4. q <= 0 \/ (q = 1 /\ k < 1)
    BY <1>1, <1>8, <2>1 DEF Passed
  <2>. QED BY <2>3, <2>4
<1>11. HereInv'
  <2>1. SUFFICES ASSUME NEW f \in DOMAIN Files, NEW n \in Lines(f), Here(f, n)'
        PROVE
          /\ \A m \in Lines(f) : ~(m < n)
          /\ \A m \in Lines(f) : n <= m
    BY DEF HereInv
  <2>2. n = 1 /\ \A m \in Lines(f) : m \in Nat /\ m >= 1
    BY <1>1, <2>1, LinesAre DEF Here
  <2>. QED BY <2>2
<1>12. RecordsInv'
  BY <1>2 DEF ScriptsInv, RecordsInv
<1>13. \A f, m : ~Here(f, m)
  BY <1>1 DEF Here
<1>14. InitedInv'
  BY <1>1, <1>2, <1>13 DEF ScriptsInv, InitedInv
<1>15. LinkInv'
  <2>1. SUFFICES ASSUME settled, NEW f \in DOMAIN Files, NEW m \in Lines(f), Line(f, m).op = "link",
                        RunsOn(net, f), Line(f, m).name \in DOMAIN records
                 PROVE  UpToDate(Line(f, m))'
    BY <1>1, <1>2 DEF LinkInv
  <2>2. UpToDate(Line(f, m))
    BY <2>1 DEF ScriptsInv, LinkInv
  <2>. QED BY <1>2, <2>2, UpToDateStays
<1>16. FailureIsExplained' /\ SuccessMeansReady'
  BY <1>1 DEF FailureIsExplained, SuccessMeansReady
<1>. QED BY <1>9, <1>10, <1>11, <1>12, <1>14, <1>15, <1>16 DEF ScriptsInv

LEMMA EditKeeps ==
  ASSUME ScriptsInv, NEW n \in Editable, Edit(n)
  PROVE  ScriptsInv'
<1>1. outcome # "running" /\ settled' = FALSE
      /\ UNCHANGED <<net, chainVars, request, plan, step, outcome, crashes, runs, hit>>
  BY DEF Edit, Idle
<1>2. records' = records /\ inited' = inited /\ proxied' = proxied
  BY <1>1 DEF chainVars
<1>3. PlanInv' /\ DoneInv' /\ HereInv' /\ LinkInv'
  BY <1>1 DEF ScriptsInv, PlanInv, DoneInv, HereInv, Here, LinkInv
<1>4. RecordsInv'
  BY <1>1, <1>2 DEF ScriptsInv, RecordsInv
<1>5. \A f, m : ~Here(f, m)
  BY <1>1 DEF Here
<1>6. InitedInv'
  BY <1>1, <1>2, <1>5 DEF ScriptsInv, InitedInv
<1>7. FailureIsExplained' /\ SuccessMeansReady'
  BY <1>1, <1>2 DEF ScriptsInv, FailureIsExplained, SuccessMeansReady
<1>. QED BY <1>3, <1>4, <1>6, <1>7 DEF ScriptsInv

\* Fewer scripts run, those left as before.
LEMMA RetireKeeps ==
  ASSUME ScriptsInv, Retire
  PROVE  ScriptsInv'
<1>1. outcome # "running" /\ net.past /\ net' = AsNow(net)
      /\ UNCHANGED <<code, chainVars, request, plan, step, outcome, crashes, runs, hit, settled>>
  BY DEF Retire, Idle
<1>2. records' = records /\ inited' = inited /\ proxied' = proxied /\ code' = code
  BY <1>1 DEF chainVars
<1>3. net' \in NetworksToCome
  <2>1. net \in NetworksToCome
    BY DEF ScriptsInv, PlanInv
  <2>2. CASE net \in Networks
    BY <1>1, <2>2 DEF NetworksToCome
  <2>3. ASSUME NEW n \in Networks, net = AsNow(n) PROVE net' \in NetworksToCome
    <3>1. AsNow(AsNow(n)) = AsNow(n)
      BY DEF AsNow
    <3>. QED BY <1>1, <2>3, <3>1 DEF NetworksToCome
  <2>. QED BY <2>1, <2>2, <2>3 DEF NetworksToCome
<1>4. ASSUME NEW f, RunsOn(net', f) PROVE RunsOn(net, f)
  BY <1>1, <1>4 DEF RunsOn, AsNow
<1>5. Unread(net) \subseteq Unread(net')
  BY <1>1 DEF Unread
<1>6. PlanInv' /\ DoneInv' /\ HereInv'
  BY <1>1, <1>3 DEF PlanInv, DoneInv, HereInv, Here
<1>7. RecordsInv'
  BY <1>2 DEF ScriptsInv, RecordsInv
<1>8. \A f, m : ~Here(f, m)
  BY <1>1 DEF Here
<1>9. InitedInv'
  BY <1>1, <1>2, <1>8 DEF ScriptsInv, InitedInv
<1>10. LinkInv'
  <2>1. SUFFICES ASSUME settled, NEW f \in DOMAIN Files, NEW m \in Lines(f), Line(f, m).op = "link",
                        RunsOn(net', f), Line(f, m).name \in DOMAIN records
                 PROVE  UpToDate(Line(f, m))'
    BY <1>1, <1>2 DEF LinkInv
  <2>2. UpToDate(Line(f, m))
    BY <1>4, <2>1 DEF ScriptsInv, LinkInv
  <2>. QED BY <1>2, <2>2, UpToDateStays
<1>11. FailureIsExplained'
  BY <1>1, <1>2 DEF ScriptsInv, FailureIsExplained
<1>12. SuccessMeansReady'
  <2>1. SUFFICES ASSUME outcome = "ok", request = {}, NEW i \in DOMAIN Files, NEW k \in DOMAIN Files[i].steps,
                        Files[i].steps[k].op \in {"init", "initUnlessSet"}, RunsOn(net', i)
                 PROVE  Files[i].steps[k].name \in inited \cup (hit \cap Unread(net'))
    BY <1>1, <1>2 DEF SuccessMeansReady
  <2>2. Files[i].steps[k].name \in inited \cup (hit \cap Unread(net))
    BY <1>4, <2>1 DEF ScriptsInv, SuccessMeansReady
  <2>. QED BY <1>5, <2>2
<1>. QED BY <1>6, <1>7, <1>9, <1>10, <1>11, <1>12 DEF ScriptsInv

LEMMA ScriptsStart == Init => ScriptsInv
<1>1. SUFFICES ASSUME Init PROVE ScriptsInv
  OBVIOUS
<1>2. net \in NetworksToCome /\ DOMAIN records = {} /\ inited = {} /\ outcome = "none" /\ settled = FALSE
  BY <1>1 DEF Init, NoRecords, NetworksToCome
<1>. QED BY <1>2 DEF ScriptsInv, PlanInv, DoneInv, HereInv, Here, RecordsInv, InitedInv, LinkInv,
                     FailureIsExplained, SuccessMeansReady

LEMMA ScriptsKeep ==
  ASSUME ScriptsAssumption, ScriptsInv, [Next]_vars
  PROVE  ScriptsInv'
<1>1. CASE UNCHANGED vars
  <2>1. /\ net' = net /\ code' = code /\ records' = records /\ proxied' = proxied /\ inited' = inited
        /\ request' = request /\ plan' = plan /\ step' = step /\ outcome' = outcome /\ hit' = hit
        /\ settled' = settled
    BY <1>1 DEF vars, chainVars
  <2>2. Whole' = Whole /\ Behind' = Behind
    BY <2>1 DEF Whole, Behind
  <2>3. PlanInv' /\ RecordsInv' /\ FailureIsExplained' /\ SuccessMeansReady'
    BY <2>1, <2>2 DEF ScriptsInv, PlanInv, RecordsInv, FailureIsExplained, SuccessMeansReady
  <2>4. ASSUME NEW f, NEW m PROVE UpToDate(Line(f, m))' <=> UpToDate(Line(f, m))
    BY <2>1, UpToDateStays
  <2>5. LinkInv'
    BY <2>1, <2>4 DEF ScriptsInv, LinkInv
  <2>6. ASSUME NEW f, NEW m PROVE (Here(f, m)' <=> Here(f, m)) /\ (Passed(f, m)' <=> Passed(f, m))
    BY <2>1, <2>2 DEF Here, Passed
  <2>7. HereInv' /\ InitedInv'
    BY <2>1, <2>6 DEF ScriptsInv, HereInv, InitedInv
  <2>8. DoneInv'
    <3>1. SUFFICES ASSUME outcome = "running", NEW q \in DOMAIN Whole, NEW k \in Lines(Whole[q]), Passed(q, k)
                   PROVE  /\ Makes(Line(Whole[q], k)) => Line(Whole[q], k).name \in DOMAIN records
                          /\ Inits(Line(Whole[q], k)) /\ (\A o \in Lines(Whole[q]) : Line(Whole[q], o).op # "once")
                               => Line(Whole[q], k).name \in inited
                          /\ request = {} /\ Line(Whole[q], k).op = "link" => UpToDate(Line(Whole[q], k))'
      BY <2>1, <2>2, <2>6 DEF DoneInv
    <3>2. PICK f \in {Whole[q]} : TRUE
      OBVIOUS
    <3>3. UpToDate(Line(f, k))' <=> UpToDate(Line(f, k))
      BY <2>4
    <3>4. UpToDate(Line(Whole[q], k)) => UpToDate(Line(Whole[q], k))'
      BY <2>2, <3>2, <3>3 DEF UpToDate
    <3>. QED BY <3>1, <3>4 DEF ScriptsInv, DoneInv
  <2>. QED BY <2>3, <2>5, <2>7, <2>8 DEF ScriptsInv
<1>2. CASE \E tags \in net.requests : StartRun(tags)
  BY <1>2, StartKeeps
<1>3. CASE \E n \in Editable : Edit(n)
  BY <1>3, EditKeeps
<1>4. CASE Statement
  BY <1>4, StatementKeeps
<1>5. CASE Fail
  BY <1>5, FailedRunKeeps
<1>6. CASE Finish
  BY <1>6, FinishKeeps
<1>7. CASE Crash
  BY <1>7, CrashKeeps
<1>8. CASE Retire
  BY <1>8, RetireKeeps
<1>. QED BY <1>1, <1>2, <1>3, <1>4, <1>5, <1>6, <1>7, <1>8 DEF Next

-----------------------------------------------------------------------------
\* A behaviour is about one task, and what the others' steps leave alone.
ReleaseInv ==
  /\ task = "deployment" => ScriptsInv
  /\ task = "information" => InformationInv
  /\ task = "verification" => VerificationInv

LEMMA ReleaseStarts == ASSUME ReleaseAssumptions, ReleaseInit PROVE ReleaseInv
<1>1. task = "information" => InformationInv
  BY InitInformationInv DEF ReleaseInit
<1>2. task = "verification" => VerificationInv
  BY InitVerificationInv DEF ReleaseInit, ReleaseAssumptions
<1>3. task = "deployment" => ScriptsInv
  BY ScriptsStart DEF ReleaseInit
<1>. QED BY <1>1, <1>2, <1>3 DEF ReleaseInv

LEMMA ReleaseKeeps == ASSUME ReleaseAssumptions, ReleaseInv, [ReleaseNext]_releaseVars PROVE ReleaseInv'
<1>1. task' = task
  BY DEF ReleaseNext, releaseVars
<1>2. ASSUME task = "information", InformationInv PROVE InformationInv'
  <2>1. CASE information!Next
    BY <1>2, <2>1, InformationStep
  <2>2. CASE UNCHANGED informationVars
    BY <1>2, <2>2, InformationRest DEF informationVars
  <2>. QED BY <1>2, <2>1, <2>2 DEF ReleaseNext, releaseVars
<1>3. ASSUME task = "verification", VerificationInv PROVE VerificationInv'
  <2>1. CASE verification!Next
    BY <1>3, <2>1, StepKeeps DEF ReleaseAssumptions
  <2>2. CASE UNCHANGED verificationVars
    BY <1>3, <2>2, RestKeeps DEF verificationVars
  <2>. QED BY <1>3, <2>1, <2>2 DEF ReleaseNext, releaseVars
<1>4. ASSUME task = "deployment", ScriptsInv PROVE ScriptsInv'
  <2>1. [Next]_vars
    BY <1>4 DEF ReleaseNext, releaseVars, deploymentVars
  <2>. QED BY <1>4, <2>1, ScriptsKeep DEF ReleaseAssumptions
<1>. QED BY <1>1, <1>2, <1>3, <1>4 DEF ReleaseInv

LEMMA ReleaseIsSafe == ReleaseSpec => []ReleaseInv
<1>1. ReleaseInit => ReleaseInv
  BY ReleaseAssumptions, ReleaseStarts
<1>2. ReleaseInv /\ [ReleaseNext]_releaseVars => ReleaseInv'
  BY ReleaseAssumptions, ReleaseKeeps
<1>. QED BY <1>1, <1>2, PTL DEF ReleaseSpec

\* THEOREM.  With no name given, what the plugin finds is the source of the
\* contract whenever the search can see it, and the links it submits name each
\* library of the contract, at the address the deployed code calls or where
\* the user said: for all artifacts, deployments and dictionaries of libraries.
THEOREM FoundIsTheSource == ReleaseSpec => []InformationIsTrue
<1>1. ReleaseInv => InformationIsTrue
  BY ReleaseAssumptions, InformationHolds DEF ReleaseInv, InformationIsTrue
<1>. QED BY <1>1, ReleaseIsSafe, PTL

\* THEOREM.  A sound request for information is never refused, in whatever case
\* the addresses are written and in whatever order the libraries are given.
THEOREM SoundRequestsPass == ReleaseSpec => []SoundIsAccepted
<1>1. ReleaseInv => SoundIsAccepted
  BY DEF ReleaseInv, InformationInv, SoundIsAccepted
<1>. QED BY <1>1, ReleaseIsSafe, PTL

\* THEOREM.  What verify.ts reports of a contract is so, however many runs
\* there are, in whatever order the explorer judges their jobs, and whenever
\* requests fail or the sources are edited.
THEOREM OutcomesTrue == ReleaseSpec => []OutcomesAreTrue
<1>1. ReleaseInv => OutcomesAreTrue
  BY DEF ReleaseInv, VerificationInv, OutcomesAreTrue
<1>. QED BY <1>1, ReleaseIsSafe, PTL

\* THEOREM.  After a full run that succeeds, and until a source is changed,
\* every library and implementation on record whose script runs on the network
\* is of the newest source and linked with the newest libraries, on any network,
\* whatever was deployed, edited, cut off and retired before.
THEOREM NewestLinked == ReleaseSpec => []NewestIsLinked
<1>1. ReleaseInv => NewestIsLinked
  BY LinkedIs DEF ReleaseInv, ScriptsInv, NewestIsLinked
<1>. QED BY <1>1, ReleaseIsSafe, PTL

\* THEOREM.  A run of the scripts fails for two reasons only: it was asked for
\* one of the scripts without dependencies, or a run before was cut off while
\* it deployed a strategy.
THEOREM FailuresExplained == ReleaseSpec => []FailureHasReason
<1>1. ReleaseInv => FailureHasReason
  BY DEF ReleaseInv, ScriptsInv, FailureHasReason
<1>. QED BY <1>1, ReleaseIsSafe, PTL

\* THEOREM.  A full run without an error leaves every strategy initialised,
\* but for those a run was cut off at and that no script calls later.
THEOREM SuccessReady == ReleaseSpec => []SuccessIsReady
<1>1. ReleaseInv => SuccessIsReady
  BY DEF ReleaseInv, ScriptsInv, SuccessIsReady
<1>. QED BY <1>1, ReleaseIsSafe, PTL
=============================================================================
