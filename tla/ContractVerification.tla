------------------------ MODULE ContractVerification ------------------------
(***************************************************************************)
(* The script that verifies the deployed contracts at the block explorer,  *)
(* one after the other (scripts/verify.ts), through the verification       *)
(* plugin: is the contract verified already; what was it compiled from     *)
(* (ContractInformation); submit a minimal compiler input made from the    *)
(* sources on disk; poll until the explorer has judged it; if it did not   *)
(* reproduce the code, submit the whole input of the build that did.       *)
(*                                                                         *)
(* Several people may run the script at once, and edit the sources while   *)
(* it runs.  The explorer is a queue of jobs; requests to it may fail,     *)
(* before or after it has taken the job.                                   *)
(***************************************************************************)
EXTENDS Integers, FiniteSets, Sequences

CONSTANTS Verifiers,      \* runs of the script
          Listed,          \* the contracts main() lists, in its order
          OnRecord,       \* those with a deployment record
          Broken          \* those whose minimal input never reproduces the code

Contracts == {Listed[k] : k \in DOMAIN Listed}

OnRecordAssumption ==
  Listed \in Seq(Contracts) /\ OnRecord \subseteq Contracts /\ Broken \subseteq Contracts

VARIABLES configured,   \* the chain is known and an API key given
          known,        \* contracts whose artifact is found, with its libraries
          reproducible, \* those the full input of the build reproduces
          edited,       \* the sources on disk are no longer the compiled ones
          verifier,     \* each run: where it is, which input it tried, what came out
          jobs,         \* the explorer's jobs
          verified      \* how each contract was verified: "no", "minimal", "full"
vars == <<configured, known, reproducible, edited, verifier, jobs, verified>>

Inputs == {"minimal", "full"}

Idle == [at |-> 1, pc |-> "next", input |-> "minimal", good |-> FALSE, job |-> 0,
         outcome |-> [c \in Contracts |-> "none"]]

Init ==
  /\ configured \in BOOLEAN
  /\ known \in SUBSET OnRecord /\ reproducible \in SUBSET OnRecord
  /\ edited = FALSE
  /\ verifier = [v \in Verifiers |-> Idle]
  /\ jobs = <<>>
  /\ verified \in [Contracts -> {"no", "full"}]
  /\ \A c \in Contracts \ OnRecord : verified[c] = "no"

Current(v) == Listed[verifier[v].at]
At(v, pc) == verifier[v].pc = pc /\ verifier[v].at <= Len(Listed)

\* Written down, and on to the next contract.
Conclude(v, outcome) ==
  verifier' = [verifier EXCEPT ![v] =
    [Idle EXCEPT !.at = verifier[v].at + 1,
                 !.outcome = [verifier[v].outcome EXCEPT ![Current(v)] = outcome]]]

GoTo(v, pc) == verifier' = [verifier EXCEPT ![v].pc = pc]

(* A contract without a deployment record is passed over. *)
SkipUndeployed(v) ==
  /\ At(v, "next") /\ Current(v) \notin OnRecord
  /\ Conclude(v, "skipped")
  /\ UNCHANGED <<configured, known, reproducible, edited, jobs, verified>>

(* Chain config and key, then isVerified: it says no as well when the explorer
   answers anything but OK, and the run goes on with a contract that is verified. *)
CheckVerified(v) ==
  /\ At(v, "next") /\ Current(v) \in OnRecord
  /\ \/ ~configured /\ Conclude(v, "error")
     \/ configured /\ verified[Current(v)] # "no" /\ Conclude(v, "verified")
     \/ configured /\ GoTo(v, "information")
     \/ configured /\ Conclude(v, "error")      \* the request fails
  /\ UNCHANGED <<configured, known, reproducible, edited, jobs, verified>>

GetInformation(v) ==
  /\ At(v, "information")
  /\ IF Current(v) \in known THEN GoTo(v, "input") ELSE Conclude(v, "error")
  /\ UNCHANGED <<configured, known, reproducible, edited, jobs, verified>>

MutReproducesFromDisk(c, input) ==
  c \in reproducible /\ ~edited /\ (input = "minimal" => c \notin Broken)

(* The minimal input is compiled from the sources as they are now; the full one
   is part of the build info the artifact was found with. *)
Reproduces(c, input) ==
  c \in reproducible /\ (input = "minimal" => ~edited /\ c \notin Broken)

MakeInput(v, input) ==
  verifier' = [verifier EXCEPT ![v].pc = "submit", ![v].input = input,
                               ![v].good = Reproduces(Current(v), input)]

(* The sources as they are now need not even resolve: then the run is over for
   the contract, and the full input is not tried. *)
GetMinimalInput(v) ==
  /\ At(v, "input")
  /\ \/ MakeInput(v, "minimal")
     \/ edited /\ Conclude(v, "error")
  /\ UNCHANGED <<configured, known, reproducible, edited, jobs, verified>>

Job(v) == [contract |-> Current(v), input |-> verifier[v].input,
           good |-> verifier[v].good, status |-> "pending"]

(* The explorer refuses what it has verified and what it does not know yet. *)
Submit(v) ==
  /\ At(v, "submit")
  /\ \/ /\ verified[Current(v)] = "no"
        /\ jobs' = Append(jobs, Job(v))
        /\ \/ verifier' = [verifier EXCEPT ![v].pc = "poll", ![v].job = Len(jobs) + 1]
           \/ Conclude(v, "error")              \* the answer is lost
     \/ UNCHANGED jobs /\ Conclude(v, "error")
  /\ UNCHANGED <<configured, known, reproducible, edited, verified>>

PollPending(v) ==
  /\ At(v, "poll") /\ jobs[verifier[v].job].status = "pending"
  /\ Conclude(v, "error")                       \* the request fails; else it sleeps and asks again
  /\ UNCHANGED <<configured, known, reproducible, edited, jobs, verified>>

(* A contract another job verified in between is neither a pass nor a fail. *)
PollAnswer(v) ==
  /\ At(v, "poll") /\ jobs[verifier[v].job].status # "pending"
  /\ LET status == jobs[verifier[v].job].status
     IN  \/ status = "pass" /\ Conclude(v, "verified")
         \/ status = "fail" /\ verifier[v].input = "minimal" /\ MakeInput(v, "full")
         \/ status = "fail" /\ verifier[v].input = "full" /\ Conclude(v, "failed")
         \/ status = "already" /\ Conclude(v, "error")
  /\ UNCHANGED <<configured, known, reproducible, edited, jobs, verified>>

Judge(j) ==
  /\ j \in DOMAIN jobs /\ jobs[j].status = "pending"
  /\ LET c == jobs[j].contract
     IN  \/ /\ verified[c] # "no"
            /\ jobs' = [jobs EXCEPT ![j].status = "already"] /\ UNCHANGED verified
         \/ /\ verified[c] = "no" /\ ~jobs[j].good
            /\ jobs' = [jobs EXCEPT ![j].status = "fail"] /\ UNCHANGED verified
         \/ /\ verified[c] = "no" /\ jobs[j].good
            /\ jobs' = [jobs EXCEPT ![j].status = "pass"]
            /\ verified' = [verified EXCEPT ![c] = jobs[j].input]
  /\ UNCHANGED <<configured, known, reproducible, edited, verifier>>

EditSources ==
  /\ ~edited /\ edited' = TRUE
  /\ UNCHANGED <<configured, known, reproducible, verifier, jobs, verified>>

Step(v) == \/ SkipUndeployed(v) \/ CheckVerified(v) \/ GetInformation(v) \/ GetMinimalInput(v)
           \/ Submit(v) \/ PollPending(v) \/ PollAnswer(v)

MaxJobs == 2 * Cardinality(Verifiers) * Len(Listed)

Ended(v) == verifier[v].at > Len(Listed)

Terminating == (\A v \in Verifiers : Ended(v)) /\ UNCHANGED vars

Next == (\E v \in Verifiers : Step(v)) \/ (\E j \in 1..MaxJobs : Judge(j))
        \/ EditSources \/ Terminating

Spec == Init /\ [][Next]_vars

-----------------------------------------------------------------------------
(* Types of the state; a contract is tried at most twice by each run. *)
TypeOK ==
  /\ \A v \in Verifiers :
       /\ verifier[v].at \in 1..(Len(Listed) + 1)
       /\ verifier[v].pc \in {"next", "information", "input", "submit", "poll"}
       /\ verifier[v].outcome \in
            [Contracts -> {"none", "skipped", "error", "verified", "failed"}]
       /\ verifier[v].job \in 0..Len(jobs)
  /\ Len(jobs) <= MaxJobs
  /\ verified \in [Contracts -> {"no", "minimal", "full"}]

(* What the script reports is so: a contract it calls verified is, and when the
   explorer has rejected one for good, nothing could have verified it, so that
   editing the sources while the script runs does not cost a verification. *)
OutcomesAreTrue ==
  \A v \in Verifiers, c \in Contracts :
    /\ verifier[v].outcome[c] = "verified" => verified[c] # "no"
    /\ verifier[v].outcome[c] = "failed" => c \notin reproducible
=============================================================================
