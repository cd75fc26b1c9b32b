------------------------------ MODULE Releases ------------------------------
(***************************************************************************)
(* A release: the deployment of the contracts, finding out what a deployed *)
(* contract was compiled from, and its verification at the block explorer. *)
(* The three are tasks of hardhat that an operator starts by themselves: a *)
(* behaviour looks at one of them, the task of its first state, and the    *)
(* variables of the others rest.                                           *)
(***************************************************************************)
EXTENDS StrategyDeployment

CONSTANTS
  Artifacts, Compilers, Deployments, UserInputs,   \* as in ContractInformation
  Verifiers, Listed, OnRecord, Broken              \* as in ContractVerification

VARIABLES
  task,
  \* information
  compilers, deployed, wanted, userLibraries, pc, cursor, matches, normalized, submitted, error,
  \* verification
  configured, known, reproducible, edited, verifier, jobs, verified

deploymentVars == vars
informationVars ==
  <<compilers, deployed, wanted, userLibraries, pc, cursor, matches, normalized, submitted, error>>
verificationVars == <<configured, known, reproducible, edited, verifier, jobs, verified>>
releaseVars == <<task, deploymentVars, informationVars, verificationVars>>

-----------------------------------------------------------------------------
information == INSTANCE ContractInformation WITH
  i <- cursor, libraries <- submitted

verification == INSTANCE ContractVerification

ASSUME ReleaseAssumptions ==
  /\ information!ArtifactsAssumption
  /\ information!DeploymentsAssumption
  /\ verification!OnRecordAssumption
  /\ ScriptsAssumption

-----------------------------------------------------------------------------
Off == 0

DeploymentRests ==
  /\ net = Off /\ code = Off /\ records = Off /\ proxied = Off /\ inited = Off
  /\ created = Off /\ request = Off /\ plan = Off /\ step = Off /\ outcome = Off
  /\ crashes = Off /\ runs = Off /\ hit = Off /\ settled = Off
InformationRests ==
  /\ compilers = Off /\ deployed = Off /\ wanted = Off /\ userLibraries = Off /\ pc = Off /\ cursor = Off
  /\ matches = Off /\ normalized = Off /\ submitted = Off /\ error = Off
VerificationRests ==
  /\ configured = Off /\ known = Off /\ reproducible = Off /\ edited = Off
  /\ verifier = Off /\ jobs = Off /\ verified = Off

ReleaseInit ==
  \/ task = "deployment" /\ Init /\ InformationRests /\ VerificationRests
  \/ task = "information" /\ information!Init /\ DeploymentRests /\ VerificationRests
  \/ task = "verification" /\ verification!Init /\ DeploymentRests /\ InformationRests

ReleaseNext ==
  \/ task = "deployment" /\ Next /\ UNCHANGED <<task, informationVars, verificationVars>>
  \/ task = "information" /\ information!Next /\ UNCHANGED <<task, deploymentVars, verificationVars>>
  \/ task = "verification" /\ verification!Next /\ UNCHANGED <<task, deploymentVars, informationVars>>

ReleaseSpec == ReleaseInit /\ [][ReleaseNext]_releaseVars

-----------------------------------------------------------------------------
\* hardhat deploy: what is linked is the newest.
NewestIsLinked == task = "deployment" => LinkedToNewest

\* hardhat deploy: a run without an error leaves every strategy initialised.
SuccessIsReady == task = "deployment" => SuccessMeansReady

\* hardhat deploy: a run fails for two reasons only.
FailureHasReason == task = "deployment" => FailureIsExplained

\* verify1:etherscan-get-contract-information: the source and its links.
InformationIsTrue == task = "information" => information!InformationIsTrue

\* The same: a sound request is never refused.
SoundIsAccepted == task = "information" => information!SoundIsAccepted

\* verify.ts: what the script reports is so.
OutcomesAreTrue == task = "verification" => verification!OutcomesAreTrue
=============================================================================
