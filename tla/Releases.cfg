SPECIFICATION ReleaseSpec
CONSTANTS
  Networks <- MCNetworks
  Editable <- MCEditable
  MaxCrashes = 1
  MaxEdits = 1
  Artifacts <- ArtifactsDef
  Compilers <- CompilersDef
  Deployments <- DeploymentsDef
  UserInputs <- UserInputsDef
  Verifiers = {"v1", "v2"}
  Listed <- ListedDef
  OnRecord = {"Lib", "Strategy"}
  Broken = {"Lib"}
CHECK_DEADLOCK FALSE
INVARIANTS
  NewestIsLinked
  SuccessIsReady
  FailureHasReason
  InformationIsTrue
  SoundIsAccepted
  OutcomesAreTrue
