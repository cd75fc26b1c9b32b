\* "Swap can give us more amount out than expected ... To prevent it": does a
\* withdraw step never raise the share price?
SPECIFICATION Spec
CONSTANTS
  Denominator = 4
  Gap = 2
  Tolerance = 2
  ReinvestPercent = 1
  LiquidationThreshold = 1
  Requests = {1, 2}
  MaxLoss = 1
  MaxGain = 1
  MaxReward = 1
  InitVault = 2
  InitInsurance = 1
  MaxTotal = 3
  MaxDebt = 2
PROPERTIES StepNeverRaisesSharePrice
