\* Three calls, amounts around 1000, thresholds of 20
SPECIFICATION Spec
CONSTANTS
  One = 100
  NoLimit = 1000000
  DustAmount = 2
  Threshold <- MCThreshold
  Prices <- MCPrices
  Props = {50, 100}
  Deposits = {1000}
  Withdrawals = {300, 1000000}
  Additions = {0, 30}
  Steps <- MCSteps
  RouteAmounts = {200}
  Slippages = {3}
  LoanToValue = 70
  Available = {3000, 1000000}
  DebtGap = 1
  MaxDeepRecursion = 2
  MaxCalls = 3
CHECK_DEADLOCK FALSE
INVARIANTS OneDirection ShortOnlyWhenStuck
PROPERTIES GapLeavesMeans CallEnds
