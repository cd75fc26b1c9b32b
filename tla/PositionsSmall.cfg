\* A strategy worth three thresholds: withdrawing nearly all of it
SPECIFICATION Spec
CONSTANTS
  One = 100
  NoLimit = 1000000
  DustAmount = 2
  Threshold <- MCThreshold
  Prices <- MCPrices
  Props = {0, 50}
  Deposits = {60}
  Withdrawals = {55}
  Additions = {0, 30}
  Steps <- MCSteps
  RouteAmounts = {30}
  Slippages = {3}
  LoanToValue = 70
  Available = {3000, 1000000}
  DebtGap = 1
  MaxDeepRecursion = 2
  MaxCalls = 2
CHECK_DEADLOCK FALSE
PROPERTIES WithdrawalLeavesMeans
