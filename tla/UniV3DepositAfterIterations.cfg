\* "Pass false to deposit after withdrawByAgg-iterations": both tokens are
\* always on balance in sufficient amounts
SPECIFICATION Spec
CONSTANTS
  Ticks <- MCTicksNarrow
  Prices <- MCPrices
  PoolPriceAt <- MCPoolPriceNarrow
  IsStablePool = TRUE
  TickSpacing = 2
  TickRange = 0
  RebalanceTickRange = 0
  InitThresholds <- MCThresholds
  ThresholdChoices <- MCThresholdsStrict
  ManualStatuses = {}
  Balances = {1}
  LiquidationThreshold = 1
  MaxLiquidity = 1
PROPERTIES DepositAfterIterations
