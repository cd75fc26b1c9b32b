\* Liveness: a stable pool several spacings wide, strictly ordered thresholds,
\* and an operator who does not overrule the fuse by hand
SPECIFICATION FairSpec
CONSTANTS
  Ticks <- MCTicksFair
  Prices <- MCPrices
  PoolPriceAt <- MCPoolPriceFair
  IsStablePool = TRUE
  TickSpacing = 2
  TickRange = 2
  RebalanceTickRange = 2
  InitThresholds <- MCThresholds
  ThresholdChoices <- MCThresholdsStrict
  ManualStatuses = {}
  Balances = {1}
  LiquidationThreshold = 1
  MaxLiquidity = 1
PROPERTIES RebalanceSettles
