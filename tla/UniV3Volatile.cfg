\* A volatile pool: several spacings wide, no automatic fuse
SPECIFICATION Spec
CONSTANTS
  Ticks <- MCTicksWide
  Prices <- MCPricesWide
  PoolPriceAt <- MCPoolPriceWide
  IsStablePool = FALSE
  TickSpacing = 2
  TickRange = 4
  RebalanceTickRange = 2
  InitThresholds <- MCNoThresholds
  ThresholdChoices = {}
  ManualStatuses = {0, 2}
  Balances = {0, 1, 2}
  LiquidationThreshold = 2
  MaxLiquidity = 2
PROPERTIES EntryInRange RebalanceCentersRange
