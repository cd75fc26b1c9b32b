\* A stable pool: one spacing wide, fuse in use, every operator call
SPECIFICATION Spec
CONSTANTS
  Ticks <- MCTicksNarrow
  Prices <- MCPrices
  PoolPriceAt <- MCPoolPriceNarrow
  IsStablePool = TRUE
  TickSpacing = 2
  TickRange = 0
  RebalanceTickRange = 0
  InitThresholds <- MCThresholds
  ThresholdChoices <- MCThresholdChoices
  ManualStatuses = {0, 1, 2, 3}
  Balances = {0, 1}
  LiquidationThreshold = 1
  MaxLiquidity = 2
INVARIANTS TypeOK LiquidityIsTracked
PROPERTIES ImplementsPoolPosition FuseEmptiesPool WithdrawDoneAfterRepay
