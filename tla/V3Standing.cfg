SPECIFICATION Spec
CONSTANTS
  Q = 8
  G = 16
  Denominator = 8
  Ratios <- PriceTable
  MinTick <- LowestTick
  WordTicks = 2
  Fee = 1
  UnstakedFee = 2
  RewardSeeded = TRUE
  RewardRate = 2
  MaxPerTick = 32
  GrowthMod = 32
  FeeMod = 8
  CumMod = 32
  MaxCardinality = 2
  Fees = {1, 2}
  MaxSwapFee = 3
  MaxSwapSteps = 8
  Amounts = {1, 5, 9}
  Limits = {4, 9, 15}
  Ranges <- PositionRanges
  MintAmounts = {16}
  Radii = {0, 1}
  MaxEvents = 2
  StartPrices <- Starts
INVARIANTS
  StandingSwapReplays
CHECK_DEADLOCK FALSE
