SPECIFICATION AdaptersSpec
CONSTANTS
  Q = 8
  G = 16
  Denominator = 8
  Ratios <- PriceTable
  MinTick <- LowestTick
  WordTicks = 2
  Fee = 1
  UnstakedFee = 2
  RewardSeeded = TRUE
  RewardRate = 2
  MaxPerTick = 32
  GrowthMod = 32
  FeeMod = 8
  CumMod = 32
  MaxCardinality = 2
  Fees = {1, 2}
  MaxSwapFee = 3
  MaxSwapSteps = 8
  Amounts = {1, 9}
  Limits = {4, 9, 15}
  Ranges <- PositionRanges
  MintAmounts = {16}
  Radii = {0, 1}
  MaxEvents = 2
  StartPrices <- Starts
  Portfolios <- MCPortfolios
  CashMax = 3
  Managed = {0}
  MaxLogs = 2
  Offered <- MCOffered
  Creatable <- MCCreatable
  Asked <- MCAsked
  EventFees = {0, 7}
  MaxPools = 2
  Batches <- MCBatches
  WordPositions = {0, 1}
  Radius = 0
  MaxRounds = 3
  MaxFaults = 1
  ArchiveChains = {1, 2}
  Keys = {1, 2}
  Encodable = {1}
  MaxRegistrations = 1
  Threads = {1, 2}
  MaxSaves = 2
  MaxFailures = 1
  MaxOutages = 2
INVARIANTS
  CacheExact
  CanonicalAccepted
  ReadyWordsCurrent
  ReadyIsExact
  NoUnverifiedCode
  DiscoveryExact
  ResumeSound
CHECK_DEADLOCK FALSE
