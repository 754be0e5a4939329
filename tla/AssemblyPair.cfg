SPECIFICATION FairSpec
CONSTANTS
  Block <- LineBlocks
  Genesis = "G"
  Parent <- LineParent
  Number <- LineNumber
  Chain <- LineChain
  Stream = {"s", "t"}
  Log <- PairLogs
  LogBlock <- PairLogBlock
  LogStream <- PairLogStream
  BloomAdmits <- PairBloom
  Source = "Subscription"
  InitialInterests = {"s"}
  Removable = {}
  Retained = 2
  RacingReorgs = FALSE
  SkipsHeaders = FALSE
  MaxSwitches = 3
  MaxHeaders = 3
  MaxBatch = 2
  MaxLost = 1
  MaxTopology = 1
INVARIANTS
  SealedComplete
PROPERTIES
  Converges
CHECK_DEADLOCK FALSE
