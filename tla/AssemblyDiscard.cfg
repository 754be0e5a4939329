SPECIFICATION Spec
CONSTANTS
  Block <- ForkBlocks
  Genesis = "G"
  Parent <- ForkParent
  Number <- ForkNumber
  Chain <- ForkChain
  Stream = {"s"}
  Log <- ForkLogs
  LogBlock <- ForkLogBlock
  LogStream <- ForkLogStream
  BloomAdmits <- ForkBloom
  Source = "Subscription"
  InitialInterests = {"s"}
  Removable = {}
  Retained = 3
  RacingReorgs = FALSE
  SkipsHeaders = TRUE
  MaxSwitches = 3
  MaxHeaders = 4
  MaxBatch = 2
  MaxLost = 1
  MaxTopology = 0
INVARIANT
  SealedComplete
CHECK_DEADLOCK FALSE
