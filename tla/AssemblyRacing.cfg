SPECIFICATION Spec
CONSTANTS
  Block <- ForkBlocks
  Genesis = "G"
  Parent <- ForkParent
  Number <- ForkNumber
  Chain <- ForkChain
  Stream = {"s"}
  Log <- ForkLogs
  LogBlock <- ForkLogBlock
  LogStream <- ForkLogStream
  BloomAdmits <- ForkBloom
  Source = "Subscription"
  InitialInterests = {"s"}
  Removable = {}
  Retained = 2
  RacingReorgs = TRUE
  SkipsHeaders = FALSE
  MaxSwitches = 3
  MaxHeaders = 3
  MaxBatch = 2
  MaxLost = 0
  MaxTopology = 0
INVARIANTS
  SealedComplete
CHECK_DEADLOCK FALSE
