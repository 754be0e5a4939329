SPECIFICATION FairSpec
CONSTANTS
  Block <- ForkBlocks
  Genesis = "G"
  Parent <- ForkParent
  Number <- ForkNumber
  Chain <- ForkChain
  Stream = {"s"}
  Log <- ForkLogs
  LogBlock <- ForkLogBlock
  LogStream <- ForkLogStream
  BloomAdmits <- ForkBloom
  Source = "Reconcile"
  InitialInterests = {"s"}
  Removable = {"s"}
  Retained = 2
  RacingReorgs = TRUE
  SkipsHeaders = TRUE
  MaxSwitches = 2
  MaxHeaders = 4
  MaxBatch = 2
  MaxLost = 1
  MaxTopology = 1
INVARIANTS
  SealedComplete
PROPERTIES
  Converges
CHECK_DEADLOCK FALSE
