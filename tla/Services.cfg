SPECIFICATION ServicesSpec
CONSTANTS
  Capacity = 1
  ObserverCapacity = 1
  MaxVersion = 3
  MaxSequence = 3
  MaxDepth = 2
  Classes = 3
  JobsPerClass = 2
  PRIORITY_BURST_QUANTA = 2
  Batches <- MCBatches
  WordPositions = {0, 1}
  Radius = 0
  MaxRounds = 3
  MaxFaults = 1
INVARIANTS
  ConsumerMissesNothing
  PreviewIsolated
PROPERTIES
  ShutdownReleases
  ServiceUnderOneClass
  JobEnds
CHECK_DEADLOCK FALSE
