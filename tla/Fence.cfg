SPECIFICATION FairSpec
CONSTANTS
  Pool = {"p", "q"}
  InitialPools = {"p"}
  MAX_CANONICAL_BURST = 2
  Preconfirmations = TRUE
  ContinueCanonical = TRUE
  Reorgs = TRUE
  EngineFaults = TRUE
  OwnerFaults = TRUE
  MaxLineage = 1
  MaxBlocks = 2
  MaxRequests = 2
INVARIANTS
  NoMismatch
  TopologyAgrees
  NeverStranded
PROPERTIES
  HandshakeWithoutPreview
  OrphansRemoved
CHECK_DEADLOCK FALSE
