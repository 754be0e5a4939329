SPECIFICATION Spec
CONSTANTS
  Pool = {"p", "q"}
  InitialPools = {"p"}
  MAX_CANONICAL_BURST = 1
  Preconfirmations = FALSE
  ContinueCanonical = FALSE
  Reorgs = FALSE
  EngineFaults = FALSE
  OwnerFaults = TRUE
  MaxLineage = 1
  MaxBlocks = 3
  MaxRequests = 1
INVARIANTS
  StrandedIsFenced
CHECK_DEADLOCK FALSE
