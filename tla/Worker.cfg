SPECIFICATION FairSpec
CONSTANTS
  Classes = 2
  PRIORITY_BURST_QUANTA = 1
  Work = {"a", "b", "c"}
  ClassOf <- MCClassOf
  ColdStarts = {"a"}
  Batches <- MCBatches
  queue_capacity = 2
  max_concurrency = 1
  MaxRound = 1
  Faults = TRUE
INVARIANTS
  SlotsAccounted
  HandoffFreesSlot
  NothingLeftBehind
  CancelledStaysCancelled
PROPERTIES
  AttemptsEnd
  ShutdownCompletes
CHECK_DEADLOCK FALSE
