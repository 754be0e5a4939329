SPECIFICATION LiveSpec
CONSTANTS
  Capacity = 1
  ObserverCapacity = 1
  MaxVersion = 3
  MaxSequence = 3
  MaxDepth = 2
PROPERTIES
  ShutdownPrompt
CHECK_DEADLOCK FALSE
