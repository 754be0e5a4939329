SPECIFICATION Spec
CONSTANTS
  Classes = 3
  JobsPerClass = 1
  PRIORITY_BURST_QUANTA = 2
PROPERTY
  EventualService
