SPECIFICATION Spec
CONSTANTS
  g = g a1 = a1 a2 = a2 b2 = b2 p1 = p1 p2 = p2 s1 = s1 s2 = s2 s3 = s3
  Block <- MCBlock
  Genesis = g
  Parent <- MCParent
  Number <- MCNumber
  Pool <- MCPool
  Slot = {s1, s2, s3}
  SlotsOf <- MCSlotsOf
  Touch <- MCTouch
  Kinds <- MCFenceKinds
  Lazy <- MCNone
  Skipped <- MCNone
  Learned <- MCLearned
  Wide = {}
  Installed = {p2}
  Modes = {"live"}
  Jobs <- MCJobs
  Rounds = 2
  Retained = 2
  Faults = TRUE
  Budget = 2
INVARIANT
  FenceHolds
CHECK_DEADLOCK FALSE
