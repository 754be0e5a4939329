SPECIFICATION Spec
CONSTANTS
  g = g a1 = a1 a2 = a2 d2 = d2 b1 = b1 c1 = c1 o1 = o1 o2 = o2 p1 = p1 ad = ad
  Block <- MCBlock
  Genesis = g
  Parent <- MCParent
  Adapter = {ad}
  Owner = {o1, o2}
  Pool = {p1}
  AdapterOf <- MCAdapterOf
  Logs <- MCLogs
  Limits <- MCLimits
  MaxGen = 2
  MaxPending = 1
  Budget = 6
INVARIANTS
  InUseIsActive
CHECK_DEADLOCK FALSE
