SPECIFICATION Spec
SYMMETRY Symmetry
CONSTANTS
  Keys = {a, b}
  Families = {"f"}
  FamilyOf <- KeyFamilies
  Slots = {"v1", "p1"}
  AddressOf <- SlotAddresses
  Dependencies <- Declarations
  Statuses = {"Ready", "Degraded"}
  MaxGeneration = 1
  MaxAdapterGeneration = 1
  JournalDepth = 1
  PointChecked = TRUE
INVARIANTS
  StructuresAgree
  EvictedStaysGone
PROPERTIES
  EvictionSparesLiving
CHECK_DEADLOCK FALSE
