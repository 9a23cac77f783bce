SPECIFICATION Spec
CONSTANTS
  o1 = o1
  o2 = o2
  o3 = o3
  None = None
  Obj <- MCObj
  MaxRefs = 2
  BaseCount = 1
  RecLimit = 1
  Mark <- MCMark
SYMMETRY Symmetry
INVARIANTS
  TypeOK RefcountsExact ListsSound
PROPERTIES
  FinalizedFirst RescueJustified ImplementsMemory
CHECK_DEADLOCK FALSE
