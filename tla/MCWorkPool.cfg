CONSTANTS
  NULL = NULL
  Sockets = {s1}
  MaxItems = 5
  Depth = 2

SPECIFICATION Spec

INVARIANTS
  PoolTypeOK
  FreeIdsAreTheEmptySlots
  InUseItemsOwnTheirSlot
PROPERTIES
  GrowsOnlyWhenFull
  ImplementsIdAllocator

CHECK_DEADLOCK FALSE
