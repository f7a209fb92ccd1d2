CONSTANTS
  Item = {v, w}
  Garbage = Garbage
  ItemSize = 3
  InitCapacity = 1
  Usize = 32
SPECIFICATION Spec
INVARIANTS
  TypeOK
  RoomForItems
  UndefinedOnlyAtUsize
PROPERTY ImplementsList
CHECK_DEADLOCK FALSE
