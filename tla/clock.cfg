SPECIFICATION Spec
CONSTANTS
  Keys = {a, b, c}
  EmptyKey = EmptyKey
  MaxBatch = 4
INVARIANTS
  RingConsistent
  FreeSlotExists
PROPERTIES
  SecondChance
  ImplementsContract
  WalksMatchLoops
