SPECIFICATION Spec
CONSTANTS
  EmptyKey = EmptyKey
  Keys = {EmptyKey, a, b, c}
  MaxBatch = 1
INVARIANTS
  FreeSlotExists
