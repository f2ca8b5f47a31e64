SPECIFICATION Spec
CONSTANTS
  Keys = {a, b, c, d}
  MaxBatch = 5
INVARIANTS
  IndexMatchesList
  VictimLeastRecent
PROPERTIES
  ImplementsContract
