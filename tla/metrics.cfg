SPECIFICATION Spec
CONSTANTS
  Goroutines = {g1, g2}
  SubBits = 1
  Width = 3
  Sizes = {1}
  Requests <- MCRequests
  PolicyNames = {lru}
  NoPolicy = none
  MaxCalls = 3
  MaxOther = 1
INVARIANTS
  LosslessAtRest
  SnapshotNeverOvercounts
  QuantileFound
  QuantileRanked
  ResetDriftBounded
  WideBucketsSound
SYMMETRY Symmetry
CHECK_DEADLOCK FALSE
