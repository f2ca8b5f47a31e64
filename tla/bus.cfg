SPECIFICATION Spec
CONSTANTS
  hit = hit
  Unknown = Unknown
  Types <- MCTypes
  Publishers = {t1, t2}
  Names = {n1, n2}
  Buffers <- MCBuffers
  Filters <- MCFilters
  MaxEvents = 3
  MaxSubs = 2
INVARIANTS
  NeverPanics
  OpenIffRegistered
  EveryEventAccounted
PROPERTIES
  PublishReturns
