SPECIFICATION Spec
CONSTANTS
  k0 = k0
  k2 = k2
  Keys = {k0, k1, k2}
  KeyLen <- MCKeyLen
  Capacity = 2
  MaxInt = 7
  Threads = {t1, t2}
  Policies = {p1}
  NoPolicy = NoPolicy
  Free = Free
  Sizes <- MCSizes
  SampleRate = 2
  AdmitAnswers <- MCBoolean
  VictimMayFail = FALSE
  InitTracked <- MCFresh
  MaxSeq = 3
SYMMETRY MCThreadSymmetry
INVARIANTS
  TypeOK
  BytesExact
  WithinCapacity
  PolicyTracksStore
  FetchedCoversResident
PROPERTIES
  ErrorsChangeNothing
