SPECIFICATION FairSpec
CONSTANTS
  k0 = k0
  k2 = k2
  Keys = {k1, k2}
  KeyLen <- MCKeyLen
  Capacity = 2
  MaxInt = 7
  Threads = {t1, t2}
  Policies = {p1}
  NoPolicy = NoPolicy
  Free = Free
  Sizes = {1, 2}
  SampleRate = 2
  AdmitAnswers <- MCTrue
  VictimMayFail = TRUE
  InitTracked <- MCReused
  MaxSeq = 2
INVARIANTS
  ResidentTracked
PROPERTIES
  CallsReturn
