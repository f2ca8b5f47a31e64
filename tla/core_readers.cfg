SPECIFICATION ObsSpec
CONSTANTS
  Keys = {k1, k2}
  KeyLen <- MCKeyLen
  Capacity = 2
  MaxInt = 7
  Threads = {t1}
  Policies = {p1}
  NoPolicy = NoPolicy
  Free = Free
  Sizes = {2}
  SampleRate = 2
  AdmitAnswers <- MCTrue
  VictimMayFail = FALSE
  InitTracked <- MCFresh
  MaxSeq = 2
  Readers = {r1, r2}
  EntryCost = 10
  PolicyCost = 4
  MaxReads = 2
INVARIANTS
  QuietBreakdownExact
  FreshOccupancy
SYMMETRY MCReaderSymmetry
