-------------------------------- MODULE LFU --------------------------------
(***************************************************************************)
(* The least-frequently-used policy with ageing (cache/policy/lfu.go): one *)
(* list of keys per frequency, an index from key to frequency, and a       *)
(* counter that triggers a halving of all frequencies.  Every method holds *)
(* p.mu throughout, so each is one action.  Go iterates a map in an        *)
(* unspecified order: where the code ranges over one, any order is taken.  *)
(***************************************************************************)
EXTENDS Integers, FiniteSets, SequencesExt

CONSTANTS
    Keys,
    MaxFreq,    \* maxLFUFreq
    Counts,     \* AccessCounts of the entries given to Rebuild
    DefaultLambda, \* defaultDecayLambda, in hundredths
    Lambdas,    \* values passed to SetParam("decay_lambda"), in hundredths
    MaxBatch    \* largest n passed to Candidates

VARIABLES
    buckets,    \* frequency -> keys at it, front first; no bucket is empty
    items,      \* key -> frequency
    n,          \* the entry count
    metadata,   \* the metadata bytes
    ageCnt,     \* accesses since the last halving
    ageMax,     \* accesses between halvings, 0 for never
    answer,     \* what the last Victim or Candidates returned
    older       \* history: <<a, b>> if a came to the frequency both have before b did,
                \* as far as the last ageing pass or rebuild

vars == <<buckets, items, n, metadata, ageCnt, ageMax, answer, older>>

lfuPerEntryBytes == 64

ASSUME KeysAssumption == IsFiniteSet(Keys)
ASSUME FreqAssumption == MaxFreq \in Nat \ {0} /\ Counts \subseteq Nat
ASSUME LambdaAssumption == DefaultLambda \in Int /\ Lambdas \subseteq Int
ASSUME BatchAssumption == MaxBatch \in Nat

Contract == INSTANCE EvictionPolicy WITH tracked <- DOMAIN items

-----------------------------------------------------------------------------
(* The list at frequency f, and the map with list s at f (a drained list   *)
(* is deleted).                                                            *)
At(b, f) == IF f \in DOMAIN b THEN b[f] ELSE << >>
SetList(b, f, s) ==
    [x \in IF s = << >> THEN DOMAIN b \ {f} ELSE DOMAIN b \cup {f} |-> IF x = f THEN s ELSE b[x]]

(* Buckets b and index x after k's element left its list, and after k was  *)
(* pushed to the front of the list at f.                                   *)
Detached(b, x, k) == SetList(b, x[k], RemoveFirst(At(b, x[k]), k))
Pushed(b, x, k, f) ==
    [buckets |-> SetList(b, f, Cons(k, At(b, f))),
     items |-> [y \in DOMAIN x \cup {k} |-> IF y = k THEN f ELSE x[y]]]

(* recomputeAgeMaxLocked, for a lambda in hundredths, where floor(1/lambda)*)
(* is what the float64 division gives.  Left out are NaN, which SetParam   *)
(* lets through, and a lambda below 2^-64: the machine decides the period. *)
AgePeriod(lambda) ==
    IF lambda <= 0 THEN 0 ELSE IF 100 \div lambda < 1 THEN 1 ELSE 100 \div lambda

NextFreq(f) == IF f + 1 > MaxFreq THEN MaxFreq ELSE f + 1

(* Mutant of Incremented: a drained bucket stays in the map. *)
IncrementedKeepsEmpty(k) ==
    LET f == items[k]
        g == NextFreq(f)
    IN  IF g = f THEN [buckets |-> buckets, items |-> items]
        ELSE Pushed([buckets EXCEPT ![f] = RemoveFirst(@, k)], items, k, g)

(* incrementLocked: k moves to the front of the next bucket. *)
Incremented(k) ==
    LET g == NextFreq(items[k])
    IN  IF g = items[k] THEN [buckets |-> buckets, items |-> items]
        ELSE Pushed(Detached(buckets, items, k), items, k, g)

(* The history once k has left its frequency, and once it has come to the  *)
(* one st gives it.                                                        *)
Left(k) == {p \in older : p[1] # k /\ p[2] # k}
Arrived(st, k) ==
    IF k \in DOMAIN items /\ st.items[k] = items[k] THEN older
    ELSE Left(k) \cup {<<j, k>> : j \in {x \in DOMAIN items \ {k} : items[x] = st.items[k]}}

(* One round of ageLocked: everything at oldF goes, in reverse, to the     *)
(* front of the bucket at half of it.                                      *)
Halve(st, oldF) ==
    LET newF == IF oldF \div 2 < 1 THEN 1 ELSE oldF \div 2
        moved == ToSet(st.buckets[oldF])
    IN  IF newF = oldF THEN st
        ELSE [buckets |-> SetList(SetList(st.buckets, newF, Reverse(st.buckets[oldF]) \o At(st.buckets, newF)),
                                  oldF, << >>),
              items |-> [k \in DOMAIN st.items |-> IF k \in moved THEN newF ELSE st.items[k]]]

(* ageLocked goes through the frequencies present at its start in the      *)
(* order of the map iteration.                                             *)
Aged(st, order) ==
    LET round[i \in 0..Len(order)] == IF i = 0 THEN st ELSE Halve(round[i - 1], order[i])
    IN  round[Len(order)]

-----------------------------------------------------------------------------
Init ==
    /\ buckets = << >> /\ items = << >>
    /\ n = 0 /\ metadata = 0
    /\ ageCnt = 0 /\ ageMax = AgePeriod(DefaultLambda)
    /\ answer = << >> /\ older = {}

OnAccessUnknown(k) ==
    /\ k \notin DOMAIN items
    /\ answer' = << >>
    /\ UNCHANGED <<buckets, items, n, metadata, ageCnt, ageMax, older>>

(* An access that does not reach the ageing period. *)
OnAccess(k) ==
    /\ k \in DOMAIN items
    /\ ageMax = 0 \/ ageCnt + 1 < ageMax
    /\ buckets' = Incremented(k).buckets /\ items' = Incremented(k).items
    /\ ageCnt' = IF ageMax > 0 THEN ageCnt + 1 ELSE ageCnt
    /\ answer' = << >> /\ older' = Arrived(Incremented(k), k)
    /\ UNCHANGED <<n, metadata, ageMax>>

(* Mutant of OnAccessAges: the access counter is not reset. *)
OnAccessAgesNoReset(k) ==
    /\ k \in DOMAIN items
    /\ ageMax > 0 /\ ageCnt + 1 >= ageMax
    /\ \E order \in SetToSeqs(DOMAIN Incremented(k).buckets) :
          /\ buckets' = Aged(Incremented(k), order).buckets
          /\ items' = Aged(Incremented(k), order).items
    /\ ageCnt' = ageCnt + 1
    /\ answer' = << >> /\ older' = {}
    /\ UNCHANGED <<n, metadata, ageMax>>

(* An access that reaches it: increment, then halve. *)
OnAccessAges(k) ==
    /\ k \in DOMAIN items
    /\ ageMax > 0 /\ ageCnt + 1 >= ageMax
    /\ \E order \in SetToSeqs(DOMAIN Incremented(k).buckets) :
          /\ buckets' = Aged(Incremented(k), order).buckets
          /\ items' = Aged(Incremented(k), order).items
    /\ ageCnt' = 0
    /\ answer' = << >> /\ older' = {}
    /\ UNCHANGED <<n, metadata, ageMax>>

(* A re-insert counts as a use, without ageing. *)
OnInsert(k) ==
    /\ IF k \in DOMAIN items
         THEN /\ buckets' = Incremented(k).buckets /\ items' = Incremented(k).items
              /\ older' = Arrived(Incremented(k), k)
              /\ UNCHANGED <<n, metadata>>
         ELSE /\ buckets' = Pushed(buckets, items, k, 1).buckets
              /\ items' = Pushed(buckets, items, k, 1).items
              /\ older' = Arrived(Pushed(buckets, items, k, 1), k)
              /\ n' = n + 1 /\ metadata' = metadata + lfuPerEntryBytes
    /\ answer' = << >>
    /\ UNCHANGED <<ageCnt, ageMax>>

(* Mutant of OnRemove: the list element is left in its bucket. *)
OnRemoveFromIndex(k) ==
    /\ items' = [x \in DOMAIN items \ {k} |-> items[x]]
    /\ answer' = << >>
    /\ UNCHANGED <<buckets, n, metadata, ageCnt, ageMax, older>>

OnRemove(k) ==
    /\ IF k \in DOMAIN items
         THEN /\ buckets' = Detached(buckets, items, k)
              /\ items' = [x \in DOMAIN items \ {k} |-> items[x]]
              /\ n' = n - 1 /\ metadata' = metadata - lfuPerEntryBytes
              /\ older' = Left(k)
         ELSE UNCHANGED <<buckets, items, n, metadata, older>>
    /\ answer' = << >>
    /\ UNCHANGED <<ageCnt, ageMax>>

-----------------------------------------------------------------------------
(* Mutant of lowestFreq: the highest frequency. *)
highestFreq == IF DOMAIN buckets = {} THEN 0 ELSE Max(DOMAIN buckets)

lowestFreq == IF DOMAIN buckets = {} THEN 0 ELSE Min(DOMAIN buckets)

(* The back of the lowest bucket, if there is one. *)
Victim ==
    /\ answer' = IF lowestFreq = 0 \/ At(buckets, lowestFreq) = << >> THEN << >>
                 ELSE <<Last(buckets[lowestFreq])>>
    /\ UNCHANGED <<buckets, items, n, metadata, ageCnt, ageMax, older>>

(* The loop removes nothing, so every round reads the lowest bucket again. *)
Candidates(b) ==
    LET worst == Reverse(buckets[lowestFreq])
    IN  /\ answer' = IF b <= 0 \/ n = 0 THEN << >>
                     ELSE [i \in 1..b |-> worst[((i - 1) % Len(worst)) + 1]]
        /\ UNCHANGED <<buckets, items, n, metadata, ageCnt, ageMax, older>>

(* A value outside [0, 1] is refused and nothing changes. *)
SetParam(lambda) ==
    /\ IF lambda < 0 \/ lambda > 100 THEN UNCHANGED <<ageCnt, ageMax>>
                                     ELSE ageCnt' = 0 /\ ageMax' = AgePeriod(lambda)
    /\ answer' = << >>
    /\ UNCHANGED <<buckets, items, n, metadata, older>>

Clamp(c) == IF c < 1 THEN 1 ELSE IF c > MaxFreq THEN MaxFreq ELSE c

(* The loop of Rebuild: the entries are pushed one by one, each at its     *)
(* clamped AccessCount.                                                    *)
Adopted(entries, count) ==
    LET empty == [buckets |-> << >>, items |-> << >>]
        round[i \in 0..Len(entries)] ==
            IF i = 0 THEN empty
            ELSE Pushed(round[i - 1].buckets, round[i - 1].items, entries[i], Clamp(count[entries[i]]))
    IN  round[Len(entries)]

(* entries is the store's map iteration order, count the AccessCounts. *)
Rebuild(entries, count) ==
    /\ buckets' = Adopted(entries, count).buckets /\ items' = Adopted(entries, count).items
    /\ n' = Len(entries) /\ metadata' = Len(entries) * lfuPerEntryBytes
    /\ ageCnt' = 0
    /\ answer' = << >> /\ older' = {}
    /\ UNCHANGED ageMax

(* Re-derives the byte count when it is 0. *)
MetadataBytes ==
    /\ metadata' = IF metadata = 0 THEN n * lfuPerEntryBytes ELSE metadata
    /\ answer' = << >>
    /\ UNCHANGED <<buckets, items, n, ageCnt, ageMax, older>>

Reset ==
    /\ buckets' = << >> /\ items' = << >>
    /\ n' = 0 /\ metadata' = 0
    /\ ageCnt' = 0
    /\ answer' = << >> /\ older' = {}
    /\ UNCHANGED ageMax

Next ==
    \/ \E k \in Keys : OnAccessUnknown(k) \/ OnAccess(k) \/ OnAccessAges(k) \/ OnInsert(k) \/ OnRemove(k)
    \/ Victim \/ MetadataBytes \/ Reset
    \/ \E b \in 0..MaxBatch : Candidates(b)
    \/ \E lambda \in Lambdas : SetParam(lambda)
    \/ \E entries \in SetToAllKPermutations(Keys) :
          \E count \in [ToSet(entries) -> Counts] : Rebuild(entries, count)

Spec == Init /\ [][Next]_vars

-----------------------------------------------------------------------------
(* BucketsMatchItems: every tracked key is in exactly one bucket, the one  *)
(* of its frequency, which lies in 1..MaxFreq, and no bucket is empty, so  *)
(* Victim cannot come back empty-handed; through increments, ageing in any *)
(* map order, removals and rebuilds (lfu.go:48-57, 183-185, 231-233).      *)
BucketsMatchItems ==
    /\ \A f \in DOMAIN buckets :
          /\ f \in 1..MaxFreq /\ buckets[f] # << >>
          /\ Cardinality(ToSet(buckets[f])) = Len(buckets[f])
          /\ ToSet(buckets[f]) = {k \in DOMAIN items : items[k] = f}
    /\ \A k \in DOMAIN items : items[k] \in DOMAIN buckets
    /\ n = Cardinality(DOMAIN items) /\ metadata = n * lfuPerEntryBytes

(* AgeingOnTime: the access counter never reaches the halving period, so   *)
(* no halving is skipped or delayed, also when the period is retuned       *)
(* (lfu.go:105-119, 155-161).                                              *)
AgeingOnTime == IF ageMax = 0 THEN TRUE ELSE ageCnt \in 0..ageMax - 1

(* a goes before b: it is less frequent, or came to their frequency first. *)
Worse(a, b) == items[a] < items[b] \/ <<a, b>> \in older

(* WorstFirst: eviction candidates come worst first, the lowest frequency  *)
(* first and the oldest at a frequency first, and no key left out is worse *)
(* than one that is offered; through increments at the ceiling, removals   *)
(* and ageing (lfu.go:240-242, 280-281).  A key may be offered again.      *)
WorstFirst ==
    /\ \A i, j \in DOMAIN answer :
          i < j => ~Worse(answer[j], answer[i]) \/ \E h \in DOMAIN answer : h < i /\ answer[h] = answer[j]
    /\ \A i \in DOMAIN answer, k \in DOMAIN items \ ToSet(answer) : ~Worse(k, answer[i])

(* ImplementsContract: LFU does what the core expects of a policy. *)
ImplementsContract == Contract!Spec

(* AgeingHalves: an ageing pass takes every frequency to its half, but not *)
(* below 1 (lfu.go:305, "divides every frequency in half, floored at 1").  *)
AgeingHalves ==
    [][\A k \in Keys : OnAccessAges(k) =>
         \A j \in DOMAIN items :
            LET f == Incremented(k).items[j]
            IN  items'[j] = IF f \div 2 < 1 THEN 1 ELSE f \div 2]_vars
=============================================================================
