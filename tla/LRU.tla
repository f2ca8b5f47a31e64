-------------------------------- MODULE LRU --------------------------------
(***************************************************************************)
(* The least-recently-used policy (cache/policy/lru.go): a recency list,   *)
(* most recently used first, and an index from key to list element.  Every *)
(* method holds p.mu throughout, so each is one action.  The index is      *)
(* abstracted to the set of keys it has; the entry pointers are never read.*)
(***************************************************************************)
EXTENDS Integers, FiniteSets, SequencesExt

CONSTANTS
    Keys,
    MaxBatch    \* largest n passed to Candidates

ASSUME KeysAssumption == IsFiniteSet(Keys)
ASSUME BatchAssumption == MaxBatch \in Nat

VARIABLES
    ll,         \* the list, front first
    items,      \* the keys of the index
    n,          \* the entry count
    metadata,   \* the metadata bytes
    answer,     \* what the last Victim or Candidates returned
    older,      \* history: <<a, b>> if a's last use, access or insert, preceded b's
    overwritten \* history: keys inserted again since they were put in front

history == <<older, overwritten>>
vars == <<ll, items, n, metadata, answer, history>>

lruPerEntryBytes == 64

(* The index entry of a tracked key: its element of the list. *)
Element(k) == CHOOSE i \in DOMAIN ll : ll[i] = k

Contract == INSTANCE EvictionPolicy WITH tracked <- items

-----------------------------------------------------------------------------
(* The history after k is used, and after k is gone. *)
Forget(k) == {p \in older : p[1] # k /\ p[2] # k}
UsedLast(k) == Forget(k) \cup {<<j, k>> : j \in items \ {k}}

Init ==
    /\ ll = << >> /\ items = {}
    /\ n = 0 /\ metadata = 0
    /\ answer = << >> /\ older = {} /\ overwritten = {}

(* Mutant of OnAccess: the touched element goes to the back. *)
OnAccessToBack(k) ==
    /\ IF k \in items
         THEN /\ ll' = Append(RemoveAt(ll, Element(k)), k)
              /\ older' = UsedLast(k) /\ overwritten' = overwritten \ {k}
         ELSE UNCHANGED <<ll, history>>
    /\ answer' = << >>
    /\ UNCHANGED <<items, n, metadata>>

OnAccess(k) ==
    /\ IF k \in items
         THEN /\ ll' = Cons(k, RemoveAt(ll, Element(k)))
              /\ older' = UsedLast(k) /\ overwritten' = overwritten \ {k}
         ELSE UNCHANGED <<ll, history>>
    /\ answer' = << >>
    /\ UNCHANGED <<items, n, metadata>>

(* Mutant of OnInsert: a tracked key is pushed a second time. *)
OnInsertTwice(k) ==
    /\ ll' = Cons(k, ll)
    /\ items' = items \cup {k}
    /\ n' = n + 1 /\ metadata' = metadata + lruPerEntryBytes
    /\ older' = UsedLast(k) /\ UNCHANGED overwritten
    /\ answer' = << >>

(* A tracked key, which Put overwrote, keeps its place in the list; only   *)
(* its entry is refreshed.  In the history it has been used.               *)
OnInsert(k) ==
    /\ IF k \in items
         THEN /\ overwritten' = overwritten \cup {k}
              /\ UNCHANGED <<ll, items, n, metadata>>
         ELSE /\ ll' = Cons(k, ll)
              /\ items' = items \cup {k}
              /\ n' = n + 1 /\ metadata' = metadata + lruPerEntryBytes
              /\ UNCHANGED overwritten
    /\ older' = UsedLast(k)
    /\ answer' = << >>

(* Mutant of OnRemove: the list element is left behind. *)
OnRemoveFromIndex(k) ==
    /\ items' = items \ {k}
    /\ answer' = << >>
    /\ UNCHANGED <<ll, n, metadata, history>>

OnRemove(k) ==
    /\ IF k \in items
         THEN /\ ll' = RemoveAt(ll, Element(k))
              /\ items' = items \ {k}
              /\ n' = n - 1 /\ metadata' = metadata - lruPerEntryBytes
              /\ older' = Forget(k) /\ overwritten' = overwritten \ {k}
         ELSE UNCHANGED <<ll, items, n, metadata, history>>
    /\ answer' = << >>

Victim ==
    /\ answer' = IF ll = << >> THEN << >> ELSE <<Last(ll)>>
    /\ UNCHANGED <<ll, items, n, metadata, history>>

(* The last min(b, n) elements, back to front. *)
Candidates(b) ==
    /\ answer' = IF b <= 0 \/ n = 0 THEN << >>
                 ELSE SubSeq(Reverse(ll), 1, IF b > n THEN n ELSE b)
    /\ UNCHANGED <<ll, items, n, metadata, history>>

(* entries is the store's map iteration order: any order of the keys. *)
Rebuild(entries) ==
    /\ ll' = Reverse(entries)
    /\ items' = ToSet(entries)
    /\ n' = Len(entries) /\ metadata' = Len(entries) * lruPerEntryBytes
    /\ answer' = << >> /\ older' = {} /\ overwritten' = {}

(* Re-derives the byte count when it is 0. *)
MetadataBytes ==
    /\ metadata' = IF metadata = 0 THEN n * lruPerEntryBytes ELSE metadata
    /\ answer' = << >>
    /\ UNCHANGED <<ll, items, n, history>>

Reset ==
    /\ ll' = << >> /\ items' = {}
    /\ n' = 0 /\ metadata' = 0
    /\ answer' = << >> /\ older' = {} /\ overwritten' = {}

Next ==
    \/ \E k \in Keys : OnAccess(k) \/ OnInsert(k) \/ OnRemove(k)
    \/ Victim \/ MetadataBytes \/ Reset
    \/ \E b \in 0..MaxBatch : Candidates(b)
    \/ \E entries \in SetToAllKPermutations(Keys) : Rebuild(entries)

Spec == Init /\ [][Next]_vars

-----------------------------------------------------------------------------
(* IndexMatchesList: the list, the index and both counters describe the    *)
(* same entries, each key once, whatever is re-inserted or removed twice   *)
(* (lru.go:70-102).                                                        *)
IndexMatchesList ==
    /\ items = ToSet(ll)
    /\ Cardinality(items) = Len(ll)
    /\ n = Len(ll)
    /\ metadata = n * lruPerEntryBytes

(* VictimLeastRecent: the offered keys come in the order of their last     *)
(* use, oldest first, none twice, and no key left out was used before one  *)
(* that is offered, an insert counting as a use (lru.go:5-6, 70, 104-133); *)
(* except that a key overwritten since it was put in front may be offered  *)
(* before its turn, for lru.go:78-82 keeps its place.                      *)
VictimLeastRecent ==
    /\ \A i, j \in DOMAIN answer : i < j =>
          answer[i] # answer[j] /\ (<<answer[j], answer[i]>> \in older => answer[i] \in overwritten)
    /\ \A i \in DOMAIN answer, k \in items \ ToSet(answer) :
          <<k, answer[i]>> \in older => answer[i] \in overwritten

(* ImplementsContract: LRU does what the core expects of a policy. *)
ImplementsContract == Contract!Spec
=============================================================================
