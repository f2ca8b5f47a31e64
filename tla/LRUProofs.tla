----------------------------- MODULE LRUProofs -----------------------------
(***************************************************************************)
(* Proofs about the least-recently-used policy, for every finite set of    *)
(* keys: the index and the list agree, what is offered for eviction is     *)
(* least recently used, and the policy implements the contract of          *)
(* EvictionPolicy.                                                         *)
(***************************************************************************)
EXTENDS LRU, BasicLemmas

(* The list holds the index's keys, each once, and is counted right. *)
ListInv ==
    /\ ll \in Seq(Keys) /\ Distinct(ll)
    /\ items = ToSet(ll)
    /\ n = Len(ll) /\ metadata = n * lruPerEntryBytes

(* A key that was used before another is behind it in the list, unless the *)
(* other was overwritten since it was put in front.                        *)
OrderInv ==
    \A i, j \in 1..Len(ll) : <<ll[i], ll[j]>> \in older => i > j \/ ll[j] \in overwritten

(* What was offered is the tail of the list, back to front. *)
AnswerInv ==
    /\ answer \in Seq(Keys) /\ Len(answer) <= Len(ll)
    /\ \A i \in 1..Len(answer) : answer[i] = ll[Len(ll) + 1 - i]

LRUInv == ListInv /\ OrderInv /\ AnswerInv

-----------------------------------------------------------------------------
(* The index leads to the one element that holds the key. *)
LEMMA ElementFacts ==
    ASSUME ListInv, NEW k \in items
    PROVE  Element(k) \in 1..Len(ll) /\ ll[Element(k)] = k
<1>1. DOMAIN ll = 1..Len(ll)
  BY LenProperties DEF ListInv
<1>2. \E i \in DOMAIN ll : ll[i] = k
  BY <1>1, ToSetMember DEF ListInv
<1> QED
  BY <1>1, <1>2 DEF Element

(* Taking the element of a key out of the list (list.Remove). *)
LEMMA TakeOut ==
    ASSUME ListInv, OrderInv, NEW k \in items,
           NEW l, l = RemoveAt(ll, Element(k))
    PROVE  /\ l \in Seq(Keys) /\ Distinct(l) /\ Len(l) = Len(ll) - 1 /\ Len(ll) \in Nat
           /\ ToSet(l) = items \ {k}
           /\ \A i, j \in 1..Len(l) : <<l[i], l[j]>> \in older => i > j \/ l[j] \in overwritten
<1> DEFINE e == Element(k)
<1>1. e \in 1..Len(ll) /\ ll[e] = k
  BY ElementFacts
<1>2. ll \in Seq(Keys) /\ Distinct(ll) /\ items = ToSet(ll) /\ Len(ll) \in Nat
  BY LenProperties DEF ListInv
<1> HIDE DEF e
<1>3. l = RemoveAt(ll, e)
  BY DEF e
<1>4. /\ l \in Seq(Keys) /\ Distinct(l) /\ Len(l) = Len(ll) - 1
      /\ ToSet(l) = items \ {k}
      /\ \A i \in 1..Len(ll) - 1 : l[i] = IF i < e THEN ll[i] ELSE ll[i + 1]
  <2>1. /\ RemoveAt(ll, e) \in Seq(Keys) /\ Len(RemoveAt(ll, e)) = Len(ll) - 1
        /\ \A i \in 1..Len(ll) - 1 : RemoveAt(ll, e)[i] = IF i < e THEN ll[i] ELSE ll[i + 1]
        /\ Distinct(RemoveAt(ll, e)) /\ ToSet(RemoveAt(ll, e)) = ToSet(ll) \ {ll[e]}
    BY <1>1, <1>2, RemoveAtFacts
  <2> QED
    BY <1>1, <1>2, <1>3, <2>1
<1>5. ASSUME NEW i \in 1..Len(l), NEW j \in 1..Len(l), <<l[i], l[j]>> \in older, l[j] \notin overwritten
      PROVE  i > j
  <2>1. PICK x \in 1..Len(ll) : l[i] = ll[x] /\ ((i < e /\ x = i) \/ (i >= e /\ x = i + 1))
    BY <1>1, <1>2, <1>4
  <2>2. PICK y \in 1..Len(ll) : l[j] = ll[y] /\ ((j < e /\ y = j) \/ (j >= e /\ y = j + 1))
    BY SMTT(30), <1>1, <1>2, <1>4
  <2>3. x > y
    BY <1>5, <2>1, <2>2 DEF OrderInv
  <2> QED
    BY <1>1, <1>2, <1>4, <2>1, <2>2, <2>3
<1> QED
  BY <1>2, <1>4, <1>5

(* Putting a key in front of the keys that were used before it            *)
(* (list.PushFront, and the second half of list.MoveToFront).              *)
LEMMA PutInFront ==
    ASSUME NEW l \in Seq(Keys), Distinct(l), NEW k \in Keys, k \notin ToSet(l)
    PROVE  LET m == Cons(k, l) IN
           /\ m \in Seq(Keys) /\ Distinct(m) /\ Len(m) = Len(l) + 1 /\ Len(l) \in Nat
           /\ ToSet(m) = ToSet(l) \cup {k}
           /\ (\A i, j \in 1..Len(l) : <<l[i], l[j]>> \in older => i > j \/ l[j] \in overwritten)
                => \A i, j \in 1..Len(m) :
                      <<m[i], m[j]>> \in UsedLast(k) => i > j \/ (m[j] \in overwritten /\ m[j] # k)
<1> DEFINE m == Cons(k, l)
<1>1. /\ m \in Seq(Keys) /\ Distinct(m) /\ Len(m) = Len(l) + 1 /\ Len(l) \in Nat
      /\ ToSet(m) = ToSet(l) \cup {k} /\ m[1] = k
      /\ \A i \in 1..Len(l) : m[i + 1] = l[i]
  <2>1. /\ m \in Seq(Keys) /\ Len(m) = Len(l) + 1 /\ m[1] = k
    BY ConsFacts
  <2>2. \A i \in 1..Len(l) : m[i + 1] = l[i]
    BY ConsFacts
  <2>3. ToSet(m) = ToSet(l) \cup {k}
    BY ConsFacts
  <2>4. Distinct(m)
    BY ConsDistinct
  <2>5. Len(l) \in Nat
    BY LenProperties
  <2> QED
    BY <2>1, <2>2, <2>3, <2>4, <2>5
<1> HIDE DEF m
<1>2. ASSUME \A x, y \in 1..Len(l) : <<l[x], l[y]>> \in older => x > y \/ l[y] \in overwritten,
             NEW i \in 1..Len(m), NEW j \in 1..Len(m), <<m[i], m[j]>> \in UsedLast(k)
      PROVE  i > j \/ (m[j] \in overwritten /\ m[j] # k)
  <2>1. m[i] # k
    BY <1>2 DEF UsedLast, Forget
  <2>2. i > 1
    BY <1>1, <2>1
  <2>3. CASE j = 1
    BY <1>1, <2>2, <2>3
  <2>4. CASE j # 1
    <3>1. m[j] # k
      BY <1>1, <2>4 DEF Distinct
    <3>2. <<m[i], m[j]>> \in older
      BY <1>2, <3>1 DEF UsedLast, Forget
    <3>3. /\ i - 1 \in 1..Len(l) /\ m[i] = l[i - 1]
          /\ j - 1 \in 1..Len(l) /\ m[j] = l[j - 1]
      <4>1. i - 1 \in 1..Len(l) /\ j - 1 \in 1..Len(l) /\ (i - 1) + 1 = i /\ (j - 1) + 1 = j
        BY <1>1, <2>2, <2>4
      <4> QED
        BY <1>1, <4>1
    <3>4. i - 1 > j - 1 \/ m[j] \in overwritten
      BY <1>2, <3>2, <3>3
    <3> QED
      BY <1>1, <3>1, <3>4
  <2> QED
    BY <2>3, <2>4
<1>3. (\A i, j \in 1..Len(l) : <<l[i], l[j]>> \in older => i > j \/ l[j] \in overwritten)
        => \A i, j \in 1..Len(m) :
              <<m[i], m[j]>> \in UsedLast(k) => i > j \/ (m[j] \in overwritten /\ m[j] # k)
  BY <1>2
<1> QED
  BY <1>1, <1>3 DEF m

(* An empty answer is the tail of any list. *)
LEMMA NoAnswer ==
    ASSUME ll' \in Seq(Keys), answer' = << >>
    PROVE  AnswerInv'
BY LenProperties, EmptySeq DEF AnswerInv

-----------------------------------------------------------------------------
(* A touched key moves to the front and becomes the last one used. *)
LEMMA OnAccessKeepsInv ==
    ASSUME LRUInv, NEW k \in Keys, OnAccess(k)
    PROVE  LRUInv'
<1>0. ListInv /\ OrderInv /\ answer' = << >> /\ items' = items /\ n' = n /\ metadata' = metadata
  BY DEF LRUInv, OnAccess
<1>1. CASE k \notin items
  <2>1. ll' = ll /\ older' = older /\ overwritten' = overwritten
    BY <1>1 DEF OnAccess, history
  <2>2. ListInv' /\ OrderInv'
    BY <1>0, <2>1 DEF ListInv, OrderInv
  <2> QED
    BY <1>0, <2>2, NoAnswer DEF LRUInv, ListInv
<1>2. CASE k \in items
  <2> DEFINE l == RemoveAt(ll, Element(k))
  <2>1. ll' = Cons(k, l) /\ older' = UsedLast(k) /\ overwritten' = overwritten \ {k}
    BY <1>2 DEF OnAccess
  <2>2. /\ l \in Seq(Keys) /\ Distinct(l) /\ Len(l) = Len(ll) - 1 /\ Len(ll) \in Nat
        /\ ToSet(l) = items \ {k}
        /\ \A i, j \in 1..Len(l) : <<l[i], l[j]>> \in older => i > j \/ l[j] \in overwritten
    BY <1>0, <1>2, TakeOut
  <2> HIDE DEF l
  <2>3. /\ ll' \in Seq(Keys) /\ Distinct(ll') /\ Len(ll') = Len(l) + 1
        /\ ToSet(ll') = ToSet(l) \cup {k}
        /\ \A i, j \in 1..Len(ll') :
              <<ll'[i], ll'[j]>> \in UsedLast(k) => i > j \/ (ll'[j] \in overwritten /\ ll'[j] # k)
    <3>1. k \notin ToSet(l) /\ Distinct(l) /\ l \in Seq(Keys)
      BY <2>2
    <3> QED
      BY <2>1, <2>2, <3>1, PutInFront, ZenonT(90)
  <2>4. ListInv'
    BY <1>0, <1>2, <2>2, <2>3 DEF ListInv
  <2>5. OrderInv'
    BY <2>1, <2>3 DEF OrderInv
  <2> QED
    BY <1>0, <2>3, <2>4, <2>5, NoAnswer DEF LRUInv
<1> QED
  BY <1>1, <1>2

(* A new key goes to the front; a tracked one stays where it is. *)
LEMMA OnInsertKeepsInv ==
    ASSUME LRUInv, NEW k \in Keys, OnInsert(k)
    PROVE  LRUInv'
<1>0. ListInv /\ OrderInv /\ answer' = << >>
  BY DEF LRUInv, OnInsert
<1>1. CASE k \in items
  <2>1. /\ ll' = ll /\ older' = UsedLast(k) /\ overwritten' = overwritten \cup {k}
        /\ items' = items /\ n' = n /\ metadata' = metadata
    BY <1>1 DEF OnInsert
  <2>2. ListInv' /\ OrderInv'
    BY <1>0, <2>1 DEF ListInv, OrderInv, UsedLast, Forget
  <2> QED
    BY <1>0, <2>2, NoAnswer DEF LRUInv, ListInv
<1>2. CASE k \notin items
  <2>1. /\ ll' = Cons(k, ll) /\ older' = UsedLast(k) /\ overwritten' = overwritten /\ items' = items \cup {k}
        /\ n' = n + 1 /\ metadata' = metadata + lruPerEntryBytes
    BY <1>2 DEF OnInsert
  <2>2. /\ ll' \in Seq(Keys) /\ Distinct(ll') /\ Len(ll') = Len(ll) + 1 /\ Len(ll) \in Nat
        /\ ToSet(ll') = ToSet(ll) \cup {k}
        /\ \A i, j \in 1..Len(ll') :
              <<ll'[i], ll'[j]>> \in UsedLast(k) => i > j \/ (ll'[j] \in overwritten /\ ll'[j] # k)
    BY <1>0, <1>2, <2>1, PutInFront DEF ListInv, OrderInv
  <2>3. ListInv'
    BY <1>0, <2>1, <2>2 DEF ListInv, lruPerEntryBytes
  <2>4. OrderInv'
    BY <2>1, <2>2 DEF OrderInv
  <2> QED
    BY <1>0, <2>2, <2>3, <2>4, NoAnswer DEF LRUInv
<1> QED
  BY <1>1, <1>2

(* A removed key leaves the list, the index and the history. *)
LEMMA OnRemoveKeepsInv ==
    ASSUME LRUInv, NEW k \in Keys, OnRemove(k)
    PROVE  LRUInv'
<1>0. ListInv /\ OrderInv /\ answer' = << >>
  BY DEF LRUInv, OnRemove
<1>1. CASE k \notin items
  <2>1. UNCHANGED <<ll, older, overwritten, items, n, metadata>>
    BY <1>1 DEF OnRemove, history
  <2>2. ListInv' /\ OrderInv'
    BY <1>0, <2>1 DEF ListInv, OrderInv
  <2> QED
    BY <1>0, <2>2, NoAnswer DEF LRUInv, ListInv
<1>2. CASE k \in items
  <2>1. /\ ll' = RemoveAt(ll, Element(k)) /\ items' = items \ {k}
        /\ older' = Forget(k) /\ overwritten' = overwritten \ {k}
        /\ n' = n - 1 /\ metadata' = metadata - lruPerEntryBytes
    BY <1>2 DEF OnRemove
  <2>2. /\ ll' \in Seq(Keys) /\ Distinct(ll') /\ Len(ll') = Len(ll) - 1 /\ Len(ll) \in Nat
        /\ ToSet(ll') = items \ {k}
        /\ \A i, j \in 1..Len(ll') : <<ll'[i], ll'[j]>> \in older => i > j \/ ll'[j] \in overwritten
    BY <1>0, <1>2, <2>1, TakeOut
  <2>3. ListInv'
    BY <1>0, <2>1, <2>2 DEF ListInv, lruPerEntryBytes
  <2>4. OrderInv'
    BY <2>1, <2>2 DEF OrderInv, Forget
  <2> QED
    BY <1>0, <2>2, <2>3, <2>4, NoAnswer DEF LRUInv
<1> QED
  BY <1>1, <1>2

(* The victim is the last element of the list. *)
LEMMA VictimKeepsInv ==
    ASSUME LRUInv, Victim
    PROVE  LRUInv'
<1>1. /\ ll' = ll /\ items' = items /\ n' = n /\ metadata' = metadata /\ UNCHANGED <<older, overwritten>>
      /\ answer' = IF ll = << >> THEN << >> ELSE <<Last(ll)>>
      /\ ListInv /\ OrderInv /\ ll \in Seq(Keys) /\ Len(ll) \in Nat
  BY LenProperties DEF LRUInv, ListInv, Victim, history
<1>2. ListInv' /\ OrderInv'
  BY <1>1 DEF ListInv, OrderInv
<1>3. CASE ll = << >>
  BY <1>1, <1>2, <1>3, NoAnswer DEF LRUInv
<1>4. CASE ll # << >>
  <2>1. Len(ll) \in 1..Len(ll)
    BY <1>1, <1>4, EmptySeq
  <2>2. answer' = <<ll[Len(ll)]>> /\ ll[Len(ll)] \in Keys
    BY <1>1, <1>4, <2>1, ElementOfSeq DEF Last
  <2>3. AnswerInv'
    BY <1>1, <2>1, <2>2 DEF AnswerInv
  <2> QED
    BY <1>2, <2>3 DEF LRUInv
<1> QED
  BY <1>3, <1>4

(* The candidates are the end of the list, and there is one if there is a key. *)
LEMMA CandidatesKeepsInv ==
    ASSUME LRUInv, NEW b \in 0..MaxBatch, Candidates(b)
    PROVE  LRUInv' /\ (b > 0 /\ n # 0 => answer' # << >>) /\ Len(answer') <= b
<1>1. /\ ll' = ll /\ items' = items /\ n' = n /\ metadata' = metadata /\ UNCHANGED <<older, overwritten>>
      /\ ListInv /\ OrderInv /\ ll \in Seq(Keys) /\ n = Len(ll) /\ n \in Nat /\ b \in Nat
  BY LenProperties, BatchAssumption DEF LRUInv, ListInv, Candidates, history
<1>2. ListInv' /\ OrderInv'
  BY <1>1 DEF ListInv, OrderInv
<1>3. CASE b <= 0 \/ n = 0
  <2>1. answer' = << >> /\ ~(b > 0 /\ n # 0)
    BY <1>1, <1>3 DEF Candidates
  <2> QED
    BY <1>1, <1>2, <2>1, NoAnswer, EmptySeq DEF LRUInv
<1>4. CASE ~(b <= 0 \/ n = 0)
  <2> DEFINE m == IF b > n THEN n ELSE b
             r == Reverse(ll)
  <2>1. answer' = SubSeq(r, 1, m)
    BY <1>4 DEF Candidates
  <2>2. /\ r \in Seq(Keys) /\ Len(r) = n
        /\ \A i \in 1..n : r[i] = ll[Len(ll) - i + 1]
    BY <1>1, ReverseFacts
  <2>3. m \in 1..n /\ m <= b
    BY <1>1, <1>4
  <2> HIDE DEF m, r
  <2>4. \A i \in 1..m : r[i] \in Keys
    BY <1>1, <2>2, <2>3, ElementOfSeq
  <2>5. /\ answer' \in Seq(Keys) /\ Len(answer') = m
        /\ \A i \in 1..m : answer'[i] = r[i]
    BY <1>1, <2>1, <2>2, <2>3, <2>4, SubSeqProperties
  <2>6. \A i \in 1..m : answer'[i] = ll[Len(ll) + 1 - i]
    <3> SUFFICES ASSUME NEW i \in 1..m
                 PROVE  answer'[i] = ll[Len(ll) + 1 - i]
      OBVIOUS
    <3>1. i \in 1..n /\ Len(ll) - i + 1 = Len(ll) + 1 - i
      BY <1>1, <2>3
    <3> QED
      BY <2>2, <2>5, <3>1
  <2>7. AnswerInv'
    BY <1>1, <2>3, <2>5, <2>6 DEF AnswerInv
  <2>8. answer' # << >> /\ Len(answer') <= b
    BY <1>1, <2>3, <2>5, EmptySeq
  <2> QED
    BY <1>2, <2>7, <2>8 DEF LRUInv
<1> QED
  BY <1>3, <1>4

(* A rebuilt list is a list, whatever order the map came in. *)
LEMMA RebuildKeepsInv ==
    ASSUME NEW entries \in SetToAllKPermutations(Keys), Rebuild(entries)
    PROVE  LRUInv'
<1>1. entries \in Seq(Keys) /\ Distinct(entries)
  BY PermutationFacts, KeysAssumption
<1>2. /\ ll' = Reverse(entries) /\ items' = ToSet(entries) /\ n' = Len(entries)
      /\ metadata' = Len(entries) * lruPerEntryBytes
      /\ answer' = << >> /\ older' = {}
  BY DEF Rebuild
<1>3. /\ ll' \in Seq(Keys) /\ Len(ll') = Len(entries)
      /\ ToSet(ll') = ToSet(entries) /\ Distinct(ll')
  BY <1>1, <1>2, ReverseFacts
<1>4. ListInv'
  BY <1>2, <1>3 DEF ListInv
<1>5. OrderInv'
  BY <1>2 DEF OrderInv
<1> QED
  BY <1>2, <1>3, <1>4, <1>5, NoAnswer DEF LRUInv

(* A new policy, and one that was reset, is empty. *)
LEMMA EmptyInv ==
    ASSUME ll = << >>, items = {}, n = 0, metadata = 0, answer = << >>, older = {}
    PROVE  LRUInv
<1>1. ll \in Seq(Keys) /\ Len(ll) = 0 /\ ToSet(ll) = {} /\ Distinct(ll)
  BY EmptySeq DEF Distinct, ToSet
<1> QED
  BY <1>1, EmptySeq DEF LRUInv, ListInv, OrderInv, AnswerInv, lruPerEntryBytes

(* Every step keeps the invariant. *)
LEMMA StepKeepsInv ==
    ASSUME LRUInv, [Next]_vars
    PROVE  LRUInv'
<1>1. CASE \E k \in Keys : OnAccess(k) \/ OnInsert(k) \/ OnRemove(k)
  BY <1>1, OnAccessKeepsInv, OnInsertKeepsInv, OnRemoveKeepsInv
<1>2. CASE Victim
  BY <1>2, VictimKeepsInv
<1>3. CASE MetadataBytes
  <2>1. /\ ll' = ll /\ items' = items /\ n' = n /\ UNCHANGED <<older, overwritten>> /\ answer' = << >>
        /\ metadata' = n * lruPerEntryBytes
    BY <1>3 DEF MetadataBytes, LRUInv, ListInv, history
  <2>2. ListInv' /\ OrderInv'
    BY <2>1 DEF LRUInv, ListInv, OrderInv
  <2> QED
    BY <2>1, <2>2, NoAnswer DEF LRUInv, ListInv
<1>4. CASE Reset
  <2>1. /\ ll' = << >> /\ items' = {} /\ n' = 0 /\ metadata' = 0
        /\ answer' = << >> /\ older' = {}
    BY <1>4 DEF Reset
  <2>2. ll' \in Seq(Keys) /\ Len(ll') = 0 /\ ToSet(ll') = {} /\ Distinct(ll')
    BY <2>1, EmptySeq DEF Distinct, ToSet
  <2> QED
    BY <2>1, <2>2, EmptySeq DEF LRUInv, ListInv, OrderInv, AnswerInv, lruPerEntryBytes
<1>5. CASE \E b \in 0..MaxBatch : Candidates(b)
  BY <1>5, CandidatesKeepsInv
<1>6. CASE \E entries \in SetToAllKPermutations(Keys) : Rebuild(entries)
  BY <1>6, RebuildKeepsInv
<1>7. CASE UNCHANGED vars
  BY <1>7 DEF LRUInv, ListInv, OrderInv, AnswerInv, vars, history
<1> QED
  BY <1>1, <1>2, <1>3, <1>4, <1>5, <1>6, <1>7 DEF Next

(* The list, the index, the history and the last answer stay consistent    *)
(* through every sequence of policy calls (lru.go).                        *)
THEOREM LRUInvariant == Spec => []LRUInv
<1>1. Init => LRUInv
  BY EmptyInv DEF Init
<1> QED
  BY <1>1, StepKeepsInv, PTL DEF Spec

-----------------------------------------------------------------------------
(* The index, the list and both counters agree (lru.go:70-102). *)
THEOREM LRUIndexMatchesList == Spec => []IndexMatchesList
<1>1. LRUInv => IndexMatchesList
  BY DistinctCardinality DEF LRUInv, ListInv, IndexMatchesList
<1> QED
  BY <1>1, LRUInvariant, PTL

(* Eviction candidates come least recently used first, and no key that is  *)
(* left out was used before one that is offered, but for keys overwritten  *)
(* since they were put in front (lru.go:70-82, 104-133).                   *)
THEOREM LRUVictimLeastRecent == Spec => []VictimLeastRecent
<1>1. ASSUME LRUInv PROVE VictimLeastRecent
  <2>1. /\ answer \in Seq(Keys) /\ DOMAIN answer = 1..Len(answer) /\ Len(answer) \in Nat
        /\ ll \in Seq(Keys) /\ Len(ll) \in Nat /\ Len(answer) <= Len(ll)
        /\ Distinct(ll) /\ items = ToSet(ll)
        /\ \A i \in 1..Len(answer) : answer[i] = ll[Len(ll) + 1 - i]
    BY <1>1, LenProperties DEF LRUInv, ListInv, AnswerInv
  <2>2. ASSUME NEW i \in DOMAIN answer, NEW j \in DOMAIN answer, i < j
        PROVE  answer[i] # answer[j] /\ (<<answer[j], answer[i]>> \in older => answer[i] \in overwritten)
    <3>1. /\ Len(ll) + 1 - i \in 1..Len(ll) /\ Len(ll) + 1 - j \in 1..Len(ll)
          /\ Len(ll) + 1 - j < Len(ll) + 1 - i
      BY <2>1, <2>2
    <3>2. answer[i] = ll[Len(ll) + 1 - i] /\ answer[j] = ll[Len(ll) + 1 - j]
      BY <2>1, <2>2
    <3>3. ll[Len(ll) + 1 - i] # ll[Len(ll) + 1 - j]
      BY <2>1, <3>1 DEF Distinct
    <3>4. <<ll[Len(ll) + 1 - j], ll[Len(ll) + 1 - i]>> \in older => ll[Len(ll) + 1 - i] \in overwritten
      BY <1>1, <2>1, <3>1, SMTT(30) DEF LRUInv, OrderInv
    <3> QED
      BY <3>2, <3>3, <3>4
  <2>3. ASSUME NEW i \in DOMAIN answer, NEW k \in items \ ToSet(answer), <<k, answer[i]>> \in older,
               answer[i] \notin overwritten
        PROVE  FALSE
    <3>1. PICK j \in 1..Len(ll) : ll[j] = k
      BY <2>1, <2>3, ToSetMember
    <3>2. Len(ll) + 1 - i \in 1..Len(ll) /\ answer[i] = ll[Len(ll) + 1 - i]
      BY <2>1, <2>3
    <3>3. j > Len(ll) + 1 - i
      BY <1>1, <2>3, <3>1, <3>2 DEF LRUInv, OrderInv
    <3>4. Len(ll) + 1 - j \in 1..Len(answer) /\ Len(ll) + 1 - (Len(ll) + 1 - j) = j
      BY <2>1, <2>3, <3>1, <3>3
    <3>5. answer[Len(ll) + 1 - j] = k
      BY <2>1, <3>1, <3>4
    <3>6. k \in ToSet(answer)
      BY <2>1, <3>4, <3>5, ToSetMember
    <3> QED
      BY <3>6
  <2> QED
    BY <2>2, <2>3 DEF VictimLeastRecent
<1> QED
  BY <1>1, LRUInvariant, PTL

-----------------------------------------------------------------------------
(* What is offered is tracked. *)
LEMMA OfferedAreTracked == LRUInv => answer \in Seq(items)
<1> SUFFICES ASSUME LRUInv PROVE answer \in Seq(items)
  OBVIOUS
<1>1. /\ Len(answer) \in Nat /\ Len(ll) \in Nat /\ Len(answer) <= Len(ll) /\ ll \in Seq(Keys)
      /\ answer \in [1..Len(answer) -> Keys] /\ items = ToSet(ll)
      /\ \A i \in 1..Len(answer) : answer[i] = ll[Len(ll) + 1 - i]
  BY LenProperties DEF LRUInv, ListInv, AnswerInv
<1>2. ASSUME NEW i \in 1..Len(answer) PROVE answer[i] \in items
  <2>1. Len(ll) + 1 - i \in 1..Len(ll)
    BY <1>1
  <2> QED
    BY <1>1, <2>1, ToSetMember
<1>3. answer \in [1..Len(answer) -> items]
  BY <1>1, <1>2
<1> QED
  BY <1>1, <1>3, SeqDef

(* LRU implements the contract the cache core relies on: every policy call *)
(* is a step of EvictionPolicy or leaves it alone (policy.go, lru.go).     *)
THEOREM LRUImplementsContract == Spec => ImplementsContract
<1>1. Init => Contract!Init
  BY DEF Init, Contract!Init
<1>2. LRUInv' => (answer \in Seq(items))'
  BY OfferedAreTracked, PTL
<1>3. ASSUME LRUInv, LRUInv', [Next]_vars PROVE [Contract!Next]_(Contract!vars)
  <2>1. ASSUME NEW k \in Keys, OnAccess(k) PROVE Contract!Next
    BY <2>1 DEF OnAccess, Contract!Next, Contract!Quiet
  <2>2. ASSUME NEW k \in Keys, OnInsert(k) PROVE Contract!Next
    <3>1. Contract!OnInsert(k)
      BY <2>2 DEF OnInsert, Contract!OnInsert
    <3> QED
      BY <3>1 DEF Contract!Next
  <2>3. ASSUME NEW k \in Keys, OnRemove(k) PROVE Contract!Next
    <3>1. Contract!OnRemove(k)
      BY <2>3 DEF OnRemove, Contract!OnRemove
    <3> QED
      BY <3>1 DEF Contract!Next
  <2>4. CASE Victim
    <3>1. /\ items' = items /\ ll' = ll /\ answer' \in Seq(items') /\ ll \in Seq(Keys)
          /\ answer' = IF ll = << >> THEN << >> ELSE <<Last(ll)>>
          /\ items = ToSet(ll)
      BY <1>2, <1>3, <2>4 DEF Victim, LRUInv, ListInv
    <3>2. items = {} <=> ll = << >>
      <4>1. Len(ll) \in Nat /\ (ll = << >> <=> Len(ll) = 0)
        BY <3>1, EmptySeq, LenProperties
      <4>2. items = {} <=> Len(ll) = 0
        BY <3>1, <4>1, ToSetMember
      <4> QED
        BY <4>1, <4>2
    <3>3. ll # << >> => \E k \in items : answer' = <<k>>
      BY <3>1
    <3>4. Contract!Victim
      BY <3>1, <3>2, <3>3 DEF Contract!Victim
    <3> QED
      BY <3>4 DEF Contract!Next
  <2>5. CASE MetadataBytes
    BY <2>5 DEF MetadataBytes, Contract!Next, Contract!Quiet
  <2>6. CASE Reset
    BY <2>6 DEF Reset, Contract!Next, Contract!Reset, Contract!Rebuild
  <2>7. ASSUME NEW b \in 0..MaxBatch, Candidates(b) PROVE Contract!Next
    <3>1. /\ items' = items /\ answer' \in Seq(items) /\ Len(answer') <= b
          /\ b > 0 /\ n # 0 => answer' # << >>
      <4>1. answer' \in Seq(items')
        BY <1>2, <1>3
      <4> QED
        BY <1>3, <2>7, <4>1, CandidatesKeepsInv DEF Candidates
    <3>2. items # {} => n # 0
      BY <1>3, ToSetMember DEF LRUInv, ListInv
    <3>3. Contract!Candidates(b)
      BY <3>1, <3>2 DEF Contract!Candidates
    <3> QED
      BY <3>3 DEF Contract!Next
  <2>8. ASSUME NEW entries \in SetToAllKPermutations(Keys), Rebuild(entries) PROVE Contract!Next
    <3>1. items' \in SUBSET Keys /\ answer' = << >>
      BY <1>3, <2>8, ToSetMember DEF Rebuild, LRUInv, ListInv
    <3>2. Contract!Rebuild(items')
      BY <3>1 DEF Contract!Rebuild
    <3> QED
      BY <3>1, <3>2 DEF Contract!Next
  <2>9. CASE UNCHANGED vars
    BY <2>9 DEF vars, Contract!vars
  <2> QED
    BY <1>3, <2>1, <2>2, <2>3, <2>4, <2>5, <2>6, <2>7, <2>8, <2>9 DEF Next
<1> QED
  BY <1>1, <1>3, LRUInvariant, PTL DEF ImplementsContract, Contract!Spec, Spec
=============================================================================
