----------------------------- MODULE ClockProofs -----------------------------
(* Proofs about the second-chance policy: index and ring agree, a free     *)
(* slot exists when it is needed, a referenced key is passed over, and the *)
(* policy does what the core expects, for any finite set of keys that does *)
(* not contain the empty one.                                              *)
EXTENDS Clock, BasicLemmas

Slot == [key : Keys \cup {EmptyKey}, ref : BOOLEAN]

(* The occupied slots of a ring s of c slots. *)
Held(s, c) == {i \in 0..c - 1 : s[i].key # EmptyKey}

(* A ring s of c slots with index x, hand h and n entries. *)
Ring(s, x, h, c, n) ==
    /\ c \in Nat /\ s \in [0..c - 1 -> Slot]
    /\ DOMAIN x \in SUBSET Keys /\ x \in [DOMAIN x -> 0..c - 1]
    /\ \A k \in DOMAIN x : s[x[k]].key = k
    /\ \A i \in 0..c - 1 : s[i].key # EmptyKey => s[i].key \in DOMAIN x /\ x[s[i].key] = i
    /\ n = Cardinality(Held(s, c))
    /\ IF c = 0 THEN h = 0 ELSE h \in 0..c - 1
    /\ c = 0 \/ \E e \in Nat : c = 2^e

ClockInv == Ring(slots, index, hand, cap, live)

-----------------------------------------------------------------------------
(* Walks *)

(* A walk of one lap reaches every slot, and so does a second one. *)
LEMMA WalkReaches ==
    ASSUME NEW c \in Nat \ {0}, NEW h \in 0..c - 1, NEW i \in 0..c - 1
    PROVE  \E d \in 0..c - 1 : Ahead(h, d, c) = i /\ Ahead(h, d + c, c) = i
<1>1. CASE h <= i
  <2>1. i - h \in 0..c - 1 /\ (h + (i - h)) % c = i /\ (h + ((i - h) + c)) % c = i
    BY <1>1
  <2> QED
    BY <2>1 DEF Ahead
<1>2. CASE h > i
  <2>1. i - h + c \in 0..c - 1 /\ (h + (i - h + c)) % c = i /\ (h + ((i - h + c) + c)) % c = i
    BY <1>2
  <2> QED
    BY <2>1 DEF Ahead
<1> QED
  BY <1>1, <1>2

LEMMA AheadInRing ==
    ASSUME NEW c \in Nat \ {0}, NEW h \in 0..c - 1, NEW d \in Nat
    PROVE  Ahead(h, d, c) \in 0..c - 1
BY DEF Ahead

(* The entries are counted: there are at most as many as slots, and a slot *)
(* is free if there are fewer.                                             *)
LEMMA RingSize ==
    ASSUME NEW s, NEW c \in Nat
    PROVE  /\ IsFiniteSet(Held(s, c)) /\ Cardinality(Held(s, c)) \in Nat
           /\ Cardinality(Held(s, c)) <= c
           /\ Cardinality(Held(s, c)) = c <=> Held(s, c) = 0..c - 1
<1>1. IsFiniteSet(0..c - 1) /\ Cardinality(0..c - 1) = c
  BY FS_Interval
<1>2. Held(s, c) \in SUBSET (0..c - 1)
  BY DEF Held
<1>3. /\ IsFiniteSet(Held(s, c)) /\ Cardinality(Held(s, c)) <= Cardinality(0..c - 1)
      /\ Cardinality(0..c - 1) = Cardinality(Held(s, c)) => 0..c - 1 = Held(s, c)
  BY <1>1, <1>2, FS_Subset
<1>4. Cardinality(Held(s, c)) \in Nat
  BY <1>3, FS_CardinalityType
<1> QED
  BY <1>1, <1>3, <1>4

-----------------------------------------------------------------------------
(* Operations *)

(* Reference bits and a hand within the ring do not matter to its shape. *)
LEMMA SameKeys ==
    ASSUME NEW s, NEW x, NEW h, NEW c, NEW n, Ring(s, x, h, c, n),
           NEW t \in [0..c - 1 -> Slot], \A i \in 0..c - 1 : t[i].key = s[i].key,
           NEW g, IF c = 0 THEN g = 0 ELSE g \in 0..c - 1
    PROVE  Ring(t, x, g, c, n)
<1>1. Held(t, c) = Held(s, c)
  BY DEF Held
<1> QED
  BY <1>1 DEF Ring

LEMMA RefSet ==
    ASSUME ClockInv, NEW k \in DOMAIN index
    PROVE  Ring([slots EXCEPT ![index[k]].ref = TRUE], index, hand, cap, live)
<1> DEFINE t == [slots EXCEPT ![index[k]].ref = TRUE]
<1>1. index[k] \in 0..cap - 1 /\ slots \in [0..cap - 1 -> Slot] /\ slots[index[k]] \in Slot
  BY DEF ClockInv, Ring
<1>2. t \in [0..cap - 1 -> Slot] /\ \A i \in 0..cap - 1 : t[i].key = slots[i].key
  <2> DEFINE v == [slots[index[k]] EXCEPT !.ref = TRUE]
  <2>1. v \in Slot /\ v.key = slots[index[k]].key
    BY <1>1 DEF Slot
  <2>2. t = [slots EXCEPT ![index[k]] = v]
    OBVIOUS
  <2> HIDE DEF v, t
  <2> QED
    BY <1>1, <2>1, <2>2
<1>3. IF cap = 0 THEN hand = 0 ELSE hand \in 0..cap - 1
  BY DEF ClockInv, Ring
<1> HIDE DEF t
<1>4. Ring(t, index, hand, cap, live)
  BY <1>2, <1>3, SameKeys DEF ClockInv
<1> QED
  BY <1>4 DEF t

(* growLocked: the ring is full when it grows, so every slot is copied to  *)
(* its own place.                                                          *)
LEMMA FullRank ==
    ASSUME ClockInv, ~(live < cap)
    PROVE  /\ Occupied = 0..cap - 1 /\ Cardinality(Occupied) = cap /\ live = cap
           /\ \A i \in 0..cap - 1 : Rank(i) = i
<1>1. cap \in Nat /\ live = Cardinality(Held(slots, cap))
  BY DEF ClockInv, Ring
<1>2. Occupied = Held(slots, cap)
  BY DEF Occupied, Positions, Held
<1>3. Occupied = 0..cap - 1 /\ Cardinality(Occupied) = cap /\ live = cap
  BY <1>1, <1>2, RingSize
<1>4. ASSUME NEW i \in 0..cap - 1 PROVE Rank(i) = i
  <2>1. {j \in Occupied : j < i} = 0..i - 1
    BY <1>1, <1>3
  <2>2. Cardinality(0..i - 1) = i
    BY FS_Interval
  <2> QED
    BY <2>1, <2>2 DEF Rank
<1> QED
  BY <1>3, <1>4

LEMMA Grown ==
    ASSUME ClockInv, ~(live < cap)
    PROVE  /\ growLocked.cap = (IF cap = 0 THEN 1 ELSE 2 * cap)
           /\ growLocked.live = cap /\ growLocked.hand = cap % growLocked.cap
           /\ growLocked.index = index
           /\ growLocked.slots = [j \in 0..growLocked.cap - 1 |-> IF j < cap THEN slots[j] ELSE clockSlot]
<1> DEFINE newCap == IF cap * 2 < 1 THEN 1 ELSE cap * 2
           used == Cardinality(Occupied)
           s == [j \in 0..newCap - 1 |->
                   IF j < used THEN slots[CHOOSE i \in Occupied : Rank(i) = j] ELSE clockSlot]
           x == [k \in DOMAIN index |->
                   IF \E i \in Occupied : slots[i].key = k
                   THEN Rank(CHOOSE i \in Occupied : slots[i].key = k) ELSE index[k]]
<1>1. /\ cap \in Nat /\ Occupied = 0..cap - 1 /\ Cardinality(Occupied) = cap
      /\ \A i \in 0..cap - 1 : Rank(i) = i
  BY FullRank DEF ClockInv, Ring
<1>2. growLocked = [slots |-> s, index |-> x, hand |-> used % newCap, cap |-> newCap, live |-> used]
  BY Zenon DEF growLocked
<1>3. newCap = IF cap = 0 THEN 1 ELSE 2 * cap
  BY <1>1
<1>4. x = index
  <2>1. ASSUME NEW k \in DOMAIN index PROVE x[k] = index[k]
    <3>1. index[k] \in Occupied /\ slots[index[k]].key = k
      BY <1>1 DEF ClockInv, Ring
    <3>2. \A i \in Occupied : slots[i].key = k => i = index[k]
      BY <1>1 DEF ClockInv, Ring, Occupied, Positions
    <3>3. (CHOOSE i \in Occupied : slots[i].key = k) = index[k]
      BY <3>1, <3>2
    <3> QED
      BY <1>1, <3>1, <3>3
  <2>2. index = [k \in DOMAIN index |-> index[k]]
    BY DEF ClockInv, Ring
  <2> QED
    BY <2>1, <2>2
<1>5. s = [j \in 0..newCap - 1 |-> IF j < cap THEN slots[j] ELSE clockSlot]
  <2>1. ASSUME NEW j \in 0..newCap - 1, j < cap
        PROVE  (CHOOSE i \in Occupied : Rank(i) = j) = j
    BY <1>1, <2>1
  <2>2. \A j \in 0..newCap - 1 : s[j] = IF j < cap THEN slots[j] ELSE clockSlot
    BY <1>1, <2>1
  <2> HIDE DEF newCap
  <2> QED
    BY <2>2, Zenon
<1> HIDE DEF newCap, s, x
<1> QED
  BY <1>1, <1>2, <1>3, <1>4, <1>5

(* A ring that has grown has all it had, and a free slot. *)
LEMMA GrownRing ==
    ASSUME ClockInv, ~(live < cap)
    PROVE  Ring(growLocked.slots, growLocked.index, growLocked.hand, growLocked.cap, growLocked.live)
           /\ growLocked.live < growLocked.cap /\ growLocked.index = index
<1> DEFINE c == IF cap = 0 THEN 1 ELSE 2 * cap
           s == [j \in 0..c - 1 |-> IF j < cap THEN slots[j] ELSE clockSlot]
<1>1. /\ growLocked.cap = c /\ growLocked.live = cap /\ growLocked.hand = cap % c
      /\ growLocked.index = index /\ growLocked.slots = s
  BY Grown
<1>2. /\ cap \in Nat /\ slots \in [0..cap - 1 -> Slot]
      /\ \A i \in 0..cap - 1 : slots[i].key # EmptyKey
  BY FullRank DEF ClockInv, Ring, Occupied, Positions
<1>3. c \in Nat \ {0} /\ cap < c
  BY <1>2
<1>4. clockSlot \in Slot /\ clockSlot.key = EmptyKey
  BY DEF clockSlot, Slot
<1>5. s \in [0..c - 1 -> Slot]
  BY <1>2, <1>3, <1>4
<1>6. Held(s, c) = 0..cap - 1
  BY <1>2, <1>3, <1>4 DEF Held
<1>7. cap = Cardinality(Held(s, c))
  BY <1>2, <1>6, FS_Interval
<1>8. \E e \in Nat : c = 2^e
  <2>1. CASE cap = 0
    <3>1. 2^0 = 1
      OBVIOUS
    <3> QED
      BY <2>1, <3>1
  <2>2. CASE cap # 0
    <3>1. PICK e \in Nat : cap = 2^e
      BY <2>2 DEF ClockInv, Ring
    <3>2. 2 * cap = 2^(e + 1)
      BY <3>1, PowerDoubles
    <3> QED
      BY <2>2, <3>2
  <2> QED
    BY <2>1, <2>2
<1>9. DOMAIN index \in SUBSET Keys /\ index \in [DOMAIN index -> 0..c - 1]
  BY SMTT(30), <1>2, <1>3 DEF ClockInv, Ring
<1>10. \A k \in DOMAIN index : s[index[k]].key = k
  BY SMTT(30), <1>2, <1>3 DEF ClockInv, Ring
<1>11. \A i \in 0..c - 1 : s[i].key # EmptyKey => s[i].key \in DOMAIN index /\ index[s[i].key] = i
  BY <1>2, <1>3, <1>4 DEF ClockInv, Ring
<1>12. cap % c \in 0..c - 1
  BY <1>2, <1>3
<1> HIDE DEF c, s
<1>13. Ring(s, index, cap % c, c, cap)
  BY <1>3, <1>5, <1>7, <1>8, <1>9, <1>10, <1>11, <1>12 DEF Ring
<1> QED
  BY <1>1, <1>3, <1>13

(* OnInsert of a new key, into a ring with a free slot. *)
LEMMA Inserted ==
    ASSUME EmptyKey \notin Keys, NEW k \in Keys,
           NEW s, NEW x, NEW h, NEW c, NEW n, Ring(s, x, h, c, n), n < c, k \notin DOMAIN x,
           NEW at \in 0..c - 1, s[at].key = EmptyKey
    PROVE  Ring([s EXCEPT ![at] = [key |-> k, ref |-> TRUE]],
                [y \in DOMAIN x \cup {k} |-> IF y = k THEN at ELSE x[y]],
                Ahead(at, 1, c), c, n + 1)
<1> DEFINE t == [s EXCEPT ![at] = [key |-> k, ref |-> TRUE]]
           z == [y \in DOMAIN x \cup {k} |-> IF y = k THEN at ELSE x[y]]
<1>1. c \in Nat \ {0} /\ s \in [0..c - 1 -> Slot] /\ Ahead(at, 1, c) \in 0..c - 1
  BY AheadInRing DEF Ring
<1>2. /\ t \in [0..c - 1 -> Slot] /\ t[at].key = k
      /\ \A i \in 0..c - 1 : i # at => t[i] = s[i]
  BY <1>1 DEF Slot
<1>3. /\ DOMAIN z \in SUBSET Keys /\ z \in [DOMAIN z -> 0..c - 1] /\ DOMAIN z = DOMAIN x \cup {k}
      /\ z[k] = at /\ \A y \in DOMAIN x : z[y] = x[y]
  BY DEF Ring
<1> HIDE DEF t, z
<1>4. \A y \in DOMAIN z : t[z[y]].key = y
  BY SMTT(30), <1>2, <1>3 DEF Ring
<1>5. \A i \in 0..c - 1 : t[i].key # EmptyKey => t[i].key \in DOMAIN z /\ z[t[i].key] = i
  BY <1>2, <1>3 DEF Ring
<1>6. Held(t, c) = Held(s, c) \cup {at} /\ at \notin Held(s, c)
  BY <1>2 DEF Held
<1>7. Cardinality(Held(t, c)) = n + 1
  BY ZenonT(30), <1>1, <1>6, RingSize, FS_AddElement DEF Ring
<1>8. Ring(t, z, Ahead(at, 1, c), c, n + 1)
  BY <1>1, <1>2, <1>3, <1>4, <1>5, <1>7 DEF Ring
<1> QED
  BY <1>8 DEF t, z

(* The distances of the free slots from the hand. *)
Free(s, h, c) == {d \in 0..c - 1 : s[Ahead(h, d, c)].key = EmptyKey}

(* A ring that is not full has a slot for the search of OnInsert to find. *)
LEMMA SearchEnds ==
    ASSUME NEW s, NEW x, NEW h, NEW c, NEW n, Ring(s, x, h, c, n), n < c
    PROVE  /\ Free(s, h, c) # {} /\ Ahead(h, Min(Free(s, h, c)), c) \in 0..c - 1
           /\ s[Ahead(h, Min(Free(s, h, c)), c)].key = EmptyKey
<1>1. c \in Nat \ {0} /\ h \in 0..c - 1 /\ Held(s, c) # 0..c - 1
  BY RingSize DEF Ring
<1>2. PICK i \in 0..c - 1 : s[i].key = EmptyKey
  BY <1>1 DEF Held
<1>3. PICK d \in 0..c - 1 : Ahead(h, d, c) = i
  BY <1>1, WalkReaches
<1>4. d \in Free(s, h, c)
  BY <1>2, <1>3 DEF Free
<1>5. Free(s, h, c) \in SUBSET Nat
  BY DEF Free
<1>6. Min(Free(s, h, c)) \in Free(s, h, c)
  BY <1>4, <1>5, MinFacts
<1>7. Min(Free(s, h, c)) \in Nat /\ s[Ahead(h, Min(Free(s, h, c)), c)].key = EmptyKey
  BY <1>6 DEF Free
<1> QED
  BY <1>1, <1>4, <1>7, AheadInRing

LEMMA InsertInStep ==
    ASSUME EmptyKey \notin Keys, NEW k \in Keys,
           NEW g, Ring(g.slots, g.index, g.hand, g.cap, g.live), g.live < g.cap,
           k \notin DOMAIN g.index, InsertIn(g, k)
    PROVE  ClockInv' /\ DOMAIN index' = DOMAIN g.index \cup {k}
<1> DEFINE at == Ahead(g.hand, Min(Free(g.slots, g.hand, g.cap)), g.cap)
<1>1. at \in 0..g.cap - 1 /\ g.slots[at].key = EmptyKey
  BY SearchEnds
<1>2. /\ slots' = [g.slots EXCEPT ![at] = [key |-> k, ref |-> TRUE]]
      /\ index' = [y \in DOMAIN g.index \cup {k} |-> IF y = k THEN at ELSE g.index[y]]
      /\ hand' = Ahead(at, 1, g.cap) /\ cap' = g.cap /\ live' = g.live + 1
  BY DEF InsertIn, Free
<1> HIDE DEF at
<1>3. Ring([g.slots EXCEPT ![at] = [key |-> k, ref |-> TRUE]],
           [y \in DOMAIN g.index \cup {k} |-> IF y = k THEN at ELSE g.index[y]],
           Ahead(at, 1, g.cap), g.cap, g.live + 1)
  BY <1>1, Inserted, Zenon
<1> QED
  BY <1>2, <1>3 DEF ClockInv

LEMMA OnInsertStep ==
    ASSUME EmptyKey \notin Keys, ClockInv, NEW k \in Keys, OnInsert(k)
    PROVE  ClockInv' /\ DOMAIN index' = DOMAIN index \cup {k}
<1>1. CASE k \in DOMAIN index
  BY <1>1, RefSet DEF OnInsert, ClockInv
<1>2. CASE k \notin DOMAIN index
  <2>1. /\ Ring(growLocked.slots, growLocked.index, growLocked.hand, growLocked.cap, growLocked.live)
        /\ growLocked.live < growLocked.cap /\ growLocked.index = index
    <3>1. CASE live < cap
      BY <3>1 DEF growLocked, ClockInv
    <3> QED
      BY <3>1, GrownRing
  <2>2. InsertIn(growLocked, k)
    BY <1>2 DEF OnInsert
  <2> QED
    BY <1>2, <2>1, <2>2, InsertInStep
<1> QED
  BY <1>1, <1>2

LEMMA OnAccessStep ==
    ASSUME ClockInv, NEW k \in Keys, OnAccess(k)
    PROVE  ClockInv' /\ index' = index
BY RefSet DEF OnAccess, ClockInv

LEMMA OnRemoveStep ==
    ASSUME EmptyKey \notin Keys, ClockInv, NEW k \in Keys, OnRemove(k)
    PROVE  ClockInv' /\ DOMAIN index' = DOMAIN index \ {k}
<1>1. CASE k \notin DOMAIN index
  BY <1>1 DEF OnRemove, ClockInv
<1>2. CASE k \in DOMAIN index
  <2> DEFINE at == index[k]
  <2>1. /\ slots' = [slots EXCEPT ![at] = clockSlot]
        /\ index' = [x \in DOMAIN index \ {k} |-> index[x]]
        /\ live' = live - 1 /\ hand' = hand /\ cap' = cap
    BY <1>2 DEF OnRemove
  <2>2. at \in 0..cap - 1 /\ slots[at].key = k /\ slots \in [0..cap - 1 -> Slot] /\ cap \in Nat
    BY <1>2 DEF ClockInv, Ring
  <2>3. clockSlot \in Slot /\ clockSlot.key = EmptyKey
    BY DEF clockSlot, Slot
  <2>4. /\ slots' \in [0..cap - 1 -> Slot] /\ slots'[at].key = EmptyKey
        /\ \A i \in 0..cap - 1 : i # at => slots'[i] = slots[i]
    BY <2>1, <2>2, <2>3
  <2>5. /\ DOMAIN index' = DOMAIN index \ {k} /\ DOMAIN index' \in SUBSET Keys
        /\ index' \in [DOMAIN index' -> 0..cap - 1]
        /\ \A x \in DOMAIN index' : index'[x] = index[x]
    BY <2>1 DEF ClockInv, Ring
  <2>6. \A x \in DOMAIN index' : slots'[index'[x]].key = x
    BY SMTT(30), <2>2, <2>4, <2>5 DEF ClockInv, Ring
  <2>7. \A i \in 0..cap - 1 : slots'[i].key # EmptyKey =>
           slots'[i].key \in DOMAIN index' /\ index'[slots'[i].key] = i
    BY SMTT(30), <2>2, <2>4, <2>5 DEF ClockInv, Ring
  <2>8. Held(slots', cap) = Held(slots, cap) \ {at} /\ at \in Held(slots, cap)
    BY <2>2, <2>4 DEF Held
  <2>9. Cardinality(Held(slots', cap)) = live - 1
    <3>1. live = Cardinality(Held(slots, cap)) /\ IsFiniteSet(Held(slots, cap))
      BY RingSize DEF ClockInv, Ring
    <3> QED
      BY <2>8, <3>1, FS_RemoveElement
  <2>10. /\ IF cap = 0 THEN hand = 0 ELSE hand \in 0..cap - 1
         /\ cap = 0 \/ \E e \in Nat : cap = 2^e
    BY DEF ClockInv, Ring
  <2> HIDE DEF at
  <2>11. Ring(slots', index', hand, cap, live - 1)
    BY <2>2, <2>4, <2>5, <2>6, <2>7, <2>9, <2>10 DEF Ring
  <2> QED
    BY <2>1, <2>5, <2>11 DEF ClockInv
<1> QED
  BY <1>1, <1>2

(* An empty ring. *)
LEMMA EmptyRing == Ring(<< >>, << >>, 0, 0, 0)
<1>1. 0..0 - 1 = {} /\ DOMAIN << >> = {}
  OBVIOUS
<1>2. << >> \in [0..0 - 1 -> Slot] /\ << >> \in [{} -> 0..0 - 1]
  BY <1>1
<1>3. Held(<< >>, 0) = {}
  BY <1>1 DEF Held
<1>4. Cardinality(Held(<< >>, 0)) = 0
  BY <1>3, FS_EmptySet
<1> QED
  BY <1>1, <1>2, <1>4 DEF Ring

(* The capacity Rebuild computes: a power of two, large enough. *)
LEMMA PowerForFacts ==
    ASSUME NEW m \in Nat
    PROVE  /\ PowerFor(m) \in Nat \ {0} /\ PowerFor(m) >= m
           /\ \E e \in Nat : PowerFor(m) = 2^e
<1> DEFINE E == {x \in 0..m : 2^x >= m}
           P == {2^e : e \in E}
<1>1. \A e \in Nat : 2^e \in Nat /\ e <= 2^e
  BY PowerOfTwo
<1>2. m \in E
  BY <1>1
<1>3. P \in SUBSET Nat /\ P # {}
  BY <1>1, <1>2
<1>4. Min(P) \in P
  BY <1>3, MinFacts
<1>5. PICK e \in E : PowerFor(m) = 2^e
  BY <1>4 DEF PowerFor
<1>6. e \in Nat /\ 2^e \in Nat /\ 2^e >= m /\ e <= 2^e
  BY <1>1
<1>7. 2^e # 0
  <2>1. CASE e = 0
    <3>1. 2^0 = 1
      OBVIOUS
    <3> QED
      BY <2>1, <3>1
  <2> QED
    BY <1>6, <2>1
<1> HIDE DEF E
<1> QED
  BY <1>5, <1>6, <1>7

LEMMA RebuildStep ==
    ASSUME EmptyKey \notin Keys, NEW entries \in SetToAllKPermutations(Keys), Rebuild(entries)
    PROVE  ClockInv' /\ DOMAIN index' = ToSet(entries) /\ ToSet(entries) \in SUBSET Keys
<1> DEFINE m == Len(entries)
           c == PowerFor(m)
<1>1. entries \in Seq(Keys) /\ Distinct(entries)
  BY KeysAssumption, PermutationFacts
<1>2. /\ m \in Nat /\ DOMAIN entries = 1..m /\ \A i \in 1..m : entries[i] \in Keys
      /\ ToSet(entries) \in SUBSET Keys
      /\ \A k : k \in ToSet(entries) <=> \E i \in 1..m : entries[i] = k
  BY <1>1, LenProperties, ElementOfSeq, ToSetMember
<1>3. c \in Nat \ {0} /\ c >= m /\ \E e \in Nat : c = 2^e
  BY <1>2, PowerForFacts
<1>4. /\ cap' = c /\ hand' = 0 /\ live' = m
      /\ slots' = [i \in 0..c - 1 |-> IF i < m THEN [key |-> entries[i + 1], ref |-> FALSE] ELSE clockSlot]
      /\ index' = [k \in ToSet(entries) |-> (CHOOSE i \in DOMAIN entries : entries[i] = k) - 1]
  BY DEF Rebuild
<1> HIDE DEF m, c
<1>5. \A i \in 0..m - 1 : i + 1 \in 1..m /\ entries[i + 1] \in Keys
  BY <1>2
<1>6. clockSlot \in Slot /\ clockSlot.key = EmptyKey
  BY DEF clockSlot, Slot
<1>7. /\ slots' \in [0..c - 1 -> Slot]
      /\ \A i \in 0..m - 1 : slots'[i].key = entries[i + 1]
      /\ \A i \in 0..c - 1 : i >= m => slots'[i].key = EmptyKey
  <2>1. ASSUME NEW i \in 0..c - 1, i < m PROVE [key |-> entries[i + 1], ref |-> FALSE] \in Slot
    BY <1>2, <1>5, <2>1 DEF Slot
  <2> QED
    BY <1>2, <1>3, <1>4, <1>6, <2>1
<1>8. \A i \in 1..m : (CHOOSE j \in DOMAIN entries : entries[j] = entries[i]) = i
  BY <1>1, <1>2 DEF Distinct, m
<1>9. /\ DOMAIN index' = ToSet(entries)
      /\ \A i \in 0..m - 1 : entries[i + 1] \in ToSet(entries) /\ index'[entries[i + 1]] = i
  <2>1. DOMAIN index' = ToSet(entries)
    BY <1>4
  <2>2. ASSUME NEW i \in 0..m - 1
        PROVE  entries[i + 1] \in ToSet(entries) /\ index'[entries[i + 1]] = i
    <3>1. i + 1 \in 1..m /\ entries[i + 1] \in ToSet(entries)
      BY <1>2, <1>5
    <3>2. (CHOOSE j \in DOMAIN entries : entries[j] = entries[i + 1]) = i + 1
      BY <1>8, <3>1
    <3>3. index'[entries[i + 1]] = (i + 1) - 1
      BY <1>4, <3>1, <3>2, Zenon
    <3> QED
      BY <3>1, <3>3
  <2> QED
    BY <2>1, <2>2
<1>10. \A k \in DOMAIN index' : \E i \in 0..m - 1 : k = entries[i + 1]
  <2>1. ASSUME NEW k \in DOMAIN index' PROVE \E i \in 0..m - 1 : k = entries[i + 1]
    <3>1. PICK j \in 1..m : entries[j] = k
      BY <1>2, <1>9
    <3>2. j - 1 \in 0..m - 1 /\ entries[(j - 1) + 1] = k
      BY <1>2, <3>1
    <3> QED
      BY <3>2
  <2> QED
    BY <2>1
<1>11. index' \in [DOMAIN index' -> 0..c - 1]
  <2>1. \A k \in DOMAIN index' : index'[k] \in 0..m - 1
    BY <1>9, <1>10
  <2>3. \A i \in 0..m - 1 : i \in 0..c - 1
    BY <1>2, <1>3
  <2>2. index' = [k \in DOMAIN index' |-> index'[k]]
    BY <1>4
  <2> QED
    BY <2>1, <2>2, <2>3
<1>12. \A k \in DOMAIN index' : slots'[index'[k]].key = k
  BY <1>7, <1>9, <1>10
<1>13. \A i \in 0..c - 1 : slots'[i].key # EmptyKey =>
          slots'[i].key \in DOMAIN index' /\ index'[slots'[i].key] = i
  <2>1. \A i \in 0..c - 1 : slots'[i].key # EmptyKey => i \in 0..m - 1
    BY <1>2, <1>3, <1>7
  <2> QED
    BY <1>7, <1>9, <2>1
<1>14. Held(slots', c) = 0..m - 1
  BY <1>2, <1>3, <1>5, <1>7 DEF Held
<1>15. Cardinality(Held(slots', c)) = m
  BY <1>2, <1>14, FS_Interval
<1>16. DOMAIN index' \in SUBSET Keys
  BY <1>2, <1>9
<1>17. Ring(slots', index', 0, c, m)
  BY <1>3, <1>7, <1>11, <1>12, <1>13, <1>15, <1>16 DEF Ring
<1> QED
  BY <1>2, <1>4, <1>9, <1>17 DEF ClockInv

-----------------------------------------------------------------------------
(* Victim and Candidates *)

(* A walk that stops has a key to offer: where there are entries, it stops *)
(* in its second lap at the latest.                                        *)
LEMMA StopsFacts ==
    ASSUME EmptyKey \notin Keys, ClockInv
    PROVE  /\ cap \in Nat /\ Stops \in SUBSET (0..2 * cap) /\ Stops \in SUBSET Nat
           /\ \A d \in Stops : /\ Ahead(hand, d, cap) \in 0..cap - 1
                              /\ slots[Ahead(hand, d, cap)].key \in DOMAIN index
                              /\ index[slots[Ahead(hand, d, cap)].key] = Ahead(hand, d, cap)
           /\ DOMAIN index # {} <=> live # 0
           /\ live # 0 => Stops # {}
<1>1. cap \in Nat /\ (cap # 0 => hand \in 0..cap - 1)
  BY DEF ClockInv, Ring
<1>2. Stops \in SUBSET (0..2 * cap) /\ Stops \in SUBSET Nat
  BY <1>1 DEF Stops
<1>3. ASSUME NEW d \in Stops
      PROVE  /\ Ahead(hand, d, cap) \in 0..cap - 1
             /\ slots[Ahead(hand, d, cap)].key \in DOMAIN index
             /\ index[slots[Ahead(hand, d, cap)].key] = Ahead(hand, d, cap)
  BY <1>1 DEF Stops, Occupied, Positions, ClockInv, Ring
<1>4. live = Cardinality(Held(slots, cap)) /\ IsFiniteSet(Held(slots, cap))
  BY <1>1, RingSize DEF ClockInv, Ring
<1>5. live # 0 <=> Held(slots, cap) # {}
  BY <1>4, FS_EmptySet
<1>6. Held(slots, cap) # {} <=> DOMAIN index # {}
  BY DEF Held, ClockInv, Ring
<1>7. ASSUME live # 0 PROVE Stops # {}
  <2>1. PICK i \in 0..cap - 1 : slots[i].key # EmptyKey
    BY <1>5, <1>7 DEF Held
  <2>5. cap \in Nat \ {0} /\ hand \in 0..cap - 1
    BY <1>1, <2>1
  <2>2. PICK d \in 0..cap - 1 : Ahead(hand, d + cap, cap) = i
    BY ZenonT(30), <2>1, <2>5, WalkReaches
  <2>3. d + cap \in 0..2 * cap - 1 /\ d + cap >= cap
    BY <1>1
  <2>4. d + cap \in Stops
    BY <2>1, <2>2, <2>3 DEF Stops, Occupied, Positions
  <2> QED
    BY <2>4
<1> QED
  BY <1>1, <1>2, <1>3, <1>5, <1>6, <1>7

(* A walk clears reference bits and moves the hand, no more. *)
LEMMA SweptRing ==
    ASSUME ClockInv, NEW steps, NEW g \in 0..cap - 1
    PROVE  Ring(Swept(steps), index, g, cap, live)
<1>1. cap \in Nat /\ slots \in [0..cap - 1 -> Slot]
  BY DEF ClockInv, Ring
<1>2. \A v \in Slot : [v EXCEPT !.ref = FALSE] \in Slot /\ [v EXCEPT !.ref = FALSE].key = v.key
  BY DEF Slot
<1>3. Swept(steps) \in [0..cap - 1 -> Slot] /\ \A i \in 0..cap - 1 : Swept(steps)[i].key = slots[i].key
  BY <1>1, <1>2 DEF Swept, Positions
<1>4. cap # 0
  BY <1>1
<1> QED
  BY <1>3, <1>4, SameKeys DEF ClockInv

(* Victim offers the key at the first stop. *)
LEMMA VictimStep ==
    ASSUME EmptyKey \notin Keys, ClockInv, Victim
    PROVE  /\ ClockInv' /\ index' = index
           /\ live = 0 => answer' = << >>
           /\ live # 0 => Min(Stops) \in Stops /\ answer' = <<slots[Ahead(hand, Min(Stops), cap)].key>>
<1>1. CASE live = 0
  BY <1>1 DEF Victim, ClockInv
<1>2. CASE live # 0
  <2>1. Stops # {} /\ Stops \in SUBSET Nat
    BY <1>2, StopsFacts
  <2>2. Min(Stops) \in Stops
    BY <2>1, MinFacts
  <2>3. /\ answer' = <<slots[Ahead(hand, Min(Stops), cap)].key>>
        /\ slots' = Swept(Min(Stops)) /\ hand' = Ahead(hand, Min(Stops), cap)
        /\ UNCHANGED <<index, cap, live>>
    BY <1>2, <2>1 DEF Victim
  <2>4. Ahead(hand, Min(Stops), cap) \in 0..cap - 1
    BY <2>2, StopsFacts
  <2>5. Ring(Swept(Min(Stops)), index, Ahead(hand, Min(Stops), cap), cap, live)
    BY <2>4, SweptRing
  <2> QED
    BY <1>2, <2>2, <2>3, <2>5 DEF ClockInv
<1> QED
  BY <1>1, <1>2

(* The stops Candidates(b) takes: the first b, or all there are. *)
Picks(b) == {d \in Stops : Cardinality(Below(Stops, d)) < b}

LEMMA PicksFacts ==
    ASSUME EmptyKey \notin Keys, ClockInv, live # 0, NEW b \in Nat \ {0}
    PROVE  /\ Picks(b) \in SUBSET Stops /\ Picks(b) \in SUBSET (0..2 * cap)
           /\ Min(Stops) \in Picks(b)
           /\ Cardinality(Picks(b)) \in 1..b
<1>1. Stops # {} /\ Stops \in SUBSET Nat /\ Stops \in SUBSET (0..2 * cap) /\ 2 * cap \in Nat
  BY StopsFacts
<1>2. Picks(b) \in SUBSET Stops
  BY DEF Picks
<1>3. Picks(b) \in SUBSET (0..2 * cap)
  BY <1>1, <1>2
<1>4. Min(Stops) \in Stops /\ \A y \in Stops : Min(Stops) <= y
  BY <1>1, MinFacts
<1>5. Below(Stops, Min(Stops)) = {}
  <2>2. \A x, y \in Nat : x <= y => ~(y < x)
    OBVIOUS
  <2>1. \A y \in Stops : ~(y < Min(Stops))
    BY <1>1, <1>4, <2>2, Zenon
  <2> QED
    BY <2>1, Zenon DEF Below
<1>6. Min(Stops) \in Picks(b)
  BY <1>4, <1>5, FS_EmptySet DEF Picks
<1>7. PICK m \in Picks(b) : Cardinality(Picks(b)) = Cardinality(Below(Picks(b), m)) + 1
  <2>1. Picks(b) # {}
    BY <1>6
  <2> QED
    BY <1>1, <1>3, <2>1, GreatestRank
<1>8. /\ IsFiniteSet(Below(Stops, m)) /\ Cardinality(Below(Stops, m)) \in Nat
      /\ Cardinality(Below(Picks(b), m)) \in Nat
  BY <1>1, <1>3, BelowFacts
<1>9. Below(Picks(b), m) \in SUBSET Below(Stops, m)
  BY <1>2 DEF Below
<1>10. Cardinality(Below(Picks(b), m)) <= Cardinality(Below(Stops, m))
  BY <1>8, <1>9, FS_Subset
<1>11. Cardinality(Below(Stops, m)) < b
  BY DEF Picks
<1> QED
  BY <1>2, <1>3, <1>6, <1>7, <1>8, <1>10, <1>11

(* Candidates offers keys at stops, at most b, and the first stop first    *)
(* when there is one only.                                                 *)
LEMMA CandidatesStep ==
    ASSUME EmptyKey \notin Keys, ClockInv, NEW b \in Nat, Candidates(b)
    PROVE  /\ ClockInv' /\ index' = index
           /\ answer' \in Seq(DOMAIN index) /\ Len(answer') <= b
           /\ b > 0 /\ live # 0 => answer' # << >>
           /\ \A k : answer' = <<k>> => Min(Stops) \in Stops /\ k = slots[Ahead(hand, Min(Stops), cap)].key
<1>1. CASE b = 0 \/ live = 0
  <2>1. answer' = << >> /\ UNCHANGED <<slots, hand, index, cap, live>>
    BY <1>1 DEF Candidates
  <2>2. \A k : << >> # <<k>>
    OBVIOUS
  <2> QED
    BY <1>1, <2>1, <2>2, EmptySeq DEF ClockInv
<1>2. CASE b > 0 /\ live # 0
  <2> DEFINE n == Cardinality(Picks(b))
             pick(j) == CHOOSE d \in Picks(b) : Cardinality(Below(Picks(b), d)) = j - 1
             steps == IF n = b THEN Max(Picks(b)) + 1 ELSE 2 * cap
  <2>1. /\ Picks(b) \in SUBSET Stops /\ Picks(b) \in SUBSET (0..2 * cap)
        /\ Min(Stops) \in Picks(b) /\ n \in 1..b
    BY <1>2, PicksFacts
  <2>2. /\ answer' = [j \in 1..n |-> slots[Ahead(hand, pick(j), cap)].key]
        /\ slots' = Swept(steps) /\ hand' = Ahead(hand, steps, cap)
        /\ UNCHANGED <<index, cap, live>>
    <3>1. ~(b <= 0 \/ live = 0)
      BY <1>2
    <3> QED
      BY <3>1, Zenon DEF Candidates, Picks, Below
  <2>3. cap \in Nat \ {0} /\ hand \in 0..cap - 1 /\ 2 * cap \in Nat
    <3>1. cap # 0
      BY <2>1, StopsFacts
    <3> QED
      BY <3>1 DEF ClockInv, Ring
  <2>4. steps \in Nat
    <3>2. Picks(b) # {}
      BY <2>1
    <3>1. Max(Picks(b)) \in Picks(b)
      BY <2>1, <2>3, <3>2, MaxFacts
    <3> QED
      BY <2>1, <2>3, <3>1
  <2>5. \A j \in 1..n : pick(j) \in Picks(b)
    <3>1. ASSUME NEW j \in 1..n PROVE \E d \in Picks(b) : Cardinality(Below(Picks(b), d)) = j - 1
      <4>1. j - 1 \in 0..Cardinality(Picks(b)) - 1
        BY <2>1
      <4> QED
        BY <2>1, <2>3, <4>1, RankedElement
    <3> QED
      BY <3>1
  <2> HIDE DEF n, pick, steps
  <2>6. \A j \in 1..n : slots[Ahead(hand, pick(j), cap)].key \in DOMAIN index
    BY <2>1, <2>5, StopsFacts
  <2>7. answer' \in [1..n -> DOMAIN index]
    BY <2>2, <2>6
  <2>8. answer' \in Seq(DOMAIN index) /\ Len(answer') = n
    BY <2>1, <2>7, FunctionIsSeq
  <2>9. ClockInv'
    <3>1. Ahead(hand, steps, cap) \in 0..cap - 1
      BY <2>3, <2>4, AheadInRing
    <3>2. Ring(Swept(steps), index, Ahead(hand, steps, cap), cap, live)
      BY <3>1, SweptRing
    <3> QED
      BY <2>2, <3>2 DEF ClockInv
  <2>10. ASSUME NEW k, answer' = <<k>>
         PROVE  Min(Stops) \in Stops /\ k = slots[Ahead(hand, Min(Stops), cap)].key
    <3>1. n = 1
      BY <2>8, <2>10
    <3>2. IsFiniteSet(Picks(b))
      <4>1. IsFiniteSet(0..2 * cap)
        BY <2>3, FS_Interval
      <4> QED
        BY <2>1, <4>1, FS_Subset
    <3>3. PICK d : Picks(b) = {d}
      BY <3>1, <3>2, FS_Singleton DEF n
    <3>4. pick(1) = Min(Stops)
      BY <2>1, <2>5, <3>1, <3>3
    <3> QED
      BY <2>1, <2>2, <2>10, <3>1, <3>4
  <2> QED
    BY <2>1, <2>2, <2>8, <2>9, <2>10, EmptySeq
<1> QED
  BY <1>1, <1>2

-----------------------------------------------------------------------------
(* Results *)

LEMMA ClockInitial == Init => ClockInv
BY EmptyRing DEF Init, ClockInv

LEMMA ClockInductive ==
    ASSUME EmptyKey \notin Keys, ClockInv, [Next]_vars
    PROVE  ClockInv'
<1>1. CASE UNCHANGED vars
  BY <1>1 DEF vars, ClockInv
<1>2. CASE \E k \in Keys : OnAccess(k) \/ OnInsert(k) \/ OnRemove(k)
  BY <1>2, OnAccessStep, OnInsertStep, OnRemoveStep
<1>3. CASE Victim
  BY <1>3, VictimStep
<1>4. CASE Reset
  BY <1>4, EmptyRing DEF Reset, ClockInv
<1>5. CASE \E b \in 0..MaxBatch : Candidates(b)
  BY <1>5, BatchAssumption, CandidatesStep
<1>6. CASE \E entries \in SetToAllKPermutations(Keys) : Rebuild(entries)
  BY <1>6, RebuildStep
<1> QED
  BY <1>1, <1>2, <1>3, <1>4, <1>5, <1>6 DEF Next

(* The ring stays consistent when no key is the empty string. *)
THEOREM ClockInvariant ==
    ASSUME EmptyKey \notin Keys
    PROVE  Spec => []ClockInv
<1>1. ClockInv /\ [Next]_vars => ClockInv'
  BY ClockInductive
<1> QED
  BY <1>1, ClockInitial, PTL DEF Spec

(* RingConsistent for any finite set of non-empty keys: index and ring     *)
(* agree, live counts the occupied slots, the hand is inside a capacity    *)
(* that is a power of two, through growth, removals and rebuilds.          *)
THEOREM ClockRingConsistent ==
    ASSUME EmptyKey \notin Keys
    PROVE  Spec => []RingConsistent
<1>1. ASSUME ClockInv PROVE RingConsistent
  <2>1. Occupied = Held(slots, cap)
    BY DEF Occupied, Positions, Held
  <2>2. cap # 0 => cap \in {2 ^ e : e \in 0..cap}
    <3>1. ASSUME cap # 0 PROVE cap \in {2 ^ e : e \in 0..cap}
      <4>1. PICK e \in Nat : cap = 2^e
        BY <1>1, <3>1 DEF ClockInv, Ring
      <4>2. e \in 0..cap
        BY <1>1, <4>1, PowerOfTwo DEF ClockInv, Ring
      <4> QED
        BY <4>1, <4>2
    <3> QED
      BY <3>1
  <2> QED
    BY <1>1, <2>1, <2>2 DEF ClockInv, Ring, RingConsistent, Occupied, Positions
<1> QED
  BY <1>1, ClockInvariant, PTL

(* FreeSlotExists for any finite set of non-empty keys: a ring with room   *)
(* has a free slot, so the search of OnInsert ends.                        *)
THEOREM ClockFreeSlotExists ==
    ASSUME EmptyKey \notin Keys
    PROVE  Spec => []FreeSlotExists
<1>1. ASSUME ClockInv PROVE FreeSlotExists
  <2>1. Occupied = Held(slots, cap) /\ cap \in Nat /\ live = Cardinality(Held(slots, cap))
    BY <1>1 DEF ClockInv, Ring, Occupied, Positions, Held
  <2> QED
    BY <2>1, RingSize DEF FreeSlotExists, Positions
<1> QED
  BY <1>1, ClockInvariant, PTL

(* A key at the first stop of a walk whose bit is set: every bit is. *)
LEMMA FirstStopReferenced ==
    ASSUME EmptyKey \notin Keys, ClockInv, Min(Stops) \in Stops,
           slots[index[slots[Ahead(hand, Min(Stops), cap)].key]].ref
    PROVE  \A i \in Occupied : slots[i].ref
<1> DEFINE d == Min(Stops)
<1>1. /\ Stops \in SUBSET Nat /\ index[slots[Ahead(hand, d, cap)].key] = Ahead(hand, d, cap)
      /\ \A e \in Stops : d <= e
  BY StopsFacts, MinFacts
<1>2. d >= cap
  BY <1>1 DEF Stops
<1>3. ASSUME NEW i \in Occupied, ~slots[i].ref PROVE FALSE
  <2>1. cap \in Nat \ {0} /\ hand \in 0..cap - 1 /\ i \in 0..cap - 1
    BY DEF ClockInv, Ring, Occupied, Positions
  <2>2. PICK e \in 0..cap - 1 : Ahead(hand, e, cap) = i
    BY SMTT(30), <2>1, WalkReaches
  <2>3. e \in Stops
    BY <1>3, <2>1, <2>2 DEF Stops
  <2>4. d \in Nat /\ d <= e
    BY <1>1, <2>3
  <2> HIDE DEF d
  <2> QED
    BY <1>2, <2>1, <2>4
<1> QED
  BY <1>3

(* SecondChance for any finite set of non-empty keys: a referenced key is  *)
(* offered alone only when every key is referenced.                        *)
THEOREM ClockSecondChance ==
    ASSUME EmptyKey \notin Keys
    PROVE  Spec => SecondChance
<1> DEFINE Chance == \A k \in Keys : answer' = <<k>> /\ slots[index[k]].ref => \A i \in Occupied : slots[i].ref
<1>1. ASSUME ClockInv, Next PROVE Chance
  <2>1. SUFFICES ASSUME NEW k \in Keys, answer' = <<k>>, slots[index[k]].ref
                 PROVE  \A i \in Occupied : slots[i].ref
    OBVIOUS
  <2>2. answer' # << >>
    BY <2>1
  <2>3. Victim \/ \E b \in 0..MaxBatch : Candidates(b)
    BY <1>1, <2>2 DEF Next, OnAccess, OnInsert, OnRemove, Reset, Rebuild
  <2>4. Min(Stops) \in Stops /\ k = slots[Ahead(hand, Min(Stops), cap)].key
    <3>1. CASE Victim
      BY <1>1, <2>1, <2>2, <3>1, VictimStep
    <3>2. CASE \E b \in 0..MaxBatch : Candidates(b)
      BY <1>1, <2>1, <3>2, BatchAssumption, CandidatesStep
    <3> QED
      BY <2>3, <3>1, <3>2
  <2> QED
    BY <1>1, <2>1, <2>4, FirstStopReferenced
<1>2. ClockInv /\ [Next]_vars => [Chance]_vars
  BY <1>1
<1> QED
  BY <1>2, ClockInvariant, PTL DEF Spec, SecondChance

(* Clock implements the contract of an eviction policy, step by step, when *)
(* no key is the empty string.                                             *)
THEOREM ClockImplementsContract ==
    ASSUME EmptyKey \notin Keys
    PROVE  Spec => ImplementsContract
<1>1. Init => Contract!Init
  BY DEF Init, Contract!Init
<1>2. ASSUME ClockInv, [Next]_vars PROVE [Contract!Next]_Contract!vars
  <2>0. (DOMAIN index # {} <=> live # 0) /\ DOMAIN index \in SUBSET Keys
    BY <1>2, StopsFacts DEF ClockInv, Ring
  <2>1. CASE UNCHANGED vars
    BY <2>1 DEF vars, Contract!vars
  <2>2. ASSUME NEW k \in Keys, OnAccess(k) PROVE Contract!Quiet
    BY <1>2, <2>2, OnAccessStep DEF OnAccess, Contract!Quiet
  <2>3. ASSUME NEW k \in Keys, OnInsert(k) PROVE Contract!OnInsert(k)
    BY <1>2, <2>3, OnInsertStep DEF OnInsert, Contract!OnInsert
  <2>4. ASSUME NEW k \in Keys, OnRemove(k) PROVE Contract!OnRemove(k)
    BY <1>2, <2>4, OnRemoveStep DEF OnRemove, Contract!OnRemove
  <2>5. CASE Victim
    <3>1. index' = index
      BY <1>2, <2>5, VictimStep
    <3>2. live = 0 => answer' = << >>
      BY <1>2, <2>5, VictimStep
    <3>3. ASSUME live # 0 PROVE \E k \in DOMAIN index : answer' = <<k>>
      <4>1. Min(Stops) \in Stops /\ answer' = <<slots[Ahead(hand, Min(Stops), cap)].key>>
        BY <1>2, <2>5, <3>3, VictimStep
      <4>2. slots[Ahead(hand, Min(Stops), cap)].key \in DOMAIN index
        BY <1>2, <4>1, StopsFacts
      <4> QED
        BY <4>1, <4>2
    <3>4. Contract!Victim
      BY <2>0, <3>1, <3>2, <3>3 DEF Contract!Victim
    <3> QED
      BY <3>4 DEF Contract!Next
  <2>6. CASE Reset
    BY <2>6 DEF Reset, Contract!Next, Contract!Reset, Contract!Rebuild
  <2>7. ASSUME NEW b \in 0..MaxBatch, Candidates(b) PROVE Contract!Candidates(b)
    <3>1. b \in Nat
      BY BatchAssumption
    <3> QED
      BY <1>2, <2>0, <2>7, <3>1, CandidatesStep DEF Contract!Candidates
  <2>8. ASSUME NEW entries \in SetToAllKPermutations(Keys), Rebuild(entries)
        PROVE  \E S \in SUBSET Keys : Contract!Rebuild(S)
    BY <2>8, RebuildStep DEF Rebuild, Contract!Rebuild
  <2> QED
    BY <1>2, <2>1, <2>2, <2>3, <2>4, <2>5, <2>6, <2>7, <2>8 DEF Next, Contract!Next
<1>3. ClockInv /\ [Next]_vars => [Contract!Next]_Contract!vars
  BY <1>2
<1> QED
  BY <1>1, <1>3, ClockInvariant, PTL DEF Spec, ImplementsContract, Contract!Spec
=============================================================================
