------------------------------- MODULE Clock -------------------------------
(***************************************************************************)
(* The second-chance policy (cache/policy/clock.go): a ring of slots with  *)
(* a reference bit each, an index from key to slot, and a hand.  Every     *)
(* method holds p.mu throughout, so each is one action.  The loops that    *)
(* walk the ring are given in closed form: what matters of a walk is the   *)
(* distance at which it stops and the reference bits it clears on the way. *)
(***************************************************************************)
EXTENDS Integers, FiniteSets, SequencesExt

CONSTANTS
    Keys,
    EmptyKey,   \* the empty string, which the code uses to mark a free slot
    MaxBatch    \* largest n passed to Candidates

ASSUME KeysAssumption == IsFiniteSet(Keys)
ASSUME BatchAssumption == MaxBatch \in Nat

VARIABLES
    slots,      \* 0..cap-1 -> [key, ref]
    index,      \* key -> slot number
    hand,       \* next slot to consider
    cap,        \* ring capacity
    live,       \* number of occupied slots
    answer      \* what the last Victim or Candidates returned

vars == <<slots, index, hand, cap, live, answer>>

Contract == INSTANCE EvictionPolicy WITH tracked <- DOMAIN index

clockSlot == [key |-> EmptyKey, ref |-> FALSE]
Positions == 0..cap - 1
Occupied == {i \in Positions : slots[i].key # EmptyKey}

(* The slot d steps ahead of position h on a ring of c slots. *)
Ahead(h, d, c) == (h + d) % c

-----------------------------------------------------------------------------
Init ==
    /\ slots = << >> /\ index = << >>
    /\ hand = 0 /\ cap = 0 /\ live = 0
    /\ answer = << >>

OnAccess(k) ==
    /\ slots' = IF k \in DOMAIN index THEN [slots EXCEPT ![index[k]].ref = TRUE] ELSE slots
    /\ answer' = << >>
    /\ UNCHANGED <<index, hand, cap, live>>

(* How many occupied slots lie before slot i: where growLocked moves it. *)
Rank(i) == Cardinality({j \in Occupied : j < i})

(* Mutant of growLocked: the copy stops one slot short. *)
growSkipsLast ==
    IF live < cap
    THEN [slots |-> slots, index |-> index, hand |-> hand, cap |-> cap, live |-> live]
    ELSE LET newCap == IF cap * 2 < 1 THEN 1 ELSE cap * 2
             copied == Occupied \ {cap - 1}
             used   == Cardinality(copied)
         IN  [slots |-> [j \in 0..newCap - 1 |->
                           IF j < used THEN slots[CHOOSE i \in copied : Rank(i) = j] ELSE clockSlot],
              index |-> [k \in DOMAIN index |->
                           IF \E i \in copied : slots[i].key = k
                           THEN Rank(CHOOSE i \in copied : slots[i].key = k)
                           ELSE index[k]],
              hand |-> used % newCap, cap |-> newCap, live |-> used]

(* growLocked: nothing while there is room; otherwise a ring of twice the  *)
(* size with the occupied slots first, the hand just after them.  Keys of  *)
(* the index that no slot holds keep their old slot number.                *)
growLocked ==
    IF live < cap
    THEN [slots |-> slots, index |-> index, hand |-> hand, cap |-> cap, live |-> live]
    ELSE LET newCap == IF cap * 2 < 1 THEN 1 ELSE cap * 2
             used   == Cardinality(Occupied)
         IN  [slots |-> [j \in 0..newCap - 1 |->
                           IF j < used THEN slots[CHOOSE i \in Occupied : Rank(i) = j] ELSE clockSlot],
              index |-> [k \in DOMAIN index |->
                           IF \E i \in Occupied : slots[i].key = k
                           THEN Rank(CHOOSE i \in Occupied : slots[i].key = k)
                           ELSE index[k]],
              hand |-> used % newCap, cap |-> newCap, live |-> used]

(* OnInsert of a new key, after growLocked gave g: the first free slot at  *)
(* or after the hand.  Without a free slot the loop of the code never ends,*)
(* so there is no step: FreeSlotExists rules that out.                     *)
InsertIn(g, k) ==
    LET free == {d \in 0..g.cap - 1 : g.slots[Ahead(g.hand, d, g.cap)].key = EmptyKey}
        at   == Ahead(g.hand, Min(free), g.cap)
    IN  /\ free # {}
        /\ slots' = [g.slots EXCEPT ![at] = [key |-> k, ref |-> TRUE]]
        /\ index' = [x \in DOMAIN g.index \cup {k} |-> IF x = k THEN at ELSE g.index[x]]
        /\ hand' = Ahead(at, 1, g.cap)
        /\ cap' = g.cap /\ live' = g.live + 1

OnInsert(k) ==
    /\ IF k \in DOMAIN index
         THEN slots' = [slots EXCEPT ![index[k]].ref = TRUE] /\ UNCHANGED <<index, hand, cap, live>>
         ELSE InsertIn(growLocked, k)
    /\ answer' = << >>

(* Mutant of OnRemove: the slot keeps its key. *)
OnRemoveKeepsSlot(k) ==
    /\ IF k \in DOMAIN index
         THEN /\ index' = [x \in DOMAIN index \ {k} |-> index[x]]
              /\ live' = live - 1
         ELSE UNCHANGED <<index, live>>
    /\ answer' = << >>
    /\ UNCHANGED <<slots, hand, cap>>

OnRemove(k) ==
    /\ IF k \in DOMAIN index
         THEN /\ slots' = [slots EXCEPT ![index[k]] = clockSlot]
              /\ index' = [x \in DOMAIN index \ {k} |-> index[x]]
              /\ live' = live - 1
         ELSE UNCHANGED <<slots, index, live>>
    /\ answer' = << >>
    /\ UNCHANGED <<hand, cap>>

-----------------------------------------------------------------------------
(* Mutant of Stops: the reference bit gives no second chance. *)
StopsAnywhere == {d \in 0..2 * cap - 1 : Ahead(hand, d, cap) \in Occupied}

(* The distances, over two laps, at which a walk from the hand meets an    *)
(* occupied slot whose bit is clear: it was clear to begin with, or the    *)
(* first lap cleared it.                                                   *)
Stops == {d \in 0..2 * cap - 1 :
            LET i == Ahead(hand, d, cap) IN i \in Occupied /\ (slots[i].ref => d >= cap)}

(* Mutant of Swept: the walk clears one bit too many. *)
SweptTooFar(steps) ==
    [i \in Positions |->
        IF (\E d \in 0..cap - 1 : d <= steps /\ Ahead(hand, d, cap) = i) /\ slots[i].key # EmptyKey
        THEN [slots[i] EXCEPT !.ref = FALSE] ELSE slots[i]]

(* The ring after a walk over the distances 0..steps-1. *)
Swept(steps) ==
    [i \in Positions |->
        IF (\E d \in 0..cap - 1 : d < steps /\ Ahead(hand, d, cap) = i) /\ slots[i].key # EmptyKey
        THEN [slots[i] EXCEPT !.ref = FALSE] ELSE slots[i]]

(* Victim stops on the slot it offers and leaves the hand there.  With     *)
(* live entries but no occupied slot the two laps find nothing.            *)
Victim ==
    /\ IF live = 0 \/ Stops = {}
         THEN answer' = << >> /\ UNCHANGED <<slots, hand>>
         ELSE LET d == Min(Stops)
              IN  /\ answer' = <<slots[Ahead(hand, d, cap)].key>>
                  /\ slots' = Swept(d)
                  /\ hand' = Ahead(hand, d, cap)
    /\ UNCHANGED <<index, cap, live>>

(* Candidates collects the first b stops and leaves the hand after the     *)
(* last of them, or walks both laps when there are fewer.                  *)
Candidates(b) ==
    LET picks == {d \in Stops : Cardinality({e \in Stops : e < d}) < b}
        steps == IF Cardinality(picks) = b THEN Max(picks) + 1 ELSE 2 * cap
        pick(j) == CHOOSE d \in picks : Cardinality({e \in picks : e < d}) = j - 1
    IN  /\ IF b <= 0 \/ live = 0
             THEN answer' = << >> /\ UNCHANGED <<slots, hand>>
             ELSE /\ answer' = [j \in 1..Cardinality(picks) |-> slots[Ahead(hand, pick(j), cap)].key]
                  /\ slots' = Swept(steps)
                  /\ hand' = Ahead(hand, steps, cap)
        /\ UNCHANGED <<index, cap, live>>

-----------------------------------------------------------------------------
(* The ring size Rebuild picks for m entries: the least power of two. *)
PowerFor(m) == Min({2 ^ e : e \in {x \in 0..m : 2 ^ x >= m}})

(* entries is the store's map iteration order: any order of the keys. *)
Rebuild(entries) ==
    /\ cap' = PowerFor(Len(entries))
    /\ slots' = [i \in 0..PowerFor(Len(entries)) - 1 |->
                   IF i < Len(entries) THEN [key |-> entries[i + 1], ref |-> FALSE] ELSE clockSlot]
    /\ index' = [k \in ToSet(entries) |-> (CHOOSE i \in DOMAIN entries : entries[i] = k) - 1]
    /\ hand' = 0 /\ live' = Len(entries)
    /\ answer' = << >>

Reset ==
    /\ slots' = << >> /\ index' = << >>
    /\ hand' = 0 /\ cap' = 0 /\ live' = 0
    /\ answer' = << >>

Next ==
    \/ \E k \in Keys : OnAccess(k) \/ OnInsert(k) \/ OnRemove(k)
    \/ Victim \/ Reset
    \/ \E b \in 0..MaxBatch : Candidates(b)
    \/ \E entries \in SetToAllKPermutations(Keys) : Rebuild(entries)

Spec == Init /\ [][Next]_vars

-----------------------------------------------------------------------------
(* RingConsistent: the index and the ring agree slot by slot, live counts  *)
(* the occupied slots, and the capacity is 0 or a power of two with the    *)
(* hand inside it, across growth, rebuilds and removals (clock.go:45-52).  *)
RingConsistent ==
    /\ \A k \in DOMAIN index : index[k] \in Positions /\ slots[index[k]].key = k
    /\ \A i \in Occupied : slots[i].key \in DOMAIN index /\ index[slots[i].key] = i
    /\ live = Cardinality(Occupied)
    /\ IF cap = 0 THEN hand = 0 ELSE hand \in Positions /\ cap \in {2 ^ e : e \in 0..cap}

(* FreeSlotExists: when growLocked sees room there is a free slot, so the  *)
(* search of OnInsert ends (clock.go:112, "growLocked guarantees a free    *)
(* slot").                                                                 *)
FreeSlotExists == live < cap => Occupied # Positions

(* SecondChance: a key accessed since the hand last passed it is offered   *)
(* only if every other key was accessed too (clock.go:168-195).            *)
SecondChance ==
    [][\A k \in Keys : answer' = <<k>> /\ slots[index[k]].ref => \A i \in Occupied : slots[i].ref]_vars

(* ImplementsContract: Clock does what the core expects of a policy. *)
ImplementsContract == Contract!Spec
=============================================================================
