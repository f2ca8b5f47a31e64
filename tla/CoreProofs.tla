----------------------------- MODULE CoreProofs -----------------------------
(* First the store: each of its operations keeps the byte totals exact and *)
(* within capacity.  Then the inductive invariant of Core and the theorems *)
(* that follow from it.  Last the readers: Memory and Stats called while   *)
(* the cache is in use, for any set of readers and any interleaving with   *)
(* the core's goroutines.                                                  *)
EXTENDS Observer, FiniteSetTheorems, TLAPS

(* The inductive form of BytesExact and WithinCapacity: cardinalities are  *)
(* additive only on finite sets.                                           *)
StoreInv ==
    /\ StoreTypeOK
    /\ BytesExact
    /\ WithinCapacity
    /\ IsFiniteSet(Cells(Resident, items))
    /\ IsFiniteSet(Cells(Resident, KeyLen))

(* Wrap leaves an in-range value alone. *)
LEMMA WrapInRange ==
    ASSUME NEW x \in -(MaxInt + 1)..MaxInt
    PROVE  Wrap(x) = x
BY CapacityAssumption DEF Wrap

(* A new key k with w[k] = m adds m cells; the weights of the old keys may *)
(* come from another function v that agrees with w on them.                *)
LEMMA CellsAdd ==
    ASSUME NEW D, NEW v, NEW w, NEW k, k \notin D,
           \A x \in D : v[x] = w[x],
           w[k] \in Nat, IsFiniteSet(Cells(D, v))
    PROVE  /\ IsFiniteSet(Cells(D \cup {k}, w))
           /\ Cardinality(Cells(D \cup {k}, w)) = Cardinality(Cells(D, v)) + w[k]
<1> DEFINE new == {k} \X (1..w[k])
<1>1. Cells(D \cup {k}, w) = Cells(D, v) \cup new
  BY Zenon DEF Cells
<1>2. Cells(D, v) \cap new = {}
  BY DEF Cells
<1>3. IsFiniteSet(1..w[k]) /\ Cardinality(1..w[k]) = w[k]
  BY SMTT(30), FS_Interval
<1>4. IsFiniteSet({k}) /\ Cardinality({k}) = 1
  BY FS_Singleton
<1>5. IsFiniteSet(new) /\ Cardinality(new) = Cardinality({k}) * Cardinality(1..w[k])
  BY <1>3, <1>4, FS_Product, Zenon
<1>6. Cardinality(new) = w[k]
  BY <1>3, <1>4, <1>5
<1>7. Cardinality(Cells(D, v)) \in Nat
  BY FS_CardinalityType
<1> HIDE DEF new
<1>8. /\ IsFiniteSet(Cells(D, v) \cup new)
      /\ Cardinality(Cells(D, v) \cup new)
           = Cardinality(Cells(D, v)) + Cardinality(new) - Cardinality(Cells(D, v) \cap new)
  BY <1>5, FS_Union, Zenon
<1>9. Cardinality(Cells(D, v) \cap new) = 0
  BY <1>2, FS_EmptySet
<1>10. Cardinality(Cells(D, v) \cup new) = Cardinality(Cells(D, v)) + w[k]
  BY <1>6, <1>7, <1>8, <1>9
<1> QED
  BY <1>1, <1>8, <1>10, Zenon

(* Dropping a key takes away its cells. *)
LEMMA CellsDrop ==
    ASSUME NEW D, NEW v, NEW w, NEW k \in D,
           \A x \in D \ {k} : v[x] = w[x],
           v[k] \in Nat, IsFiniteSet(Cells(D, v))
    PROVE  /\ IsFiniteSet(Cells(D \ {k}, w))
           /\ Cardinality(Cells(D, v)) = Cardinality(Cells(D \ {k}, w)) + v[k]
<1>1. Cells(D \ {k}, w) \subseteq Cells(D, v)
  BY Zenon DEF Cells
<1>2. IsFiniteSet(Cells(D \ {k}, w))
  BY <1>1, FS_Subset
<1>3. (D \ {k}) \cup {k} = D /\ k \notin D \ {k}
  OBVIOUS
<1>4. Cardinality(Cells((D \ {k}) \cup {k}, v)) = Cardinality(Cells(D \ {k}, w)) + v[k]
  <2> DEFINE E == D \ {k}
  <2>1. k \notin E /\ (\A x \in E : w[x] = v[x]) /\ IsFiniteSet(Cells(E, w))
    BY <1>2
  <2> HIDE DEF E
  <2>2. Cardinality(Cells(E \cup {k}, v)) = Cardinality(Cells(E, w)) + v[k]
    BY <2>1, CellsAdd
  <2> QED
    BY <2>2 DEF E
<1> QED
  BY <1>2, <1>3, <1>4

(* Insert, when it succeeds, keeps the invariant. *)
LEMMA InsertKeepsInv ==
    ASSUME NoOverflow, StoreInv, NEW key \in Keys, NEW size \in Int,
           InsertOutcome(key, size) = "ok", Insert(key, size)
    PROVE  StoreInv'
<1> USE CapacityAssumption, KeyLenAssumption
<1>1. size \in 0..Capacity /\ Projected(key, size) <= Capacity
  <2>1. ~(size < 0) /\ ~(size > Capacity) /\ ~(Projected(key, size) > Capacity)
    BY DEF InsertOutcome
  <2>2. Projected(key, size) \in Int
    BY DEF StoreInv, StoreTypeOK, Projected, Wrap
  <2> QED
    BY <2>1, <2>2
<1>2. Resident' = Resident \cup {key} /\ items'[key] = size
      /\ \A x \in Resident \ {key} : items'[x] = items[x]
  BY DEF Insert, Bind, Resident
<1>3. StoreTypeOK' => Resident' \subseteq Keys /\ items' \in [Resident' -> 0..Capacity]
  BY DEF StoreTypeOK
<1>4. Resident' \subseteq Keys /\ items' \in [Resident' -> 0..Capacity]
  BY <1>1 DEF Insert, Bind, Resident, StoreInv, StoreTypeOK
<1>5. CASE key \in Resident
  <2>1. items[key] \in 0..Capacity
    BY <1>5 DEF StoreInv, StoreTypeOK
  <2> DEFINE rest == Cardinality(Cells(Resident \ {key}, items))
  <2>2. /\ IsFiniteSet(Cells(Resident \ {key}, items))
        /\ bytes = rest + items[key]
    <3>1. IsFiniteSet(Cells(Resident, items)) /\ bytes = Cardinality(Cells(Resident, items))
      BY DEF StoreInv, BytesExact
    <3>2. items[key] \in Nat
      BY <2>1
    <3> QED
      BY <1>5, <3>1, <3>2, CellsDrop
  <2>3. rest \in Nat
    BY <2>2, FS_CardinalityType
  <2>4. /\ IsFiniteSet(Cells((Resident \ {key}) \cup {key}, items'))
        /\ Cardinality(Cells((Resident \ {key}) \cup {key}, items')) = rest + size
    <3> DEFINE E == Resident \ {key}
    <3>1. key \notin E /\ (\A x \in E : items[x] = items'[x]) /\ items'[key] \in Nat /\ items'[key] = size
      BY <1>1, <1>2
    <3>2. IsFiniteSet(Cells(E, items))
      BY <2>2
    <3> HIDE DEF E
    <3>3. /\ IsFiniteSet(Cells(E \cup {key}, items'))
          /\ Cardinality(Cells(E \cup {key}, items')) = Cardinality(Cells(E, items)) + size
      BY <3>1, <3>2, CellsAdd
    <3> QED
      BY <3>3 DEF E
  <2>5. (Resident \ {key}) \cup {key} = Resident' /\ Resident' = Resident
    BY <1>2, <1>5
  <2>6. bytes \in 0..Capacity
    BY DEF StoreInv, WithinCapacity
  <2>7. Wrap(bytes + size) = bytes + size /\ Wrap((bytes + size) - items[key]) = (bytes + size) - items[key]
    BY <1>1, <2>1, <2>6, WrapInRange DEF NoOverflow
  <2>8. bytes + size - items[key] <= Capacity
    <3>1. Projected(key, size) = Wrap(Wrap(bytes + size) - items[key])
      BY <1>5 DEF Projected
    <3>2. Projected(key, size) = (bytes + size) - items[key]
      BY <2>7, <3>1, Zenon
    <3> QED
      BY <1>1, <2>1, <2>6, <3>2
  <2>9. Wrap(bytes - items[key]) = bytes - items[key] /\ Wrap(bytes - items[key] + size) = bytes - items[key] + size
    BY <1>1, <2>1, <2>6, WrapInRange DEF NoOverflow
  <2>10. bytes' = rest + size /\ bytes' \in 0..Capacity /\ keyBytes' = keyBytes
    <3>1. bytes' = Wrap(Wrap(bytes - items[key]) + size) /\ keyBytes' = keyBytes
      BY <1>5 DEF Insert
    <3> HIDE DEF rest
    <3> QED
      BY <1>1, <2>1, <2>2, <2>3, <2>6, <2>8, <2>9, <3>1
  <2> HIDE DEF rest
  <2>11. IsFiniteSet(Cells(Resident', items')) /\ bytes' = Cardinality(Cells(Resident', items'))
    BY <2>4, <2>5, <2>10
  <2>12. IsFiniteSet(Cells(Resident', KeyLen)) /\ keyBytes' = Cardinality(Cells(Resident', KeyLen)) /\ keyBytes' \in Int
    BY <2>5, <2>10 DEF StoreInv, BytesExact, StoreTypeOK
  <2>13. bytes' \in -(MaxInt + 1)..MaxInt
    BY <2>10
  <2> QED
    BY <1>4, <2>10, <2>11, <2>12, <2>13 DEF StoreInv, StoreTypeOK, BytesExact, WithinCapacity
<1>6. CASE key \notin Resident
  <2>1. bytes \in 0..Capacity
    BY DEF StoreInv, WithinCapacity
  <2>2. Wrap(bytes + size) = bytes + size
    BY <1>1, <2>1, WrapInRange DEF NoOverflow
  <2>3. bytes' = bytes + size /\ bytes' \in 0..Capacity /\ keyBytes' = keyBytes + KeyLen[key]
    BY <1>1, <1>6, <2>1, <2>2 DEF Insert, Projected
  <2>4. /\ IsFiniteSet(Cells(Resident', items'))
        /\ Cardinality(Cells(Resident', items')) = bytes + size
    <3>1. key \notin Resident /\ (\A x \in Resident : items[x] = items'[x]) /\ items'[key] \in Nat /\ items'[key] = size
      BY <1>1, <1>2, <1>6
    <3>2. IsFiniteSet(Cells(Resident, items)) /\ bytes = Cardinality(Cells(Resident, items))
      BY DEF StoreInv, BytesExact
    <3>3. Resident' = Resident \cup {key}
      BY <1>2
    <3> DEFINE D == Resident
    <3>4. key \notin D /\ (\A x \in D : items[x] = items'[x]) /\ items'[key] \in Nat /\ IsFiniteSet(Cells(D, items))
      BY <3>1, <3>2
    <3> HIDE DEF D
    <3>5. /\ IsFiniteSet(Cells(D \cup {key}, items'))
          /\ Cardinality(Cells(D \cup {key}, items')) = Cardinality(Cells(D, items)) + items'[key]
      BY ONLY <3>4, CellsAdd
    <3> QED
      BY <3>1, <3>2, <3>3, <3>5 DEF D
  <2>5. /\ IsFiniteSet(Cells(Resident', KeyLen))
        /\ Cardinality(Cells(Resident', KeyLen)) = keyBytes + KeyLen[key]
    <3>1. IsFiniteSet(Cells(Resident, KeyLen)) /\ keyBytes = Cardinality(Cells(Resident, KeyLen))
      BY DEF StoreInv, BytesExact
    <3>2. Resident' = Resident \cup {key} /\ KeyLen[key] \in Nat
      BY <1>2
    <3> QED
      BY <1>6, <3>1, <3>2, CellsAdd
  <2>6. bytes' \in -(MaxInt + 1)..MaxInt /\ keyBytes' \in Int
    BY <2>3 DEF StoreInv, StoreTypeOK
  <2> QED
    BY <1>4, <2>3, <2>4, <2>5, <2>6 DEF StoreInv, StoreTypeOK, BytesExact, WithinCapacity
<1> QED
  BY <1>5, <1>6

(* Remove keeps the invariant. *)
LEMMA RemoveKeepsInv ==
    ASSUME NoOverflow, StoreInv, NEW key \in Keys, RemoveEntry(key)
    PROVE  /\ StoreInv'
           /\ bytes' = bytes - items[key]
           /\ items[key] \in 0..Capacity
<1> USE CapacityAssumption, KeyLenAssumption
<1>1. key \in Resident /\ Resident' = Resident \ {key} /\ items' \in [Resident' -> 0..Capacity]
      /\ Resident' \subseteq Keys /\ items[key] \in 0..Capacity
      /\ \A x \in Resident \ {key} : items'[x] = items[x]
  BY DEF RemoveEntry, Unbind, Resident, StoreInv, StoreTypeOK
<1>2. IsFiniteSet(Cells(Resident', items')) /\ bytes = Cardinality(Cells(Resident', items')) + items[key]
  <2>1. IsFiniteSet(Cells(Resident, items)) /\ bytes = Cardinality(Cells(Resident, items))
    BY DEF StoreInv, BytesExact
  <2>2. \A x \in Resident \ {key} : items[x] = items'[x]
    BY <1>1
  <2>3. key \in Resident /\ items[key] \in Nat /\ Resident' = Resident \ {key}
    BY <1>1
  <2>4. /\ IsFiniteSet(Cells(Resident \ {key}, items'))
        /\ Cardinality(Cells(Resident, items)) = Cardinality(Cells(Resident \ {key}, items')) + items[key]
    BY <2>1, <2>2, <2>3, CellsDrop
  <2> QED
    BY <2>1, <2>3, <2>4
<1>3. IsFiniteSet(Cells(Resident', KeyLen)) /\ keyBytes = Cardinality(Cells(Resident', KeyLen)) + KeyLen[key]
  <2>1. IsFiniteSet(Cells(Resident, KeyLen)) /\ keyBytes = Cardinality(Cells(Resident, KeyLen))
    BY DEF StoreInv, BytesExact
  <2>2. key \in Resident /\ KeyLen[key] \in Nat /\ Resident' = Resident \ {key}
    BY <1>1
  <2>3. /\ IsFiniteSet(Cells(Resident \ {key}, KeyLen))
        /\ Cardinality(Cells(Resident, KeyLen)) = Cardinality(Cells(Resident \ {key}, KeyLen)) + KeyLen[key]
    BY <2>1, <2>2, CellsDrop
  <2> QED
    BY <2>1, <2>2, <2>3
<1>4. Cardinality(Cells(Resident', items')) \in Nat /\ Cardinality(Cells(Resident', KeyLen)) \in Nat
  BY <1>2, <1>3, FS_CardinalityType
<1>5. bytes \in 0..Capacity
  BY DEF StoreInv, WithinCapacity
<1>6. Wrap(bytes - items[key]) = bytes - items[key]
  BY <1>1, <1>5, WrapInRange
<1>7. bytes' = bytes - items[key] /\ keyBytes' = keyBytes - KeyLen[key]
  BY <1>6 DEF RemoveEntry
<1>8. /\ bytes' = Cardinality(Cells(Resident', items')) /\ bytes' \in 0..Capacity
      /\ bytes' \in -(MaxInt + 1)..MaxInt
      /\ keyBytes' = Cardinality(Cells(Resident', KeyLen)) /\ keyBytes' \in Int
  BY <1>1, <1>2, <1>3, <1>4, <1>5, <1>7
<1> QED
  BY <1>1, <1>2, <1>3, <1>7, <1>8 DEF StoreInv, StoreTypeOK, BytesExact, WithinCapacity

(* Nothing is resident in a new or cleared store. *)
LEMMA EmptyHasInv ==
    ASSUME items = EmptyMap, bytes = 0, keyBytes = 0
    PROVE  StoreInv /\ Resident = {}
<1>1. Resident = {}
  BY DEF Resident, EmptyMap
<1>2. \A w : Cells(Resident, w) = {}
  BY <1>1 DEF Cells
<1>3. items \in [Resident -> 0..Capacity]
  BY <1>1 DEF EmptyMap
<1>4. IsFiniteSet({}) /\ Cardinality({}) = 0
  BY FS_EmptySet
<1>5. StoreTypeOK /\ WithinCapacity
  BY <1>1, <1>3, CapacityAssumption DEF StoreTypeOK, WithinCapacity
<1>6. BytesExact /\ IsFiniteSet(Cells(Resident, items)) /\ IsFiniteSet(Cells(Resident, KeyLen))
  BY <1>2, <1>4 DEF BytesExact
<1> QED
  BY <1>1, <1>5, <1>6 DEF StoreInv

LEMMA ClearKeepsInv ==
    ASSUME ClearStore
    PROVE  StoreInv' /\ Resident' = {} /\ bytes' = 0
<1>1. Resident' = {}
  BY DEF Resident, EmptyMap, ClearStore
<1>2. Cells(Resident', items') = {} /\ Cells(Resident', KeyLen) = {}
  BY <1>1 DEF Cells
<1>3. items' \in [Resident' -> 0..Capacity]
  BY <1>1 DEF EmptyMap, ClearStore
<1>4. IsFiniteSet({}) /\ Cardinality({}) = 0
  BY FS_EmptySet
<1>5. StoreTypeOK' /\ WithinCapacity'
  BY <1>1, <1>3, CapacityAssumption DEF StoreTypeOK, WithinCapacity, ClearStore
<1>6. BytesExact' /\ IsFiniteSet(Cells(Resident', items')) /\ IsFiniteSet(Cells(Resident', KeyLen))
  BY <1>2, <1>4 DEF BytesExact, ClearStore
<1> QED
  BY <1>1, <1>5, <1>6 DEF StoreInv, ClearStore

(* An insert that does not fit now finds something to evict. *)
LEMMA FullMeansResident ==
    ASSUME NoOverflow, StoreInv, NEW key \in Keys, NEW size \in Int,
           InsertOutcome(key, size) = "ErrCapacityExceeded"
    PROVE  Resident # {} /\ size \in 0..Capacity
<1> USE CapacityAssumption
<1>1. size \in 0..Capacity /\ Projected(key, size) > Capacity
  BY DEF InsertOutcome
<1>2. SUFFICES ASSUME Resident = {} PROVE FALSE
  BY <1>1
<1>3. Cells(Resident, items) = {}
  BY <1>2 DEF Cells
<1>4. bytes = 0
  BY <1>3, FS_EmptySet DEF StoreInv, BytesExact
<1>5. Projected(key, size) = Wrap(size)
  BY <1>1, <1>2, <1>4 DEF Projected
<1>6. Wrap(size) = size
  BY <1>1, WrapInRange
<1> QED
  BY <1>1, <1>5, <1>6

(* A successful insert adds its key and at most its size. *)
LEMMA InsertAdds ==
    ASSUME NoOverflow, StoreInv, NEW key \in Keys, NEW size \in Int,
           InsertOutcome(key, size) = "ok", Insert(key, size)
    PROVE  Resident' = Resident \cup {key} /\ bytes' <= bytes + size
<1> USE CapacityAssumption
<1>1. Resident' = Resident \cup {key}
  BY DEF Insert, Bind, Resident
<1>2. size \in 0..Capacity /\ bytes \in 0..Capacity
  BY DEF InsertOutcome, StoreInv, WithinCapacity
<1>3. CASE key \in Resident
  <2>1. items[key] \in 0..Capacity
    BY <1>3 DEF StoreInv, StoreTypeOK
  <2>2. Wrap(bytes - items[key]) = bytes - items[key] /\ Wrap(bytes - items[key] + size) = bytes - items[key] + size
    BY <1>2, <2>1, WrapInRange DEF NoOverflow
  <2>3. bytes' = Wrap(Wrap(bytes - items[key]) + size)
    BY <1>3 DEF Insert
  <2> QED
    BY <1>1, <1>2, <2>1, <2>2, <2>3
<1>4. CASE key \notin Resident
  <2>1. Wrap(bytes + size) = bytes + size
    BY <1>2, WrapInRange DEF NoOverflow
  <2> QED
    BY <1>1, <1>2, <1>4, <2>1 DEF Insert
<1> QED
  BY <1>3, <1>4

LEMMA RemoveDrops ==
    ASSUME NEW key, RemoveEntry(key)
    PROVE  key \in Resident /\ Resident' = Resident \ {key}
BY DEF RemoveEntry, Unbind, Resident

-----------------------------------------------------------------------------
(* The cache core *)

(* Where the holder of c.mu is, and its locals. *)
Stage == IF mu = Free THEN "free" ELSE pc[mu]
Cur == call[mu]

(* c.mu is held exactly by the goroutine that is between Lock and Unlock. *)
LockInv == \A t \in Threads : pc[t] \in LockedSteps <=> mu = t

(* The locals that RecordRequest and RecordFetch add up are sizes of       *)
(* entries, and an eviction happens only for an object that fits an empty  *)
(* store, with a policy installed.                                         *)
SizeInv ==
    /\ \A t \in Threads : pc[t] = "get_record" => call[t].size \in Nat
    /\ \A t \in Threads : pc[t] = "put_lock" => call[t].evicted = 0
    /\ Stage = "put_noted" => Cur.size \in 0..Capacity
    /\ Stage = "put_insert" /\ Cur.evicted # 0 => Installed /\ Cur.size \in 0..Capacity
    /\ Stage \in {"put_evict", "put_evicted"} => Installed /\ Cur.size \in 0..Capacity
    /\ Stage = "put_evict" => InsertOutcome(Cur.key, Cur.size) = "ErrCapacityExceeded"

(* Every resident key is tracked, up to what the lock holder is about to   *)
(* tell the policy.                                                        *)
CoverInv ==
    Installed =>
      /\ Stage \in {"free", "put_insert", "put_evict", "put_evicted", "remove_noted"} => Resident \subseteq tracked
      /\ Stage = "put_noted" => Resident \subseteq tracked \cup {Cur.key}
      /\ Stage = "put_evicted" => Cur.victim \notin Resident
      /\ Stage = "remove_noted" => Cur.key \notin Resident
      /\ Stage = "clear_reset" => Resident = {}

(* No other key is tracked, up to the same. *)
ExactInv ==
    Installed =>
      /\ Stage \in {"free", "put_insert", "put_evict", "put_noted"} => tracked \subseteq Resident
      /\ Stage = "put_noted" => Cur.key \in Resident
      /\ Stage = "put_evicted" => tracked \subseteq Resident \cup {Cur.victim}
      /\ Stage = "remove_noted" => tracked \subseteq Resident \cup {Cur.key}

(* The byte ledger, up to what the lock holder is about to record. *)
LedgerInv ==
    /\ Stage \in {"free", "put_insert", "put_evict", "remove_noted", "clear_reset", "set_rebuild"} =>
          bytes + metrics.evictedBytes <= metrics.fetched
    /\ Stage = "put_noted" => bytes + metrics.evictedBytes <= metrics.fetched + Cur.size
    /\ Stage = "put_evicted" => bytes + metrics.evictedBytes + Cur.freed <= metrics.fetched

CoreInv == TypeOK /\ StoreInv /\ LockInv /\ SizeInv /\ CoverInv /\ LedgerInv

(* The policy given to New has no metadata yet. *)
FreshPolicy == InitTracked = {{}}

-----------------------------------------------------------------------------
LEMMA NoCallType == NoCall \in CallType /\ NoCall.evicted = 0
BY KeysAssumption, CapacityAssumption DEF NoCall, CallType

(* The record updates of the actions stay in type. *)
LEMMA CallUpdates ==
    ASSUME NEW c \in CallType, NEW k \in Keys, NEW n \in Nat
    PROVE  /\ [c EXCEPT !.key = k, !.seq = n] \in CallType
           /\ \A s \in Sizes : [c EXCEPT !.key = k, !.size = s, !.seq = n] \in CallType
           /\ \A s \in 0..Capacity : [c EXCEPT !.size = s] \in CallType
           /\ [c EXCEPT !.evicted = @ + 1] \in CallType
           /\ \A f \in 0..Capacity : [c EXCEPT !.victim = k, !.freed = f] \in CallType
<1>1. c.evicted + 1 \in Nat
  BY DEF CallType
<1>2. \A m \in Nat : [c EXCEPT !.evicted = m] \in CallType
  BY DEF CallType
<1>3. \A s \in 0..Capacity : [c EXCEPT !.size = s] \in CallType
  BY DEF CallType
<1>4. [c EXCEPT !.key = k, !.seq = n] \in CallType
  BY DEF CallType
<1>5. \A s \in Sizes : [c EXCEPT !.key = k, !.size = s, !.seq = n] \in CallType
  BY DEF CallType
<1>6. \A f \in 0..Capacity : [c EXCEPT !.victim = k, !.freed = f] \in CallType
  BY DEF CallType
<1> QED
  BY <1>1, <1>2, <1>3, <1>4, <1>5, <1>6

(* So does an update of one goroutine's record. *)
LEMMA CallsUpdate ==
    ASSUME NEW f \in [Threads -> CallType], NEW t \in Threads, NEW c \in CallType
    PROVE  [f EXCEPT ![t] = c] \in [Threads -> CallType]
OBVIOUS

LEMMA CallFields ==
    ASSUME NEW c \in CallType
    PROVE  c.key \in Keys /\ c.size \in Int /\ c.freed \in Nat
<1>1. c.size \in Sizes \cup 0..Capacity
  BY DEF CallType
<1>2. Sizes \cup 0..Capacity \subseteq Int
  BY SizesAssumption, CapacityAssumption
<1>3. c.freed \in Nat
  BY CapacityAssumption DEF CallType
<1> QED
  BY <1>1, <1>2, <1>3 DEF CallType

LEMMA MetricsUpdates ==
    ASSUME NEW m \in MetricsType, NEW n \in Nat
    PROVE  /\ [m EXCEPT !.total = @ + 1, !.fetched = @ + n] \in MetricsType
           /\ [m EXCEPT !.evictedBytes = @ + n] \in MetricsType
<1>1. \A a, b \in Nat : /\ [m EXCEPT !.total = a, !.fetched = b] \in MetricsType
                        /\ [m EXCEPT !.evictedBytes = a] \in MetricsType
  BY DEF MetricsType
<1>2. m.total + 1 \in Nat /\ m.fetched + n \in Nat /\ m.evictedBytes + n \in Nat
  BY DEF MetricsType
<1> QED
  BY <1>1, <1>2

(* The initial states satisfy the invariant. *)
LEMMA InitInv == Init => CoreInv
<1> SUFFICES ASSUME Init PROVE CoreInv
  OBVIOUS
<1>1. StoreInv /\ Resident = {}
  BY EmptyHasInv DEF Init, StoreInit
<1>2. TypeOK
  BY <1>1, NoCallType, InitTrackedAssumption
     DEF Init, TypeOK, StoreInv, MetricsType, Steps, LockedSteps, Outcomes, Errors
<1>3. LockInv
  BY ThreadAssumption DEF Init, LockInv, LockedSteps
<1>4. Stage = "free"
  BY DEF Init, Stage
<1>5. SizeInv
  BY <1>4 DEF Init, SizeInv
<1>6. CoverInv
  BY <1>1, <1>4 DEF CoverInv
<1>7. LedgerInv
  BY <1>4 DEF Init, LedgerInv, StoreInit
<1> QED
  BY <1>1, <1>2, <1>3, <1>5, <1>6, <1>7 DEF CoreInv

-----------------------------------------------------------------------------
(* The steps a goroutine takes without holding c.mu past them.         *)
Outside(t) ==
    \/ \E k \in Keys : GetBegin(t, k) \/ RemoveAbsent(t, k)
    \/ \E k \in Keys, s \in Sizes : PutBegin(t, k, s)
    \/ GetTouch(t) \/ GetRecord(t) \/ GetPublish(t) \/ PutRefused(t) \/ SetPolicyMetrics(t)

(* They leave the store, the policy and the lock holder as they are. *)
LEMMA OutsideStep ==
    ASSUME TypeOK, LockInv, NEW t \in Threads, Outside(t)
    PROVE  /\ UNCHANGED <<items, bytes, keyBytes, policy, tracked, mu>>
           /\ Stage' = Stage
           /\ mu # Free => Cur' = Cur
           /\ pc[t] \notin LockedSteps /\ pc'[t] \notin LockedSteps
           /\ \A u \in Threads \ {t} : pc'[u] = pc[u] /\ call'[u] = call[u]
<1>1. pc[t] \notin LockedSteps
  BY DEF Outside, GetBegin, GetTouch, GetRecord, GetPublish, PutBegin, PutRefused, RemoveAbsent,
         SetPolicyMetrics, LockedSteps
<1>2. mu # t
  BY <1>1 DEF LockInv
<1>3. /\ UNCHANGED <<items, bytes, keyBytes, policy, tracked, mu>>
      /\ pc'[t] \notin LockedSteps
      /\ \A u \in Threads \ {t} : pc'[u] = pc[u] /\ call'[u] = call[u]
  BY DEF TypeOK, Outside, GetBegin, GetTouch, GetRecord, GetPublish, PutBegin, PutRefused, RemoveAbsent,
         SetPolicyMetrics, LockedSteps, Goto, Return, LockAndUnlock, storeVars, policyVars
<1> QED
  BY <1>1, <1>2, <1>3 DEF Stage, Cur, TypeOK

(* The holder of c.mu is the goroutine whose step needs it. *)
LEMMA HolderIs ==
    ASSUME LockInv, NEW t \in Threads, pc[t] \in LockedSteps
    PROVE  mu = t /\ Stage = pc[t] /\ Cur = call[t]
BY ThreadAssumption DEF LockInv, Stage, Cur

(* Lock discipline is kept by every step. *)
LEMMA LockKept ==
    ASSUME TypeOK, LockInv, [Next]_vars
    PROVE  LockInv'
<1> USE ThreadAssumption DEF LockInv, TypeOK, LockedSteps, Goto, Return, Lock, Unlock, LockAndUnlock
<1>1. CASE UNCHANGED vars
  BY <1>1 DEF vars
<1>2. ASSUME NEW t \in Threads, Outside(t) PROVE LockInv'
  BY <1>2, OutsideStep
<1>3. ASSUME NEW t \in Threads, PutLock(t) PROVE LockInv'
  BY <1>3 DEF PutLock
<1>4. ASSUME NEW t \in Threads, PutInsert(t) PROVE LockInv'
  BY <1>4 DEF PutInsert
<1>5. ASSUME NEW t \in Threads, PutNoted(t) PROVE LockInv'
  BY <1>5 DEF PutNoted
<1>6. ASSUME NEW t \in Threads, PutFails(t) PROVE LockInv'
  BY <1>6 DEF PutFails
<1>7. ASSUME NEW t \in Threads, PutFull(t) PROVE LockInv'
  BY <1>7 DEF PutFull
<1>8. ASSUME NEW t \in Threads, EvictNothing(t) PROVE LockInv'
  BY <1>8 DEF EvictNothing
<1>9. ASSUME NEW t \in Threads, NEW v \in Keys, EvictPhantom(t, v) PROVE LockInv'
  BY <1>9 DEF EvictPhantom
<1>10. ASSUME NEW t \in Threads, NEW v \in Keys, Evict(t, v) PROVE LockInv'
  BY <1>10 DEF Evict
<1>11. ASSUME NEW t \in Threads, EvictNoted(t) PROVE LockInv'
  BY <1>11 DEF EvictNoted
<1>12. ASSUME NEW t \in Threads, NEW k \in Keys, Remove(t, k) PROVE LockInv'
  BY <1>12 DEF Remove
<1>13. ASSUME NEW t \in Threads, RemoveNoted(t) PROVE LockInv'
  BY <1>13 DEF RemoveNoted
<1>14. ASSUME NEW t \in Threads, Clear(t) PROVE LockInv'
  BY <1>14 DEF Clear
<1>15. ASSUME NEW t \in Threads, ClearReset(t) PROVE LockInv'
  BY <1>15 DEF ClearReset
<1>16. ASSUME NEW t \in Threads, NEW p \in Policies \cup {NoPolicy}, SetPolicy(t, p) PROVE LockInv'
  BY <1>16 DEF SetPolicy
<1>17. ASSUME NEW t \in Threads, SetPolicyRebuild(t) PROVE LockInv'
  BY <1>17 DEF SetPolicyRebuild
<1> QED
  BY <1>1, <1>2, <1>3, <1>4, <1>5, <1>6, <1>7, <1>8, <1>9, <1>10, <1>11, <1>12, <1>13, <1>14, <1>15, <1>16, <1>17
     DEF Next, Start, Acquire, Continue, Outside

(* The store's totals stay exact and within capacity in every step. *)
LEMMA StoreKept ==
    ASSUME NoOverflow, TypeOK, StoreInv, LockInv, [Next]_vars
    PROVE  StoreInv'
<1> DEFINE Same == items' = items /\ bytes' = bytes /\ keyBytes' = keyBytes
<1>1. Same => StoreInv'
  BY DEF StoreInv, StoreTypeOK, BytesExact, WithinCapacity, Resident
<1>2. ASSUME NEW t \in Threads, Outside(t) PROVE Same
  BY <1>2, OutsideStep
<1>3. ASSUME NEW t \in Threads, PutInsert(t) PROVE StoreInv'
  <2>1. call[t].key \in Keys /\ call[t].size \in Int
    BY CallFields DEF TypeOK
  <2> QED
    BY <1>3, <2>1, InsertKeepsInv DEF PutInsert
<1>4. ASSUME NEW t \in Threads, NEW v \in Keys, Evict(t, v) PROVE StoreInv'
  BY <1>4, RemoveKeepsInv DEF Evict
<1>5. ASSUME NEW t \in Threads, NEW k \in Keys, Remove(t, k) PROVE StoreInv'
  BY <1>5, RemoveKeepsInv DEF Remove
<1>6. ASSUME NEW t \in Threads, Clear(t) PROVE StoreInv'
  BY <1>6, ClearKeepsInv DEF Clear
<1>7. ASSUME NEW t \in Threads,
             \/ PutLock(t) \/ PutNoted(t) \/ PutFails(t) \/ PutFull(t) \/ EvictNothing(t) \/ EvictNoted(t)
             \/ RemoveNoted(t) \/ ClearReset(t) \/ SetPolicyRebuild(t)
             \/ \E v \in Keys : EvictPhantom(t, v)
             \/ \E p \in Policies \cup {NoPolicy} : SetPolicy(t, p)
      PROVE  Same
  BY <1>7 DEF PutLock, PutNoted, PutFails, PutFull, EvictNothing, EvictNoted, RemoveNoted, ClearReset,
              EvictPhantom, SetPolicy, SetPolicyRebuild, storeVars
<1>8. CASE UNCHANGED vars
  BY <1>1, <1>8 DEF vars
<1> HIDE DEF Same
<1> QED
  BY <1>1, <1>2, <1>3, <1>4, <1>5, <1>6, <1>7, <1>8 DEF Next, Start, Acquire, Continue, Outside

(* Every step keeps the types, given that the store keeps its own. *)
LEMMA TypeKept ==
    ASSUME NoOverflow, TypeOK, StoreInv, StoreInv', LockInv, SizeInv, [Next]_vars
    PROVE  TypeOK'
<1> USE NoCallType DEF TypeOK, Goto, Return, Lock, Unlock, LockAndUnlock, storeVars, policyVars, Steps, LockedSteps,
                       Outcomes, Errors
<1>0. StoreTypeOK'
  BY DEF StoreInv
<1>1. CASE UNCHANGED vars
  BY <1>0, <1>1 DEF vars
<1>2. ASSUME NEW t \in Threads, NEW k \in Keys, GetBegin(t, k) PROVE TypeOK'
  <2>1. [NoCall EXCEPT !.key = k, !.seq = seq + 1] \in CallType
    <3> DEFINE n == seq + 1
    <3>1. n \in Nat /\ NoCall \in CallType
      BY SMTT(30)
    <3> HIDE DEF n
    <3>2. [NoCall EXCEPT !.key = k, !.seq = n] \in CallType
      BY ONLY <3>1, CallUpdates, k \in Keys
    <3> QED
      BY <3>2 DEF n
  <2> QED
    BY <1>0, <1>2, <2>1 DEF GetBegin
<1>3. ASSUME NEW t \in Threads, GetTouch(t) PROVE TypeOK'
  <2> DEFINE s == IF call[t].key \in Resident THEN items[call[t].key] ELSE 0
  <2>1. s \in 0..Capacity
    BY CapacityAssumption DEF StoreTypeOK
  <2>2. call' = [call EXCEPT ![t] = [call[t] EXCEPT !.size = s]]
    BY <1>3 DEF GetTouch
  <2>3. call \in [Threads -> CallType] /\ call[t] \in CallType
    BY SMTT(30)
  <2> HIDE DEF s
  <2>4. [call[t] EXCEPT !.size = s] \in CallType
    BY ONLY <2>1, <2>3, KeysAssumption, CallUpdates
  <2>5. call' \in [Threads -> CallType]
    BY ONLY <2>2, <2>3, <2>4, CallsUpdate, t \in Threads
  <2> QED
    BY <1>0, <1>3, <2>5 DEF GetTouch
<1>4. ASSUME NEW t \in Threads, GetRecord(t) PROVE TypeOK'
  <2>1. call[t].size \in Nat
    BY <1>4 DEF GetRecord, SizeInv
  <2>2. metrics' \in MetricsType
    <3> DEFINE got == IF ret[t] = "hit" THEN 0 ELSE call[t].size
    <3>1. got \in Nat
      BY <2>1
    <3>2. metrics' = [metrics EXCEPT !.total = @ + 1, !.fetched = @ + got]
      BY <1>4 DEF GetRecord
    <3> HIDE DEF got
    <3> QED
      BY <3>1, <3>2, MetricsUpdates
  <2> QED
    BY <1>0, <1>4, <2>2 DEF GetRecord
<1>5. ASSUME NEW t \in Threads, GetPublish(t) PROVE TypeOK'
  BY <1>0, <1>5 DEF GetPublish
<1>6. ASSUME NEW t \in Threads, NEW k \in Keys, NEW s \in Sizes, PutBegin(t, k, s) PROVE TypeOK'
  <2>1. [NoCall EXCEPT !.key = k, !.size = s, !.seq = seq + 1] \in CallType
    <3> DEFINE n == seq + 1
    <3>1. n \in Nat /\ NoCall \in CallType
      BY SMTT(30)
    <3> HIDE DEF n
    <3>2. [NoCall EXCEPT !.key = k, !.size = s, !.seq = n] \in CallType
      BY ONLY <3>1, CallUpdates, k \in Keys, s \in Sizes
    <3> QED
      BY <3>2 DEF n
  <2> QED
    BY <1>0, <1>6, <2>1 DEF PutBegin
<1>7. ASSUME NEW t \in Threads, PutRefused(t) PROVE TypeOK'
  BY <1>0, <1>7 DEF PutRefused
<1>8. ASSUME NEW t \in Threads, PutLock(t) PROVE TypeOK'
  BY <1>0, <1>8 DEF PutLock
<1>9. ASSUME NEW t \in Threads, PutInsert(t) PROVE TypeOK'
  BY <1>0, <1>9 DEF PutInsert
<1>10. ASSUME NEW t \in Threads, PutNoted(t) PROVE TypeOK'
  <2>1. call[t].size \in Nat /\ call[t].key \in Keys
    BY <1>10, HolderIs, CapacityAssumption DEF PutNoted, SizeInv, CallType
  <2> QED
    BY <1>0, <1>10, <2>1 DEF PutNoted, MetricsType
<1>11. ASSUME NEW t \in Threads, PutFails(t) PROVE TypeOK'
  BY <1>0, <1>11 DEF PutFails
<1>12. ASSUME NEW t \in Threads, PutFull(t) PROVE TypeOK'
  BY <1>0, <1>12 DEF PutFull
<1>13. ASSUME NEW t \in Threads, EvictNothing(t) PROVE TypeOK'
  BY <1>0, <1>13 DEF EvictNothing
<1>14. ASSUME NEW t \in Threads, NEW v \in Keys, EvictPhantom(t, v) PROVE TypeOK'
  BY <1>0, <1>14 DEF EvictPhantom
<1>15. ASSUME NEW t \in Threads, NEW v \in Keys, Evict(t, v) PROVE TypeOK'
  <2>1. items[v] \in 0..Capacity
    BY <1>15, RemoveKeepsInv DEF Evict
  <2>2. call' = [call EXCEPT ![t] = [call[t] EXCEPT !.victim = v, !.freed = items[v]]]
    BY <1>15 DEF Evict
  <2>3. call \in [Threads -> CallType] /\ call[t] \in CallType
    OBVIOUS
  <2>4. [call[t] EXCEPT !.victim = v, !.freed = items[v]] \in CallType
    BY ONLY <2>1, <2>3, v \in Keys, CallUpdates
  <2>5. call' \in [Threads -> CallType]
    BY ONLY <2>2, <2>3, <2>4, CallsUpdate, t \in Threads
  <2> QED
    BY <1>0, <1>15, <2>5 DEF Evict
<1>16. ASSUME NEW t \in Threads, EvictNoted(t) PROVE TypeOK'
  <2>1. call' \in [Threads -> CallType]
    <3>1. call' = [call EXCEPT ![t] = [call[t] EXCEPT !.evicted = @ + 1]]
      BY SMTT(30), <1>16 DEF EvictNoted
    <3>2. call \in [Threads -> CallType] /\ call[t] \in CallType
      OBVIOUS
    <3>3. [call[t] EXCEPT !.evicted = @ + 1] \in CallType
      BY ONLY <3>2, KeysAssumption, CallUpdates
    <3> QED
      BY ONLY <3>1, <3>2, <3>3, CallsUpdate, t \in Threads
  <2>2. metrics' \in MetricsType
    <3>1. call[t] \in CallType /\ metrics \in MetricsType
      OBVIOUS
    <3>2. metrics' = [metrics EXCEPT !.evictedBytes = @ + call[t].freed]
      BY <1>16 DEF EvictNoted
    <3> QED
      BY ONLY <3>1, <3>2, CallFields, MetricsUpdates
  <2> QED
    BY <1>0, <1>16, <2>1, <2>2 DEF EvictNoted
<1>17. ASSUME NEW t \in Threads, NEW k \in Keys, RemoveAbsent(t, k) PROVE TypeOK'
  BY <1>0, <1>17 DEF RemoveAbsent
<1>18. ASSUME NEW t \in Threads, NEW k \in Keys, Remove(t, k) PROVE TypeOK'
  BY <1>0, <1>18 DEF Remove, CallType
<1>19. ASSUME NEW t \in Threads, RemoveNoted(t) PROVE TypeOK'
  BY <1>0, <1>19 DEF RemoveNoted
<1>20. ASSUME NEW t \in Threads, Clear(t) PROVE TypeOK'
  BY <1>0, <1>20 DEF Clear
<1>21. ASSUME NEW t \in Threads, ClearReset(t) PROVE TypeOK'
  BY <1>0, <1>21 DEF ClearReset
<1>22. ASSUME NEW t \in Threads, NEW p \in Policies \cup {NoPolicy}, SetPolicy(t, p) PROVE TypeOK'
  BY <1>0, <1>22 DEF SetPolicy, CallType
<1>23. ASSUME NEW t \in Threads, SetPolicyMetrics(t) PROVE TypeOK'
  BY <1>0, <1>23 DEF SetPolicyMetrics, CallType, MetricsType
<1>24. ASSUME NEW t \in Threads, SetPolicyRebuild(t) PROVE TypeOK'
  BY <1>0, <1>24 DEF SetPolicyRebuild, StoreTypeOK
<1> QED
  BY <1>1, <1>2, <1>3, <1>4, <1>5, <1>6, <1>7, <1>8, <1>9, <1>10, <1>11, <1>12, <1>13, <1>14, <1>15, <1>16,
     <1>17, <1>18, <1>19, <1>20, <1>21, <1>22, <1>23, <1>24
     DEF Next, Start, Acquire, Continue
-----------------------------------------------------------------------------
(* The steps that take, hold or release c.mu. *)
Inside(t) ==
    \/ PutLock(t) \/ PutInsert(t) \/ PutNoted(t) \/ PutFails(t) \/ PutFull(t)
    \/ EvictNothing(t) \/ EvictNoted(t) \/ RemoveNoted(t) \/ Clear(t) \/ ClearReset(t)
    \/ SetPolicyRebuild(t)
    \/ \E k \in Keys : EvictPhantom(t, k) \/ Evict(t, k) \/ Remove(t, k)
    \/ \E p \in Policies \cup {NoPolicy} : SetPolicy(t, p)

(* They concern no other goroutine, and none starts or ends outside code. *)
LEMMA InsideStep ==
    ASSUME TypeOK, NEW t \in Threads, Inside(t)
    PROVE  /\ pc'[t] \notin {"get_record", "put_lock"}
           /\ \A u \in Threads \ {t} : pc'[u] = pc[u] /\ call'[u] = call[u]
BY DEF Inside, TypeOK, PutLock, PutInsert, PutNoted, PutFails, PutFull, EvictNothing, EvictNoted, EvictPhantom, Evict,
       Remove, RemoveNoted, Clear, ClearReset, SetPolicy, SetPolicyRebuild, Goto, Return

(* How the lock holder's place and locals change in each of them. *)
LEMMA StageSteps ==
    ASSUME TypeOK, LockInv, NEW t \in Threads
    PROVE
      /\ PutLock(t) => Stage = "free" /\ pc[t] = "put_lock" /\ Stage' = "put_insert" /\ Cur' = call[t]
      /\ PutInsert(t) => Stage = "put_insert" /\ Cur = call[t] /\ Stage' = "put_noted" /\ Cur' = Cur
      /\ PutNoted(t) => Stage = "put_noted" /\ Cur = call[t] /\ Stage' = "free"
      /\ PutFails(t) => Stage = "put_insert" /\ Cur = call[t] /\ Stage' = "free"
      /\ PutFull(t) => Stage = "put_insert" /\ Cur = call[t] /\ Stage' = "put_evict" /\ Cur' = Cur
      /\ EvictNothing(t) => Stage = "put_evict" /\ Cur = call[t] /\ Stage' = "free"
      /\ \A v \in Keys : EvictPhantom(t, v) => Stage = "put_evict" /\ Cur = call[t] /\ Stage' = "free"
      /\ \A v \in Keys : Evict(t, v) =>
             /\ Stage = "put_evict" /\ Cur = call[t] /\ Stage' = "put_evicted"
             /\ Cur'.key = Cur.key /\ Cur'.size = Cur.size /\ Cur'.victim = v /\ Cur'.freed = items[v]
      /\ EvictNoted(t) =>
             /\ Stage = "put_evicted" /\ Cur = call[t] /\ Stage' = "put_insert"
             /\ Cur'.key = Cur.key /\ Cur'.size = Cur.size
      /\ \A k \in Keys : Remove(t, k) => Stage = "free" /\ Stage' = "remove_noted" /\ Cur'.key = k
      /\ RemoveNoted(t) => Stage = "remove_noted" /\ Cur = call[t] /\ Stage' = "free"
      /\ Clear(t) => Stage = "free" /\ Stage' = "clear_reset"
      /\ ClearReset(t) => Stage = "clear_reset" /\ Cur = call[t] /\ Stage' = "free"
      /\ \A p \in Policies \cup {NoPolicy} : SetPolicy(t, p) => Stage = "free" /\ Stage' = "set_rebuild"
      /\ SetPolicyRebuild(t) => Stage = "set_rebuild" /\ Stage' = "free"
<1> USE ThreadAssumption DEF Stage, Cur, TypeOK, Goto, Return, Lock, Unlock, LockAndUnlock
<1>1. ASSUME PutLock(t)
      PROVE  Stage = "free" /\ pc[t] = "put_lock" /\ Stage' = "put_insert" /\ Cur' = call[t]
  BY <1>1 DEF PutLock
<1>2. ASSUME PutInsert(t)
      PROVE  Stage = "put_insert" /\ Cur = call[t] /\ Stage' = "put_noted" /\ Cur' = Cur
  <2>1. pc[t] \in LockedSteps /\ mu = t
    BY <1>2 DEF PutInsert, LockedSteps, LockInv
  <2> QED
    BY <1>2, <2>1 DEF PutInsert
<1>3. ASSUME PutNoted(t)
      PROVE  Stage = "put_noted" /\ Cur = call[t] /\ Stage' = "free"
  <2>1. pc[t] \in LockedSteps /\ mu = t
    BY <1>3 DEF PutNoted, LockedSteps, LockInv
  <2> QED
    BY <1>3, <2>1 DEF PutNoted
<1>4. ASSUME PutFails(t)
      PROVE  Stage = "put_insert" /\ Cur = call[t] /\ Stage' = "free"
  <2>1. pc[t] \in LockedSteps /\ mu = t
    BY <1>4 DEF PutFails, LockedSteps, LockInv
  <2> QED
    BY <1>4, <2>1 DEF PutFails
<1>5. ASSUME PutFull(t)
      PROVE  Stage = "put_insert" /\ Cur = call[t] /\ Stage' = "put_evict" /\ Cur' = Cur
  <2>1. pc[t] \in LockedSteps /\ mu = t
    BY <1>5 DEF PutFull, LockedSteps, LockInv
  <2> QED
    BY <1>5, <2>1 DEF PutFull
<1>6. ASSUME EvictNothing(t)
      PROVE  Stage = "put_evict" /\ Cur = call[t] /\ Stage' = "free"
  <2>1. pc[t] \in LockedSteps /\ mu = t
    BY <1>6 DEF EvictNothing, LockedSteps, LockInv
  <2> QED
    BY <1>6, <2>1 DEF EvictNothing
<1>7. ASSUME NEW v \in Keys, EvictPhantom(t, v)
      PROVE  Stage = "put_evict" /\ Cur = call[t] /\ Stage' = "free"
  <2>1. pc[t] \in LockedSteps /\ mu = t
    BY <1>7 DEF EvictPhantom, LockedSteps, LockInv
  <2> QED
    BY <1>7, <2>1 DEF EvictPhantom
<1>8. ASSUME NEW v \in Keys, Evict(t, v)
      PROVE  /\ Stage = "put_evict" /\ Cur = call[t] /\ Stage' = "put_evicted"
         /\ Cur'.key = Cur.key /\ Cur'.size = Cur.size /\ Cur'.victim = v /\ Cur'.freed = items[v]
  <2>1. pc[t] \in LockedSteps /\ mu = t
    BY <1>8 DEF Evict, LockedSteps, LockInv
  <2> QED
    BY <1>8, <2>1 DEF Evict, CallType
<1>9. ASSUME EvictNoted(t)
      PROVE  /\ Stage = "put_evicted" /\ Cur = call[t] /\ Stage' = "put_insert"
         /\ Cur'.key = Cur.key /\ Cur'.size = Cur.size
  <2>1. pc[t] \in LockedSteps /\ mu = t
    BY <1>9 DEF EvictNoted, LockedSteps, LockInv
  <2> QED
    BY <1>9, <2>1 DEF EvictNoted, CallType
<1>10. ASSUME NEW k \in Keys, Remove(t, k)
      PROVE  Stage = "free" /\ Stage' = "remove_noted" /\ Cur'.key = k
  BY <1>10, NoCallType DEF Remove, CallType
<1>11. ASSUME RemoveNoted(t)
      PROVE  Stage = "remove_noted" /\ Cur = call[t] /\ Stage' = "free"
  <2>1. pc[t] \in LockedSteps /\ mu = t
    BY <1>11 DEF RemoveNoted, LockedSteps, LockInv
  <2> QED
    BY <1>11, <2>1 DEF RemoveNoted
<1>12. ASSUME Clear(t)
      PROVE  Stage = "free" /\ Stage' = "clear_reset"
  BY <1>12 DEF Clear
<1>13. ASSUME ClearReset(t)
      PROVE  Stage = "clear_reset" /\ Cur = call[t] /\ Stage' = "free"
  <2>1. pc[t] \in LockedSteps /\ mu = t
    BY <1>13 DEF ClearReset, LockedSteps, LockInv
  <2> QED
    BY <1>13, <2>1 DEF ClearReset
<1>14. ASSUME NEW p \in Policies \cup {NoPolicy}, SetPolicy(t, p)
      PROVE  Stage = "free" /\ Stage' = "set_rebuild"
  BY <1>14 DEF SetPolicy
<1>15. ASSUME SetPolicyRebuild(t)
      PROVE  Stage = "set_rebuild" /\ Stage' = "free"
  <2>1. pc[t] \in LockedSteps /\ mu = t
    BY <1>15 DEF SetPolicyRebuild, LockedSteps, LockInv
  <2> QED
    BY <1>15, <2>1 DEF SetPolicyRebuild
<1> QED
  BY <1>1, <1>2, <1>3, <1>4, <1>5, <1>6, <1>7, <1>8, <1>9, <1>10, <1>11, <1>12, <1>13, <1>14, <1>15

(* The locals that will be recorded stay sizes of entries. *)
LEMMA SizeKept ==
    ASSUME NoOverflow, TypeOK, StoreInv, LockInv, SizeInv, [Next]_vars
    PROVE  SizeInv'
<1> DEFINE Callers == /\ \A u \in Threads : pc[u] = "get_record" => call[u].size \in Nat
                      /\ \A u \in Threads : pc[u] = "put_lock" => call[u].evicted = 0
           Holder == /\ Stage = "put_noted" => Cur.size \in 0..Capacity
                     /\ Stage = "put_insert" /\ Cur.evicted # 0 => Installed /\ Cur.size \in 0..Capacity
                     /\ Stage \in {"put_evict", "put_evicted"} => Installed /\ Cur.size \in 0..Capacity
                     /\ Stage = "put_evict" => InsertOutcome(Cur.key, Cur.size) = "ErrCapacityExceeded"
<1>1. SizeInv <=> Callers /\ Holder
  BY DEF SizeInv
<1>2. SizeInv' <=> Callers' /\ Holder'
  BY DEF SizeInv
<1>3. CASE UNCHANGED vars
  BY <1>3 DEF vars, SizeInv, Stage, Cur, Installed, InsertOutcome, Projected, Resident
<1>4. ASSUME NEW t \in Threads, Outside(t) PROVE Callers' /\ Holder'
  <2>1. /\ UNCHANGED <<items, bytes, policy>> /\ Stage' = Stage /\ (mu # Free => Cur' = Cur)
        /\ \A u \in Threads \ {t} : pc'[u] = pc[u] /\ call'[u] = call[u]
    BY <1>4, OutsideStep
  <2>2. Holder'
    <3>1. CASE mu = Free
      BY <2>1, <3>1 DEF Stage
    <3>2. CASE mu # Free
      BY <1>1, <2>1, <3>2 DEF Installed, InsertOutcome, Projected, Resident
    <3> QED
      BY <3>1, <3>2
  <2>3. pc'[t] = "get_record" => call'[t].size \in Nat
    <3>1. CASE GetTouch(t)
      <4>1. call[t].key \in Resident => items[call[t].key] \in Nat
        BY CapacityAssumption DEF TypeOK, StoreTypeOK
      <4> QED
        BY <3>1, <4>1 DEF GetTouch, TypeOK, CallType
    <3>2. CASE ~GetTouch(t)
      BY <1>4, <3>2 DEF Outside, GetBegin, GetRecord, GetPublish, PutBegin, PutRefused, RemoveAbsent, SetPolicyMetrics,
                        Goto, Return, TypeOK
    <3> QED
      BY <3>1, <3>2
  <2>4. pc'[t] = "put_lock" => call'[t].evicted = 0
    <3>1. ASSUME NEW k \in Keys, NEW s \in Sizes, PutBegin(t, k, s) PROVE call'[t].evicted = 0
      BY <3>1, NoCallType DEF PutBegin, TypeOK, CallType
    <3>2. CASE ~ \E k \in Keys, s \in Sizes : PutBegin(t, k, s)
      BY <1>4, <3>2 DEF Outside, GetBegin, GetTouch, GetRecord, GetPublish, PutRefused, RemoveAbsent, SetPolicyMetrics,
                        Goto, Return, TypeOK
    <3> QED
      BY <3>1, <3>2
  <2> QED
    BY <1>1, <2>1, <2>2, <2>3, <2>4
<1>5. ASSUME NEW t \in Threads, Inside(t) PROVE Callers'
  BY <1>1, <1>5, InsideStep
<1>6. ASSUME NEW t \in Threads, PutLock(t) PROVE Holder'
  BY <1>1, <1>6, StageSteps
<1>7. ASSUME NEW t \in Threads, PutInsert(t) PROVE Holder'
  <2>1. Cur.size \in Int /\ InsertOutcome(Cur.key, Cur.size) = "ok"
    BY <1>7, StageSteps, CallFields DEF PutInsert, TypeOK
  <2>2. Cur.size \in 0..Capacity
    BY <2>1, CapacityAssumption DEF InsertOutcome
  <2> QED
    BY <1>7, <2>2, StageSteps
<1>8. ASSUME NEW t \in Threads, PutFull(t) PROVE Holder'
  <2>1. /\ Cur.key \in Keys /\ Cur.size \in Int /\ Installed /\ Installed'
        /\ InsertOutcome(Cur.key, Cur.size) = "ErrCapacityExceeded"
    BY <1>8, StageSteps, CallFields DEF PutFull, TypeOK, Installed, policyVars
  <2>2. Cur.size \in 0..Capacity
    BY <2>1, FullMeansResident
  <2>3. InsertOutcome(Cur.key, Cur.size)' = "ErrCapacityExceeded"
    BY <1>8, <2>1, StageSteps DEF PutFull, storeVars, InsertOutcome, Projected, Resident
  <2> QED
    BY <1>8, <2>1, <2>2, <2>3, StageSteps
<1>9. ASSUME NEW t \in Threads, NEW v \in Keys, Evict(t, v) PROVE Holder'
  BY <1>1, <1>9, StageSteps DEF Evict, policyVars, Installed
<1>10. ASSUME NEW t \in Threads, EvictNoted(t) PROVE Holder'
  BY <1>1, <1>10, StageSteps DEF EvictNoted, Installed
<1>11. ASSUME NEW t \in Threads, NEW k \in Keys, Remove(t, k) PROVE Holder'
  BY <1>11, StageSteps
<1>12. ASSUME NEW t \in Threads, Clear(t) PROVE Holder'
  BY <1>12, StageSteps
<1>13. ASSUME NEW t \in Threads,
              \/ PutNoted(t) \/ PutFails(t) \/ EvictNothing(t) \/ RemoveNoted(t) \/ ClearReset(t)
              \/ SetPolicyRebuild(t)
              \/ \E v \in Keys : EvictPhantom(t, v)
              \/ \E p \in Policies \cup {NoPolicy} : SetPolicy(t, p)
       PROVE  Holder'
  <2>1. Stage' \in {"free", "set_rebuild"}
    BY <1>13, StageSteps
  <2> QED
    BY <2>1
<1> HIDE DEF Callers, Holder
<1> QED
  BY <1>1, <1>2, <1>3, <1>4, <1>5, <1>6, <1>7, <1>8, <1>9, <1>10, <1>11, <1>12, <1>13
     DEF Next, Start, Acquire, Continue, Outside, Inside

(* No resident key is ever forgotten by the installed policy. *)
LEMMA CoverKept ==
    ASSUME NoOverflow, TypeOK, StoreInv, LockInv, SizeInv, CoverInv, [Next]_vars
    PROVE  CoverInv'
<1> USE DEF CoverInv, Installed
<1>1. CASE UNCHANGED vars
  BY <1>1 DEF vars, Stage, Cur, Resident
<1>2. ASSUME NEW t \in Threads, Outside(t) PROVE CoverInv'
  <2>1. UNCHANGED <<items, policy, tracked>> /\ Stage' = Stage /\ (mu # Free => Cur' = Cur)
    BY <1>2, OutsideStep
  <2>2. CASE mu = Free
    BY <2>1, <2>2 DEF Stage, Resident
  <2>3. CASE mu # Free
    BY <2>1, <2>3 DEF Resident
  <2> QED
    BY <2>2, <2>3
<1>3. ASSUME NEW t \in Threads, PutLock(t) \/ PutFull(t) \/ PutFails(t) \/ EvictNothing(t) PROVE CoverInv'
  <2>1. UNCHANGED <<items, policy, tracked>>
    BY <1>3 DEF PutLock, PutFull, PutFails, EvictNothing, storeVars, policyVars
  <2>2. Stage \in {"free", "put_insert", "put_evict"} /\ Stage' \in {"free", "put_insert", "put_evict"}
    BY <1>3, StageSteps
  <2> QED
    BY <2>1, <2>2 DEF Resident
<1>4. ASSUME NEW t \in Threads, PutInsert(t) PROVE CoverInv'
  <2>1. Cur = call[t] /\ Cur.key \in Keys /\ Cur.size \in Int
    BY <1>4, StageSteps, CallFields DEF TypeOK
  <2>2. Resident' = Resident \cup {Cur.key}
    BY <1>4, <2>1, InsertAdds DEF PutInsert
  <2> QED
    BY <1>4, <2>2, StageSteps DEF PutInsert, policyVars
<1>5. ASSUME NEW t \in Threads, PutNoted(t) PROVE CoverInv'
  BY <1>5, StageSteps DEF PutNoted, storeVars, Resident
<1>6. ASSUME NEW t \in Threads, NEW v \in Keys, EvictPhantom(t, v) PROVE CoverInv'
  BY <1>6, StageSteps DEF EvictPhantom, storeVars, Resident
<1>7. ASSUME NEW t \in Threads, NEW v \in Keys, Evict(t, v) PROVE CoverInv'
  BY ZenonT(30), <1>7, StageSteps, RemoveDrops DEF Evict, policyVars
<1>8. ASSUME NEW t \in Threads, EvictNoted(t) PROVE CoverInv'
  BY <1>8, StageSteps DEF EvictNoted, storeVars, Resident
<1>9. ASSUME NEW t \in Threads, NEW k \in Keys, Remove(t, k) PROVE CoverInv'
  BY <1>9, StageSteps, RemoveDrops DEF Remove, policyVars
<1>10. ASSUME NEW t \in Threads, RemoveNoted(t) PROVE CoverInv'
  BY <1>10, StageSteps DEF RemoveNoted, storeVars, Resident
<1>11. ASSUME NEW t \in Threads, Clear(t) PROVE CoverInv'
  BY <1>11, StageSteps, ClearKeepsInv DEF Clear
<1>12. ASSUME NEW t \in Threads, ClearReset(t) PROVE CoverInv'
  BY <1>12, StageSteps DEF ClearReset, storeVars, Resident
<1>13. ASSUME NEW t \in Threads, NEW p \in Policies \cup {NoPolicy}, SetPolicy(t, p) PROVE CoverInv'
  BY <1>13, StageSteps
<1>14. ASSUME NEW t \in Threads, SetPolicyRebuild(t) PROVE CoverInv'
  BY <1>14, StageSteps DEF SetPolicyRebuild, storeVars, Resident
<1> QED
  BY <1>1, <1>2, <1>3, <1>4, <1>5, <1>6, <1>7, <1>8, <1>9, <1>10, <1>11, <1>12, <1>13, <1>14
     DEF Next, Start, Acquire, Continue, Outside

(* No key that is not resident is ever added to the installed policy. *)
LEMMA ExactKept ==
    ASSUME NoOverflow, TypeOK, StoreInv, LockInv, ExactInv, [Next]_vars
    PROVE  ExactInv'
<1> USE DEF ExactInv, Installed
<1>1. CASE UNCHANGED vars
  BY <1>1 DEF vars, Stage, Cur, Resident
<1>2. ASSUME NEW t \in Threads, Outside(t) PROVE ExactInv'
  <2>1. UNCHANGED <<items, policy, tracked>> /\ Stage' = Stage /\ (mu # Free => Cur' = Cur)
    BY <1>2, OutsideStep
  <2>2. CASE mu = Free
    BY <2>1, <2>2 DEF Stage, Resident
  <2>3. CASE mu # Free
    BY <2>1, <2>3 DEF Resident
  <2> QED
    BY <2>2, <2>3
<1>3. ASSUME NEW t \in Threads, PutLock(t) \/ PutFull(t) \/ PutFails(t) \/ EvictNothing(t) PROVE ExactInv'
  <2>1. UNCHANGED <<items, policy, tracked>>
    BY <1>3 DEF PutLock, PutFull, PutFails, EvictNothing, storeVars, policyVars
  <2>2. Stage \in {"free", "put_insert", "put_evict"} /\ Stage' \in {"free", "put_insert", "put_evict"}
    BY <1>3, StageSteps
  <2> QED
    BY <2>1, <2>2 DEF Resident
<1>4. ASSUME NEW t \in Threads, PutInsert(t) PROVE ExactInv'
  <2>1. Cur = call[t] /\ Cur.key \in Keys /\ Cur.size \in Int
    BY <1>4, StageSteps, CallFields DEF TypeOK
  <2>2. Resident' = Resident \cup {Cur.key}
    BY <1>4, <2>1, InsertAdds DEF PutInsert
  <2> QED
    BY <1>4, <2>2, StageSteps DEF PutInsert, policyVars
<1>5. ASSUME NEW t \in Threads, PutNoted(t) PROVE ExactInv'
  BY <1>5, StageSteps DEF PutNoted, storeVars, Resident
<1>6. ASSUME NEW t \in Threads, NEW v \in Keys, EvictPhantom(t, v) PROVE ExactInv'
  BY <1>6, StageSteps DEF EvictPhantom, storeVars, Resident
<1>7. ASSUME NEW t \in Threads, NEW v \in Keys, Evict(t, v) PROVE ExactInv'
  BY ZenonT(30), <1>7, StageSteps, RemoveDrops DEF Evict, policyVars
<1>8. ASSUME NEW t \in Threads, EvictNoted(t) PROVE ExactInv'
  BY <1>8, StageSteps DEF EvictNoted, storeVars, Resident
<1>9. ASSUME NEW t \in Threads, NEW k \in Keys, Remove(t, k) PROVE ExactInv'
  BY <1>9, StageSteps, RemoveDrops DEF Remove, policyVars
<1>10. ASSUME NEW t \in Threads, RemoveNoted(t) PROVE ExactInv'
  BY <1>10, StageSteps DEF RemoveNoted, storeVars, Resident
<1>11. ASSUME NEW t \in Threads, Clear(t) PROVE ExactInv'
  BY <1>11, StageSteps, ClearKeepsInv DEF Clear
<1>12. ASSUME NEW t \in Threads, ClearReset(t) PROVE ExactInv'
  BY <1>12, StageSteps DEF ClearReset, storeVars, Resident
<1>13. ASSUME NEW t \in Threads, NEW p \in Policies \cup {NoPolicy}, SetPolicy(t, p) PROVE ExactInv'
  BY <1>13, StageSteps
<1>14. ASSUME NEW t \in Threads, SetPolicyRebuild(t) PROVE ExactInv'
  BY <1>14, StageSteps DEF SetPolicyRebuild, storeVars, Resident
<1> QED
  BY <1>1, <1>2, <1>3, <1>4, <1>5, <1>6, <1>7, <1>8, <1>9, <1>10, <1>11, <1>12, <1>13, <1>14
     DEF Next, Start, Acquire, Continue, Outside

(* Bytes enter the ledger once, as fetched, and leave the store as         *)
(* evicted, removed, replaced or cleared bytes.                            *)
LEMMA LedgerKept ==
    ASSUME NoOverflow, TypeOK, StoreInv, StoreInv', LockInv, SizeInv, LedgerInv, [Next]_vars
    PROVE  LedgerInv'
<1> USE CapacityAssumption DEF LedgerInv
<1>0. /\ bytes \in Nat /\ bytes' \in Nat /\ metrics.evictedBytes \in Nat /\ metrics.fetched \in Nat
      /\ mu # Free => Cur.freed \in Nat /\ Cur.size \in Int
  BY CallFields DEF StoreInv, WithinCapacity, TypeOK, MetricsType, CallType, Cur
<1>1. CASE UNCHANGED vars
  BY <1>1 DEF vars, Stage, Cur
<1>2. ASSUME NEW t \in Threads, Outside(t) PROVE LedgerInv'
  <2>1. UNCHANGED bytes /\ Stage' = Stage /\ (mu # Free => Cur' = Cur)
    BY <1>2, OutsideStep
  <2>2. metrics'.evictedBytes = metrics.evictedBytes /\ metrics'.fetched \in Nat /\ metrics'.fetched >= metrics.fetched
    <3>1. CASE GetRecord(t)
      <4>1. call[t].size \in Nat
        BY <3>1 DEF GetRecord, SizeInv
      <4> DEFINE got == IF ret[t] = "hit" THEN 0 ELSE call[t].size
      <4>2. got \in Nat
        BY <4>1
      <4>3. metrics'.evictedBytes = metrics.evictedBytes /\ metrics'.fetched = metrics.fetched + got
        BY <3>1 DEF GetRecord, TypeOK, MetricsType
      <4> HIDE DEF got
      <4> QED
        BY <1>0, <4>2, <4>3
    <3>2. CASE SetPolicyMetrics(t)
      BY <1>0, <3>2 DEF SetPolicyMetrics, TypeOK, MetricsType
    <3>3. CASE ~GetRecord(t) /\ ~SetPolicyMetrics(t)
      <4>1. metrics' = metrics
        BY <1>2, <3>3 DEF Outside, GetBegin, GetTouch, GetPublish, PutBegin, PutRefused, RemoveAbsent
      <4> QED
        BY <1>0, <4>1
    <3> QED
      BY <3>1, <3>2, <3>3
  <2>3. CASE mu = Free
    BY <1>0, <2>1, <2>2, <2>3 DEF Stage
  <2>4. CASE mu # Free
    BY <1>0, <2>1, <2>2, <2>4
  <2> QED
    BY <2>3, <2>4
<1>3. ASSUME NEW t \in Threads,
             \/ PutLock(t) \/ PutFull(t) \/ PutFails(t) \/ EvictNothing(t) \/ RemoveNoted(t) \/ ClearReset(t)
             \/ SetPolicyRebuild(t)
             \/ \E v \in Keys : EvictPhantom(t, v)
             \/ \E p \in Policies \cup {NoPolicy} : SetPolicy(t, p)
      PROVE  LedgerInv'
  <2>1. UNCHANGED <<bytes, metrics>>
    BY <1>3 DEF PutLock, PutFull, PutFails, EvictNothing, RemoveNoted, ClearReset, EvictPhantom, SetPolicy,
                SetPolicyRebuild, storeVars
  <2>2. /\ Stage \in {"free", "put_insert", "put_evict", "remove_noted", "clear_reset", "set_rebuild"}
        /\ Stage' \in {"free", "put_insert", "put_evict", "remove_noted", "clear_reset", "set_rebuild"}
    BY <1>3, StageSteps
  <2> QED
    BY <2>1, <2>2
<1>4. ASSUME NEW t \in Threads, PutInsert(t) PROVE LedgerInv'
  <2>1. Cur = call[t] /\ Cur.key \in Keys /\ Cur.size \in Int
    BY <1>4, StageSteps, CallFields DEF TypeOK
  <2>2. bytes' <= bytes + Cur.size
    BY <1>4, <2>1, InsertAdds DEF PutInsert
  <2>3. Stage = "put_insert" /\ Stage' = "put_noted" /\ Cur' = Cur /\ metrics' = metrics
    BY <1>4, StageSteps DEF PutInsert
  <2> QED
    BY <1>0, <2>1, <2>2, <2>3
<1>5. ASSUME NEW t \in Threads, PutNoted(t) PROVE LedgerInv'
  <2>1. Stage = "put_noted" /\ Stage' = "free" /\ Cur = call[t] /\ bytes' = bytes
    BY <1>5, StageSteps DEF PutNoted, storeVars
  <2>2. metrics'.fetched = metrics.fetched + Cur.size /\ metrics'.evictedBytes = metrics.evictedBytes
    BY <1>5, <2>1 DEF PutNoted, TypeOK, MetricsType
  <2> QED
    BY <1>0, <2>1, <2>2
<1>6. ASSUME NEW t \in Threads, NEW v \in Keys, Evict(t, v) PROVE LedgerInv'
  <2>1. bytes' = bytes - items[v] /\ items[v] \in 0..Capacity
    BY <1>6, RemoveKeepsInv DEF Evict
  <2>2. Stage = "put_evict" /\ Stage' = "put_evicted" /\ Cur'.freed = items[v] /\ metrics' = metrics
    BY <1>6, StageSteps DEF Evict
  <2> QED
    BY <1>0, <2>1, <2>2
<1>7. ASSUME NEW t \in Threads, EvictNoted(t) PROVE LedgerInv'
  <2>1. Stage = "put_evicted" /\ Stage' = "put_insert" /\ Cur = call[t] /\ bytes' = bytes
    BY <1>7, StageSteps DEF EvictNoted, storeVars
  <2>2. metrics'.fetched = metrics.fetched /\ metrics'.evictedBytes = metrics.evictedBytes + Cur.freed
    BY <1>7, <2>1 DEF EvictNoted, TypeOK, MetricsType
  <2>3. mu # Free
    BY <2>1 DEF Stage
  <2> QED
    BY <1>0, <2>1, <2>2, <2>3
<1>8. ASSUME NEW t \in Threads, NEW k \in Keys, Remove(t, k) PROVE LedgerInv'
  <2>1. bytes' = bytes - items[k] /\ items[k] \in 0..Capacity
    BY <1>8, RemoveKeepsInv DEF Remove
  <2>2. Stage = "free" /\ Stage' = "remove_noted" /\ metrics' = metrics
    BY <1>8, StageSteps DEF Remove
  <2> QED
    BY <1>0, <2>1, <2>2
<1>9. ASSUME NEW t \in Threads, Clear(t) PROVE LedgerInv'
  <2>1. bytes' = 0
    BY <1>9, ClearKeepsInv DEF Clear
  <2>2. Stage = "free" /\ Stage' = "clear_reset" /\ metrics' = metrics
    BY <1>9, StageSteps DEF Clear
  <2> QED
    BY <1>0, <2>1, <2>2
<1> QED
  BY <1>1, <1>2, <1>3, <1>4, <1>5, <1>6, <1>7, <1>8, <1>9 DEF Next, Start, Acquire, Continue, Outside

-----------------------------------------------------------------------------
(* CoreInv is inductive. *)
LEMMA CoreInvKept ==
    ASSUME NoOverflow, CoreInv, [Next]_vars
    PROVE  CoreInv'
BY StoreKept, TypeKept, LockKept, SizeKept, CoverKept, LedgerKept DEF CoreInv

(* CoreInvariant: the inductive invariant holds in every reachable state,  *)
(* for any number of goroutines, keys and policies and any capacity whose  *)
(* sums fit an int64 (core.go:79-265, store.go:72-186).                    *)
THEOREM CoreInvariant == ASSUME NoOverflow PROVE Spec => []CoreInv
<1>1. CoreInv /\ [Next]_vars => CoreInv'
  BY CoreInvKept
<1> QED
  BY <1>1, InitInv, PTL DEF Spec

(* TypeCorrect: every variable keeps its type; in particular no entry has  *)
(* a negative size and the recorded totals are natural numbers.            *)
THEOREM TypeCorrect == ASSUME NoOverflow PROVE Spec => []TypeOK
<1>0. Spec => []CoreInv
  BY CoreInvariant
<1>1. CoreInv => TypeOK
  BY DEF CoreInv
<1> QED
  BY <1>0, <1>1, PTL

(* StoreExact: under any interleaving the byte totals equal what is        *)
(* resident (store.go:10).                                                 *)
THEOREM StoreExact == ASSUME NoOverflow PROVE Spec => []BytesExact
<1>0. Spec => []CoreInv
  BY CoreInvariant
<1>1. CoreInv => BytesExact
  BY DEF CoreInv, StoreInv
<1> QED
  BY <1>0, <1>1, PTL

(* StoreBounded: and they never exceed the capacity (store.go:83-90).      *)
THEOREM StoreBounded == ASSUME NoOverflow PROVE Spec => []WithinCapacity
<1>0. Spec => []CoreInv
  BY CoreInvariant
<1>1. CoreInv => WithinCapacity
  BY DEF CoreInv, StoreInv
<1> QED
  BY <1>0, <1>1, PTL

(* NothingForgotten: whatever metadata the initial policy brought, every   *)
(* resident entry can become a victim (core.go:59, 215-228).               *)
THEOREM NothingForgotten == ASSUME NoOverflow PROVE Spec => []ResidentTracked
<1>0. Spec => []CoreInv
  BY CoreInvariant
<1>1. CoreInv => ResidentTracked
  BY DEF CoreInv, CoverInv, ResidentTracked, Stage
<1> QED
  BY <1>0, <1>1, PTL

(* LedgerCovers: fetched bytes account for every resident and evicted byte *)
(* (core.go:138, 250).                                                     *)
THEOREM LedgerCovers == ASSUME NoOverflow PROVE Spec => []FetchedCoversResident
<1>0. Spec => []CoreInv
  BY CoreInvariant
<1>1. CoreInv => FetchedCoversResident
  BY DEF CoreInv, LedgerInv, FetchedCoversResident, Stage
<1> QED
  BY <1>0, <1>1, PTL

(* PolicyExact: a policy that was fresh when New took it has metadata for  *)
(* exactly the resident keys whenever c.mu is free (core.go:215-228,       *)
(* 243-249).                                                               *)
THEOREM PolicyExact == ASSUME NoOverflow, FreshPolicy PROVE Spec => []PolicyTracksStore
<1>0. Spec => []CoreInv
  BY CoreInvariant
<1>1. Init => ExactInv
  BY EmptyHasInv DEF Init, FreshPolicy, ExactInv, Stage, StoreInit
<1>2. CoreInv /\ ExactInv /\ [Next]_vars => ExactInv'
  BY ExactKept DEF CoreInv
<1>3. CoreInv /\ ExactInv => PolicyTracksStore
  BY DEF CoreInv, CoverInv, ExactInv, PolicyTracksStore, Stage
<1> QED
  BY <1>0, <1>1, <1>2, <1>3, PTL DEF Spec

(* ErrorsAreClean: with a fresh policy whose Victim never fails while it   *)
(* tracks keys, a Put that returns an error evicted nothing, and a full    *)
(* store is reported only when no policy is installed (core.go:117-147).   *)
THEOREM ErrorsAreClean ==
    ASSUME NoOverflow, FreshPolicy, ~VictimMayFail PROVE Spec => ErrorsChangeNothing
<1>0. Spec => []CoreInv
  BY CoreInvariant
<1>1. Init => ExactInv
  BY EmptyHasInv DEF Init, FreshPolicy, ExactInv, Stage, StoreInit
<1>2. CoreInv /\ ExactInv /\ [Next]_vars => ExactInv'
  BY ExactKept DEF CoreInv
<1>3. ASSUME CoreInv, ExactInv, Next PROVE CleanReturn
  <2> USE <1>3 DEF CoreInv
  <2>1. ASSUME NEW t \in Threads, Outside(t) PROVE CleanReturn
    <3>1. pc[t] \notin LockedSteps /\ \A u \in Threads \ {t} : pc'[u] = pc[u]
      BY <2>1, OutsideStep
    <3> QED
      BY <3>1 DEF LockedSteps, CleanReturn
  <2>2. ASSUME NEW t \in Threads, Inside(t),
               pc[t] \in LockedSteps /\ pc'[t] = "idle" /\ ret'[t] \in Errors =>
                  call[t].evicted = 0 /\ (ret'[t] = "ErrCapacityExceeded" => ~Installed)
        PROVE  CleanReturn
    <3>1. \A u \in Threads \ {t} : pc'[u] = pc[u]
      BY <2>2, InsideStep
    <3> QED
      BY <2>2, <3>1 DEF LockedSteps, CleanReturn
  <2>3. ASSUME NEW t \in Threads, PutFails(t)
        PROVE  call[t].evicted = 0 /\ (ret'[t] = "ErrCapacityExceeded" => ~Installed)
    <3>1. Stage = "put_insert" /\ Cur = call[t] /\ Cur.size \in Int
      BY <2>3, StageSteps, CallFields DEF TypeOK
    <3>2. /\ InsertOutcome(Cur.key, Cur.size) \in Errors
          /\ InsertOutcome(Cur.key, Cur.size) = "ErrCapacityExceeded" => ~Installed
          /\ ret'[t] = InsertOutcome(Cur.key, Cur.size)
      BY <2>3, <3>1 DEF PutFails, Return, TypeOK
    <3>3. ~Installed \/ Cur.size \notin 0..Capacity
      BY <3>1, <3>2, CapacityAssumption DEF InsertOutcome, Errors
    <3> QED
      BY <3>1, <3>2, <3>3 DEF SizeInv
  <2>4. ASSUME NEW t \in Threads, EvictNothing(t) \/ \E v \in Keys : EvictPhantom(t, v)
        PROVE  FALSE
    <3>1. Stage = "put_evict" /\ Cur = call[t] /\ Cur.key \in Keys /\ Cur.size \in Int
      BY <2>4, StageSteps, CallFields DEF TypeOK
    <3>2. Resident # {}
      BY <3>1, FullMeansResident DEF SizeInv
    <3>3. tracked = Resident
      BY <3>1 DEF CoverInv, ExactInv, SizeInv
    <3> QED
      BY <2>4, <3>2, <3>3 DEF EvictNothing, EvictPhantom
  <2>5. ASSUME NEW t \in Threads, Inside(t), ~PutFails(t), ~EvictNothing(t), ~ \E v \in Keys : EvictPhantom(t, v)
        PROVE  ~(pc[t] \in LockedSteps /\ pc'[t] = "idle" /\ ret'[t] \in Errors)
    BY <2>5 DEF Inside, TypeOK, PutLock, PutInsert, PutNoted, PutFull, EvictNoted, Evict, Remove, RemoveNoted, Clear,
                ClearReset, SetPolicy, SetPolicyRebuild, Goto, Return, LockedSteps, Errors
  <2>6. ASSUME NEW t \in Threads, Inside(t) PROVE CleanReturn
    BY <2>2, <2>3, <2>4, <2>5, <2>6
  <2> QED
    BY <2>1, <2>6 DEF Next, Start, Acquire, Continue, Outside, Inside
<1>4. CoreInv /\ ExactInv /\ [Next]_vars => [CleanReturn]_vars
  BY <1>3
<1> QED
  BY <1>0, <1>1, <1>2, <1>4, PTL DEF Spec, ErrorsChangeNothing

-----------------------------------------------------------------------------

(* A record with the fields of a view. *)
IsView(v) == v = [kind |-> v.kind, policy |-> v.policy, count |-> v.count,
                  payload |-> v.payload, metadata |-> v.metadata]

(* The readers' variables are functions of the reader. *)
ReaderTypes ==
    /\ rpc = [r \in Readers |-> rpc[r]]
    /\ view = [r \in Readers |-> view[r]]
    /\ own = [r \in Readers |-> own[r]]
    /\ window = [r \in Readers |-> window[r]]
    /\ quiet \in [Readers -> BOOLEAN]
    /\ \A r \in Readers : IsView(view[r])

(* A Stats call has seen the current byte total, and every total that an   *)
(* overlapping Stats call has seen is in its window; so is what it, or     *)
(* whoever observed last, put into the collector's state.                  *)
FreshInv ==
    \A r \in Readers :
      /\ own[r] # {} <=> rpc[r] # "idle" /\ view[r].kind = "stats"
      /\ own[r] # {} => bytes \in own[r] /\ \A u \in Readers : own[u] \subseteq window[r]
      /\ rpc[r] \in {"used", "observe", "snapshot"} => view[r].kind = "stats"
      /\ rpc[r] = "observe" => view[r].payload \in own[r]
      /\ rpc[r] = "snapshot" => state.used \in window[r]
      /\ rpc[r] = "done" /\ view[r].kind = "stats" => view[r].payload \in window[r]

(* While the totals do not change, what a Memory call has read so far is   *)
(* what they are.                                                          *)
QuietInv ==
    \A r \in Readers :
      quiet[r] =>
        /\ view[r].kind = "memory"
        /\ rpc[r] \in {"policy", "len", "bytes", "keyBytes", "done"}
        /\ rpc[r] \in {"len", "bytes", "keyBytes"} => view[r].policy = MetadataBytes
        /\ rpc[r] \in {"bytes", "keyBytes", "done"} => view[r].count = Cardinality(Resident)
        /\ rpc[r] \in {"keyBytes", "done"} => view[r].payload = bytes
        /\ rpc[r] = "done" =>
             view[r].metadata = keyBytes + view[r].count * EntryCost + MetadataBytes

ReaderInv == ReaderTypes /\ FreshInv /\ QuietInv

-----------------------------------------------------------------------------
(* What a reader has read after each of its reads. *)
LEMMA PolicySeen ==
    ASSUME NEW v, IsView(v), NEW x
    PROVE  LET w == [v EXCEPT !.policy = x]
           IN  /\ IsView(w) /\ w.kind = v.kind /\ w.policy = x /\ w.count = v.count
               /\ w.payload = v.payload /\ w.metadata = v.metadata
BY DEF IsView

LEMMA CountSeen ==
    ASSUME NEW v, IsView(v), NEW x
    PROVE  LET w == [v EXCEPT !.count = x]
           IN  /\ IsView(w) /\ w.kind = v.kind /\ w.policy = v.policy /\ w.count = x
               /\ w.payload = v.payload /\ w.metadata = v.metadata
BY DEF IsView

LEMMA PayloadSeen ==
    ASSUME NEW v, IsView(v), NEW x
    PROVE  LET w == [v EXCEPT !.payload = x]
           IN  /\ IsView(w) /\ w.kind = v.kind /\ w.policy = v.policy /\ w.count = v.count
               /\ w.payload = x /\ w.metadata = v.metadata
BY DEF IsView

(* A reader's step from one place to the next changes its own view only. *)
LEMMA ReadsFacts ==
    ASSUME ReaderTypes, NEW r \in Readers, NEW from, NEW to, NEW seen, IsView(seen),
           Reads(r, from, to, seen)
    PROVE  /\ ReaderTypes'
           /\ rpc[r] = from /\ rpc'[r] = to /\ view'[r] = seen
           /\ \A u \in Readers \ {r} : rpc'[u] = rpc[u] /\ view'[u] = view[u]
           /\ own' = own /\ window' = window /\ quiet' = quiet
           /\ items' = items /\ bytes' = bytes /\ keyBytes' = keyBytes
           /\ tracked' = tracked /\ policy' = policy
<1>1. /\ rpc[r] = from /\ rpc' = [rpc EXCEPT ![r] = to] /\ view' = [view EXCEPT ![r] = seen]
      /\ own' = own /\ window' = window /\ quiet' = quiet
      /\ items' = items /\ bytes' = bytes /\ keyBytes' = keyBytes
      /\ tracked' = tracked /\ policy' = policy
  BY DEF Reads, RGoto, vars, seenVars
<1>2. /\ rpc'[r] = to /\ view'[r] = seen
      /\ \A u \in Readers \ {r} : rpc'[u] = rpc[u] /\ view'[u] = view[u]
  BY <1>1 DEF ReaderTypes
<1>3. ReaderTypes'
  BY <1>1, <1>2 DEF ReaderTypes
<1> QED
  BY <1>1, <1>2, <1>3

(* When such a step keeps the Stats part of the invariant. *)
LEMMA ReadsKeepFresh ==
    ASSUME ReaderTypes, FreshInv, NEW r \in Readers, NEW from, NEW to, NEW seen, IsView(seen),
           Reads(r, from, to, seen), from # "idle", to # "idle", seen.kind = view[r].kind,
           to \in {"used", "observe", "snapshot"} => seen.kind = "stats",
           to = "observe" => seen.payload \in own[r],
           to = "done" /\ seen.kind = "stats" => seen.payload \in window[r],
           \A u \in Readers : rpc'[u] = "snapshot" => state'.used \in window[u]
    PROVE  FreshInv'
<1>1. /\ rpc[r] = from /\ rpc'[r] = to /\ view'[r] = seen
      /\ \A u \in Readers \ {r} : rpc'[u] = rpc[u] /\ view'[u] = view[u]
      /\ own' = own /\ window' = window /\ bytes' = bytes
  BY ReadsFacts
<1> SUFFICES ASSUME NEW u \in Readers
             PROVE  /\ own'[u] # {} <=> rpc'[u] # "idle" /\ view'[u].kind = "stats"
                    /\ own'[u] # {} => bytes' \in own'[u] /\ \A q \in Readers : own'[q] \subseteq window'[u]
                    /\ rpc'[u] \in {"used", "observe", "snapshot"} => view'[u].kind = "stats"
                    /\ rpc'[u] = "observe" => view'[u].payload \in own'[u]
                    /\ rpc'[u] = "snapshot" => state'.used \in window'[u]
                    /\ rpc'[u] = "done" /\ view'[u].kind = "stats" => view'[u].payload \in window'[u]
  BY DEF FreshInv
<1>2. CASE u = r
  BY <1>1, <1>2 DEF FreshInv
<1>3. CASE u # r
  BY <1>1, <1>3 DEF FreshInv
<1> QED
  BY <1>2, <1>3

(* When such a step keeps the Memory part of the invariant. *)
LEMMA ReadsKeepQuiet ==
    ASSUME ReaderTypes, QuietInv, NEW r \in Readers, NEW from, NEW to, NEW seen, IsView(seen),
           Reads(r, from, to, seen),
           quiet[r] =>
             /\ seen.kind = "memory"
             /\ to \in {"len", "bytes", "keyBytes", "done"}
             /\ to \in {"len", "bytes", "keyBytes"} => seen.policy = MetadataBytes
             /\ to \in {"bytes", "keyBytes", "done"} => seen.count = Cardinality(Resident)
             /\ to \in {"keyBytes", "done"} => seen.payload = bytes
             /\ to = "done" => seen.metadata = keyBytes + seen.count * EntryCost + MetadataBytes
    PROVE  QuietInv'
<1>1. /\ rpc'[r] = to /\ view'[r] = seen
      /\ \A u \in Readers \ {r} : rpc'[u] = rpc[u] /\ view'[u] = view[u]
      /\ quiet' = quiet /\ bytes' = bytes /\ keyBytes' = keyBytes /\ items' = items
      /\ tracked' = tracked /\ policy' = policy
  BY ReadsFacts
<1>2. /\ Resident' = Resident /\ MetadataBytes' = MetadataBytes /\ Installed' = Installed
  BY <1>1 DEF Resident, MetadataBytes, Installed
<1> SUFFICES ASSUME NEW u \in Readers, quiet[u]
             PROVE  /\ view'[u].kind = "memory"
                    /\ rpc'[u] \in {"policy", "len", "bytes", "keyBytes", "done"}
                    /\ rpc'[u] \in {"len", "bytes", "keyBytes"} => view'[u].policy = MetadataBytes
                    /\ rpc'[u] \in {"bytes", "keyBytes", "done"} => view'[u].count = Cardinality(Resident)
                    /\ rpc'[u] \in {"keyBytes", "done"} => view'[u].payload = bytes
                    /\ rpc'[u] = "done" =>
                         view'[u].metadata = keyBytes + view'[u].count * EntryCost + MetadataBytes
  BY <1>1, <1>2 DEF QuietInv
<1>3. CASE u = r
  BY <1>1, <1>3
<1>4. CASE u # r
  BY <1>1, <1>4 DEF QuietInv
<1> QED
  BY <1>3, <1>4
-----------------------------------------------------------------------------
(* Each step of a reader keeps the invariant. *)
LEMMA ReadBeginKeepsInv ==
    ASSUME ReaderInv, NEW r \in Readers, NEW kind \in {"memory", "stats"}, ReadBegin(r, kind)
    PROVE  ReaderInv'
<1> DEFINE seen == [NoView EXCEPT !.kind = kind]
<1>1. /\ rpc[r] = "idle" /\ rpc' = [rpc EXCEPT ![r] = "policy"] /\ view' = [view EXCEPT ![r] = seen]
      /\ quiet' = [quiet EXCEPT ![r] = kind = "memory"]
      /\ own' = [own EXCEPT ![r] = IF kind = "stats" THEN {bytes} ELSE {}]
      /\ window' = [window EXCEPT ![r] =
                       IF kind = "stats" THEN {bytes} \cup UNION {own[u] : u \in Readers} ELSE {}]
      /\ items' = items /\ bytes' = bytes /\ keyBytes' = keyBytes /\ tracked' = tracked
      /\ policy' = policy /\ state' = state
      /\ ReaderTypes /\ FreshInv /\ QuietInv
  BY DEF ReadBegin, RGoto, vars, ReaderInv
<1>2. IsView(seen) /\ seen.kind = kind
  BY DEF NoView, IsView
<1> HIDE DEF seen
<1>3. \A u \in Readers :
        /\ rpc'[u] = IF u = r THEN "policy" ELSE rpc[u]
        /\ view'[u] = IF u = r THEN seen ELSE view[u]
        /\ quiet'[u] = IF u = r THEN kind = "memory" ELSE quiet[u]
        /\ own'[u] = IF u = r THEN (IF kind = "stats" THEN {bytes} ELSE {}) ELSE own[u]
        /\ window'[u] = IF u = r THEN (IF kind = "stats" THEN {bytes} \cup UNION {own[q] : q \in Readers} ELSE {})
                        ELSE window[u]
  BY <1>1 DEF ReaderTypes
<1>4. ReaderTypes'
  BY <1>1, <1>2, <1>3 DEF ReaderTypes
<1>5. FreshInv'
  <2> SUFFICES ASSUME NEW u \in Readers
               PROVE  /\ own'[u] # {} <=> rpc'[u] # "idle" /\ view'[u].kind = "stats"
                      /\ own'[u] # {} => bytes' \in own'[u] /\ \A q \in Readers : own'[q] \subseteq window'[u]
                      /\ rpc'[u] \in {"used", "observe", "snapshot"} => view'[u].kind = "stats"
                      /\ rpc'[u] = "observe" => view'[u].payload \in own'[u]
                      /\ rpc'[u] = "snapshot" => state'.used \in window'[u]
                      /\ rpc'[u] = "done" /\ view'[u].kind = "stats" => view'[u].payload \in window'[u]
    BY DEF FreshInv
  <2>1. CASE u = r
    <3>1. rpc'[u] = "policy" /\ view'[u].kind = kind
      BY <1>2, <1>3, <2>1
    <3>2. CASE kind = "stats"
      <4>1. own'[u] = {bytes} /\ \A q \in Readers : own'[q] \subseteq window'[u]
        BY <1>3, <2>1, <3>2
      <4> QED
        BY <1>1, <3>1, <3>2, <4>1
    <3>3. CASE kind # "stats"
      <4>1. own'[u] = {}
        BY <1>3, <2>1, <3>3
      <4> QED
        BY <3>1, <3>3, <4>1
    <3> QED
      BY <3>2, <3>3
  <2>2. CASE u # r
    <3>1. /\ rpc'[u] = rpc[u] /\ view'[u] = view[u] /\ own'[u] = own[u] /\ window'[u] = window[u]
      BY <1>3, <2>2
    <3>2. own[u] # {} => \A q \in Readers : own'[q] \subseteq window[u]
      BY <1>1, <1>3, <2>2 DEF FreshInv
    <3> QED
      BY <1>1, <3>1, <3>2 DEF FreshInv
  <2> QED
    BY <2>1, <2>2
<1>6. QuietInv'
  <2>1. Resident' = Resident /\ MetadataBytes' = MetadataBytes /\ Installed' = Installed
    BY <1>1 DEF Resident, MetadataBytes, Installed
  <2> SUFFICES ASSUME NEW u \in Readers, quiet'[u]
               PROVE  /\ view'[u].kind = "memory"
                      /\ rpc'[u] \in {"policy", "len", "bytes", "keyBytes", "done"}
                      /\ rpc'[u] \in {"len", "bytes", "keyBytes"} => view'[u].policy = MetadataBytes
                      /\ rpc'[u] \in {"bytes", "keyBytes", "done"} => view'[u].count = Cardinality(Resident)
                      /\ rpc'[u] \in {"keyBytes", "done"} => view'[u].payload = bytes
                      /\ rpc'[u] = "done" =>
                           view'[u].metadata = keyBytes + view'[u].count * EntryCost + MetadataBytes
    BY <1>1, <2>1 DEF QuietInv
  <2>2. CASE u = r
    BY <1>2, <1>3, <2>2
  <2>3. CASE u # r
    <3>1. quiet[u] /\ rpc'[u] = rpc[u] /\ view'[u] = view[u]
      BY <1>3, <2>3
    <3> QED
      BY <1>1, <3>1 DEF QuietInv
  <2> QED
    BY <2>2, <2>3
<1> QED
  BY <1>4, <1>5, <1>6 DEF ReaderInv

(* ReadPolicy reads what the policy counts. *)
LEMMA ReadPolicyKeepsInv ==
    ASSUME ReaderInv, NEW r \in Readers, ReadPolicy(r)
    PROVE  ReaderInv'
<1> DEFINE seen == [view[r] EXCEPT !.policy = MetadataBytes]
<1>1. mu = Free /\ state' = state /\ Reads(r, "policy", "len", seen) /\ ReaderTypes /\ FreshInv /\ QuietInv
  BY DEF ReadPolicy, ReaderInv
<1>2. IsView(view[r])
  BY <1>1 DEF ReaderTypes
<1>3. IsView(seen) /\ seen.kind = view[r].kind /\ seen.policy = MetadataBytes
  BY <1>2, PolicySeen
<1> HIDE DEF seen
<1>5. ReaderTypes' /\ rpc'[r] = "len" /\ \A u \in Readers \ {r} : rpc'[u] = rpc[u]
  BY <1>1, <1>3, ReadsFacts
<1>6. FreshInv'
  <2>1. \A u \in Readers : rpc'[u] = "snapshot" => state'.used \in window[u]
    BY <1>1, <1>5 DEF FreshInv
  <2> QED
    BY <1>1, <1>3, <2>1, ReadsKeepFresh
<1>7. QuietInv'
  BY <1>1, <1>3, ReadsKeepQuiet DEF QuietInv
<1> QED
  BY <1>5, <1>6, <1>7 DEF ReaderInv

(* ReadLen, ReadBytes and ReadKeyBytes read one total each. *)
LEMMA ReadTotalsKeepInv ==
    ASSUME ReaderInv, NEW r \in Readers, ReadLen(r) \/ ReadBytes(r) \/ ReadKeyBytes(r)
    PROVE  ReaderInv'
<1>1. ReaderTypes /\ FreshInv /\ QuietInv /\ IsView(view[r])
  BY DEF ReaderInv, ReaderTypes
<1>2. CASE ReadLen(r)
  <2> DEFINE seen == [view[r] EXCEPT !.count = Cardinality(Resident)]
  <2>1. state' = state /\ Reads(r, "len", "bytes", seen)
    BY <1>2 DEF ReadLen
  <2>2. /\ IsView(seen) /\ seen.kind = view[r].kind /\ seen.count = Cardinality(Resident)
        /\ seen.policy = view[r].policy
    BY <1>1, CountSeen
  <2> HIDE DEF seen
  <2>3. ReaderTypes' /\ rpc[r] = "len" /\ rpc'[r] = "bytes" /\ \A u \in Readers \ {r} : rpc'[u] = rpc[u]
    BY <1>1, <2>1, <2>2, ReadsFacts
  <2>4. \A u \in Readers : rpc'[u] = "snapshot" => state'.used \in window[u]
    BY <1>1, <2>1, <2>3 DEF FreshInv
  <2>5. FreshInv'
    BY <1>1, <2>1, <2>2, <2>4, ReadsKeepFresh
  <2>6. QuietInv'
    BY <1>1, <2>1, <2>2, <2>3, ReadsKeepQuiet DEF QuietInv
  <2> QED
    BY <2>3, <2>5, <2>6 DEF ReaderInv
<1>3. CASE ReadBytes(r)
  <2> DEFINE seen == [view[r] EXCEPT !.payload = bytes]
  <2>1. state' = state /\ Reads(r, "bytes", "keyBytes", seen)
    BY <1>3 DEF ReadBytes
  <2>2. /\ IsView(seen) /\ seen.kind = view[r].kind /\ seen.payload = bytes
        /\ seen.policy = view[r].policy /\ seen.count = view[r].count
    BY <1>1, PayloadSeen
  <2> HIDE DEF seen
  <2>3. ReaderTypes' /\ rpc[r] = "bytes" /\ rpc'[r] = "keyBytes" /\ \A u \in Readers \ {r} : rpc'[u] = rpc[u]
    BY <1>1, <2>1, <2>2, ReadsFacts
  <2>4. \A u \in Readers : rpc'[u] = "snapshot" => state'.used \in window[u]
    BY <1>1, <2>1, <2>3 DEF FreshInv
  <2>5. FreshInv'
    BY <1>1, <2>1, <2>2, <2>4, ReadsKeepFresh
  <2>6. QuietInv'
    BY <1>1, <2>1, <2>2, <2>3, ReadsKeepQuiet DEF QuietInv
  <2> QED
    BY <2>3, <2>5, <2>6 DEF ReaderInv
<1>4. CASE ReadKeyBytes(r)
  <2> DEFINE m == keyBytes + view[r].count * EntryCost + view[r].policy
             seen == [view[r] EXCEPT !.metadata = m, !.policy = 0]
             to == IF view[r].kind = "stats" THEN "used" ELSE "done"
  <2>1. state' = state /\ Reads(r, "keyBytes", to, seen)
    BY <1>4 DEF ReadKeyBytes, AccountMemory
  <2>2. /\ IsView(seen) /\ seen.kind = view[r].kind /\ seen.payload = view[r].payload
        /\ seen.metadata = m /\ seen.count = view[r].count
    <3> DEFINE v == view[r]
    <3>1. IsView(v) /\ seen = [v EXCEPT !.metadata = m, !.policy = 0]
      BY <1>1
    <3> HIDE DEF seen, v, m
    <3>2. /\ IsView(seen) /\ seen.kind = v.kind /\ seen.payload = v.payload
          /\ seen.metadata = m /\ seen.count = v.count
      BY <3>1 DEF IsView
    <3> QED
      BY <3>2 DEF v
  <2>3. /\ to = "used" \/ to = "done"
        /\ to = "used" <=> view[r].kind = "stats"
    OBVIOUS
  <2> HIDE DEF seen, to
  <2>4. ReaderTypes' /\ rpc[r] = "keyBytes" /\ rpc'[r] = to /\ \A u \in Readers \ {r} : rpc'[u] = rpc[u]
    BY <1>1, <2>1, <2>2, ReadsFacts
  <2>5. \A u \in Readers : rpc'[u] = "snapshot" => state'.used \in window[u]
    BY <1>1, <2>1, <2>3, <2>4 DEF FreshInv
  <2>6. FreshInv'
    BY <1>1, <2>1, <2>2, <2>3, <2>5, ReadsKeepFresh
  <2>7. QuietInv'
    BY <1>1, <2>1, <2>2, <2>3, <2>4, ReadsKeepQuiet DEF QuietInv
  <2> QED
    BY <2>4, <2>6, <2>7 DEF ReaderInv
<1> QED
  BY <1>2, <1>3, <1>4

(* The steps that only Stats takes: a second read of the bytes, the write  *)
(* to the collector's state and the read of it.                            *)
LEMMA StatsStepsKeepInv ==
    ASSUME ReaderInv, NEW r \in Readers, ReadUsed(r) \/ ObserveCache(r) \/ SnapshotState(r)
    PROVE  ReaderInv'
<1>1. ReaderTypes /\ FreshInv /\ QuietInv /\ IsView(view[r])
  BY DEF ReaderInv, ReaderTypes
<1>2. CASE ReadUsed(r)
  <2> DEFINE seen == [view[r] EXCEPT !.payload = bytes]
  <2>1. state' = state /\ Reads(r, "used", "observe", seen)
    BY <1>2 DEF ReadUsed
  <2>2. /\ IsView(seen) /\ seen.kind = view[r].kind /\ seen.payload = bytes
    BY <1>1, PayloadSeen
  <2> HIDE DEF seen
  <2>3. ReaderTypes' /\ rpc[r] = "used" /\ rpc'[r] = "observe" /\ \A u \in Readers \ {r} : rpc'[u] = rpc[u]
    BY <1>1, <2>1, <2>2, ReadsFacts
  <2>4. /\ seen.kind = "stats" /\ seen.payload \in own[r] /\ ~quiet[r]
        /\ \A u \in Readers : rpc'[u] = "snapshot" => state'.used \in window[u]
    BY <1>1, <2>1, <2>2, <2>3 DEF FreshInv, QuietInv
  <2>5. FreshInv'
    BY <1>1, <2>1, <2>2, <2>4, ReadsKeepFresh
  <2>6. QuietInv'
    BY <1>1, <2>1, <2>2, <2>4, ReadsKeepQuiet
  <2> QED
    BY <2>3, <2>5, <2>6 DEF ReaderInv
<1>3. CASE ObserveCache(r)
  <2> DEFINE seen == [NoView EXCEPT !.kind = "stats"]
  <2>1. Reads(r, "observe", "snapshot", seen) /\ state'.used = view[r].payload
    BY <1>3 DEF ObserveCache
  <2>2. IsView(seen) /\ seen.kind = "stats"
    BY DEF NoView, IsView
  <2> HIDE DEF seen
  <2>3. ReaderTypes' /\ rpc[r] = "observe" /\ rpc'[r] = "snapshot" /\ \A u \in Readers \ {r} : rpc'[u] = rpc[u]
    BY <1>1, <2>1, <2>2, ReadsFacts
  <2>4. view[r].kind = "stats" /\ view[r].payload \in own[r] /\ ~quiet[r]
    BY <1>1, <2>3 DEF FreshInv, QuietInv
  <2>5. ASSUME NEW u \in Readers, rpc'[u] = "snapshot" PROVE state'.used \in window[u]
    <3>1. rpc[u] # "idle" /\ view[u].kind = "stats"
      BY <1>1, <2>3, <2>4, <2>5 DEF FreshInv
    <3>2. own[r] \subseteq window[u]
      BY <1>1, <3>1 DEF FreshInv
    <3> QED
      BY <2>1, <2>4, <3>2
  <2>6. FreshInv'
    BY <1>1, <2>1, <2>2, <2>4, <2>5, ReadsKeepFresh
  <2>7. QuietInv'
    BY <1>1, <2>1, <2>2, <2>4, ReadsKeepQuiet
  <2> QED
    BY <2>3, <2>6, <2>7 DEF ReaderInv
<1>4. CASE SnapshotState(r)
  <2> DEFINE seen == [view[r] EXCEPT !.count = state.count, !.payload = state.used, !.metadata = state.metadata]
  <2>1. state' = state /\ Reads(r, "snapshot", "done", seen)
    BY <1>4 DEF SnapshotState
  <2>2. /\ IsView(seen) /\ seen.kind = view[r].kind /\ seen.payload = state.used
    <3> DEFINE v == view[r]
    <3>1. IsView(v) /\ seen = [v EXCEPT !.count = state.count, !.payload = state.used, !.metadata = state.metadata]
      BY <1>1
    <3> HIDE DEF seen, v
    <3>2. IsView(seen) /\ seen.kind = v.kind /\ seen.payload = state.used
      BY <3>1 DEF IsView
    <3> QED
      BY <3>2 DEF v
  <2> HIDE DEF seen
  <2>3. ReaderTypes' /\ rpc[r] = "snapshot" /\ rpc'[r] = "done" /\ \A u \in Readers \ {r} : rpc'[u] = rpc[u]
    BY <1>1, <2>1, <2>2, ReadsFacts
  <2>4. /\ seen.payload \in window[r] /\ ~quiet[r]
        /\ \A u \in Readers : rpc'[u] = "snapshot" => state'.used \in window[u]
    BY <1>1, <2>1, <2>2, <2>3 DEF FreshInv, QuietInv
  <2>5. FreshInv'
    BY <1>1, <2>1, <2>2, <2>4, ReadsKeepFresh
  <2>6. QuietInv'
    BY <1>1, <2>1, <2>2, <2>4, ReadsKeepQuiet
  <2> QED
    BY <2>3, <2>5, <2>6 DEF ReaderInv
<1> QED
  BY <1>2, <1>3, <1>4

(* ReadReturn: the call is over and its history forgotten. *)
LEMMA ReadReturnKeepsInv ==
    ASSUME ReaderInv, NEW r \in Readers, ReadReturn(r)
    PROVE  ReaderInv'
<1>1. /\ rpc' = [rpc EXCEPT ![r] = "idle"] /\ view' = [view EXCEPT ![r] = NoView]
      /\ quiet' = [quiet EXCEPT ![r] = FALSE]
      /\ own' = [own EXCEPT ![r] = {}] /\ window' = [window EXCEPT ![r] = {}]
      /\ items' = items /\ bytes' = bytes /\ keyBytes' = keyBytes /\ tracked' = tracked
      /\ policy' = policy /\ state' = state
      /\ ReaderTypes /\ FreshInv /\ QuietInv
  BY DEF ReadReturn, RGoto, vars, ReaderInv
<1>2. IsView(NoView) /\ NoView.kind = "none"
  BY DEF NoView, IsView
<1>3. \A u \in Readers :
        /\ rpc'[u] = IF u = r THEN "idle" ELSE rpc[u]
        /\ view'[u] = IF u = r THEN NoView ELSE view[u]
        /\ quiet'[u] = IF u = r THEN FALSE ELSE quiet[u]
        /\ own'[u] = IF u = r THEN {} ELSE own[u]
        /\ window'[u] = IF u = r THEN {} ELSE window[u]
  BY <1>1 DEF ReaderTypes
<1>4. ReaderTypes'
  BY <1>1, <1>2, <1>3 DEF ReaderTypes
<1>5. FreshInv'
  <2> SUFFICES ASSUME NEW u \in Readers
               PROVE  /\ own'[u] # {} <=> rpc'[u] # "idle" /\ view'[u].kind = "stats"
                      /\ own'[u] # {} => bytes' \in own'[u] /\ \A q \in Readers : own'[q] \subseteq window'[u]
                      /\ rpc'[u] \in {"used", "observe", "snapshot"} => view'[u].kind = "stats"
                      /\ rpc'[u] = "observe" => view'[u].payload \in own'[u]
                      /\ rpc'[u] = "snapshot" => state'.used \in window'[u]
                      /\ rpc'[u] = "done" /\ view'[u].kind = "stats" => view'[u].payload \in window'[u]
    BY DEF FreshInv
  <2>1. CASE u = r
    BY <1>3, <2>1
  <2>2. CASE u # r
    <3>1. /\ rpc'[u] = rpc[u] /\ view'[u] = view[u] /\ own'[u] = own[u] /\ window'[u] = window[u]
      BY <1>3, <2>2
    <3>2. \A q \in Readers : own'[q] \subseteq own[q]
      BY <1>3
    <3> QED
      BY <1>1, <3>1, <3>2 DEF FreshInv
  <2> QED
    BY <2>1, <2>2
<1>6. QuietInv'
  <2>1. Resident' = Resident /\ MetadataBytes' = MetadataBytes /\ Installed' = Installed
    BY <1>1 DEF Resident, MetadataBytes, Installed
  <2> SUFFICES ASSUME NEW u \in Readers, quiet'[u]
               PROVE  /\ view'[u].kind = "memory"
                      /\ rpc'[u] \in {"policy", "len", "bytes", "keyBytes", "done"}
                      /\ rpc'[u] \in {"len", "bytes", "keyBytes"} => view'[u].policy = MetadataBytes
                      /\ rpc'[u] \in {"bytes", "keyBytes", "done"} => view'[u].count = Cardinality(Resident)
                      /\ rpc'[u] \in {"keyBytes", "done"} => view'[u].payload = bytes
                      /\ rpc'[u] = "done" =>
                           view'[u].metadata = keyBytes + view'[u].count * EntryCost + MetadataBytes
    BY <1>1, <2>1 DEF QuietInv
  <2>2. u # r /\ quiet[u] /\ rpc'[u] = rpc[u] /\ view'[u] = view[u]
    BY <1>3
  <2> QED
    BY <1>1, <2>2 DEF QuietInv
<1> QED
  BY <1>4, <1>5, <1>6 DEF ReaderInv

(* A step of the core: a quiet call saw no change, a Stats call adds what  *)
(* the byte total became.                                                  *)
LEMMA CoreStepKeepsInv ==
    ASSUME ReaderInv, CoreStep
    PROVE  ReaderInv'
<1>1. /\ rpc' = rpc /\ view' = view /\ state' = state
      /\ ReaderTypes /\ FreshInv /\ QuietInv
      /\ quiet' = [r \in Readers |-> quiet[r] /\ Totals' = Totals]
      /\ own' = [r \in Readers |-> IF own[r] = {} THEN {} ELSE own[r] \cup {bytes'}]
      /\ window' = [r \in Readers |-> IF own[r] = {} THEN {} ELSE window[r] \cup {bytes'}]
  BY DEF CoreStep, readerVars, ReaderInv
<1>2. ReaderTypes'
  BY <1>1 DEF ReaderTypes
<1>3. FreshInv'
  BY <1>1 DEF FreshInv
<1>4. QuietInv'
  <2> SUFFICES ASSUME NEW r \in Readers, quiet[r], Totals' = Totals
               PROVE  /\ view'[r].kind = "memory"
                      /\ rpc'[r] \in {"policy", "len", "bytes", "keyBytes", "done"}
                      /\ rpc'[r] \in {"len", "bytes", "keyBytes"} => view'[r].policy = MetadataBytes'
                      /\ rpc'[r] \in {"bytes", "keyBytes", "done"} => view'[r].count = Cardinality(Resident')
                      /\ rpc'[r] \in {"keyBytes", "done"} => view'[r].payload = bytes'
                      /\ rpc'[r] = "done" =>
                           view'[r].metadata = keyBytes' + view'[r].count * EntryCost + MetadataBytes'
    BY <1>1 DEF QuietInv
  <2>1. items' = items /\ bytes' = bytes /\ keyBytes' = keyBytes /\ tracked' = tracked /\ policy' = policy
    BY DEF Totals
  <2>2. Resident' = Resident /\ MetadataBytes' = MetadataBytes /\ Installed' = Installed
    BY <2>1 DEF Resident, MetadataBytes, Installed
  <2> QED
    BY <1>1, <2>1, <2>2 DEF QuietInv
<1> QED
  BY <1>2, <1>3, <1>4 DEF ReaderInv

-----------------------------------------------------------------------------
(* The readers' invariant holds of a core in use, and the core's of a core *)
(* that is read (core.go:171-189).                                         *)
THEOREM ObserverInvariant == ASSUME NoOverflow PROVE ObsSpec => [](CoreInv /\ ReaderInv)
<1>1. ObsInit => CoreInv /\ ReaderInv
  <2> SUFFICES ASSUME ObsInit PROVE CoreInv /\ ReaderInv
    OBVIOUS
  <2>1. CoreInv
    BY InitInv DEF ObsInit
  <2>2. IsView(NoView) /\ NoView.kind = "none"
    BY DEF NoView, IsView
  <2>3. ReaderTypes
    BY <2>2 DEF ObsInit, ReaderTypes
  <2>4. FreshInv /\ QuietInv
    BY <2>2 DEF ObsInit, FreshInv, QuietInv
  <2> QED
    BY <2>1, <2>3, <2>4 DEF ReaderInv
<1>2. CoreInv /\ ReaderInv /\ [ObsNext]_obsVars => (CoreInv /\ ReaderInv)'
  <2> SUFFICES ASSUME CoreInv, ReaderInv, [ObsNext]_obsVars PROVE CoreInv' /\ ReaderInv'
    OBVIOUS
  <2>1. [Next]_vars
    BY DEF ObsNext, obsVars, CoreStep, ReadBegin, ReadPolicy, ReadStep, ReadLen, ReadBytes, ReadKeyBytes,
           ReadUsed, ObserveCache, SnapshotState, ReadReturn, Reads
  <2>2. CoreInv'
    BY <2>1, CoreInvKept
  <2>3. CASE ObsNext
    <3>1. CASE CoreStep
      BY <2>2, <3>1, CoreStepKeepsInv
    <3>2. ASSUME NEW r \in Readers, NEW kind \in {"memory", "stats"}, ReadBegin(r, kind) PROVE ReaderInv'
      BY <3>2, ReadBeginKeepsInv
    <3>3. ASSUME NEW r \in Readers, ReadPolicy(r) PROVE ReaderInv'
      BY <3>3, ReadPolicyKeepsInv
    <3>4. ASSUME NEW r \in Readers, ReadStep(r) PROVE ReaderInv'
      BY <3>4, ReadTotalsKeepInv, StatsStepsKeepInv, ReadReturnKeepsInv DEF ReadStep
    <3> QED
      BY <2>2, <2>3, <3>1, <3>2, <3>3, <3>4 DEF ObsNext
  <2>4. CASE UNCHANGED obsVars
    <3>1. /\ rpc' = rpc /\ view' = view /\ state' = state /\ quiet' = quiet /\ own' = own /\ window' = window
          /\ items' = items /\ bytes' = bytes /\ keyBytes' = keyBytes /\ tracked' = tracked /\ policy' = policy
      BY <2>4 DEF obsVars, vars, readerVars, seenVars
    <3>2. Resident' = Resident /\ MetadataBytes' = MetadataBytes /\ Installed' = Installed
      BY <3>1 DEF Resident, MetadataBytes, Installed
    <3> QED
      <4>1. ReaderTypes'
        BY <3>1 DEF ReaderInv, ReaderTypes
      <4>2. FreshInv'
        BY <3>1 DEF ReaderInv, FreshInv
      <4>3. QuietInv'
        BY <3>1, <3>2 DEF ReaderInv, QuietInv
      <4> QED
        BY <2>2, <4>1, <4>2, <4>3 DEF ReaderInv
  <2> QED
    BY <2>2, <2>3, <2>4
<1> QED
  BY <1>1, <1>2, PTL DEF ObsSpec

(* The bytes used that Stats returns were in the store at some moment of   *)
(* the call, or of a Stats call it overlaps (core.go:171-178).             *)
THEOREM StatsFresh == ASSUME NoOverflow PROVE ObsSpec => []FreshOccupancy
<1>0. ObsSpec => [](CoreInv /\ ReaderInv)
  BY ObserverInvariant
<1>1. CoreInv /\ ReaderInv => FreshOccupancy
  BY DEF ReaderInv, FreshInv, FreshOccupancy
<1> QED
  BY <1>0, <1>1, PTL

(* Once a Memory call has read the policy under c.mu, and while nothing    *)
(* changes, an installed policy tracks exactly the resident keys.          *)
TrackedInv ==
    \A r \in Readers : quiet[r] /\ rpc[r] # "policy" => (Installed => tracked = Resident)

LEMMA TrackedKept ==
    ASSUME CoreInv, ReaderInv, ExactInv, TrackedInv, [ObsNext]_obsVars
    PROVE  TrackedInv'
<1> SUFFICES ASSUME NEW u \in Readers, quiet'[u], rpc'[u] # "policy"
             PROVE  Installed' => tracked' = Resident'
  BY DEF TrackedInv
<1>0. ReaderTypes
  BY DEF ReaderInv
<1>1. ASSUME UNCHANGED Totals, quiet[u], rpc[u] # "policy" PROVE Installed' => tracked' = Resident'
  BY <1>1 DEF TrackedInv, Totals, Installed, Resident
<1>2. CASE CoreStep
  <2>1. quiet[u] /\ UNCHANGED Totals /\ rpc' = rpc
    BY <1>2 DEF CoreStep, readerVars
  <2> QED
    BY <1>1, <2>1
<1>3. ASSUME NEW r \in Readers, NEW kind \in {"memory", "stats"}, ReadBegin(r, kind)
      PROVE  Installed' => tracked' = Resident'
  <2>1. u # r /\ quiet[u] /\ rpc[u] # "policy"
    BY <1>0, <1>3 DEF ReadBegin, RGoto, ReaderTypes
  <2>2. UNCHANGED Totals
    BY <1>3 DEF ReadBegin, vars, Totals
  <2> QED
    BY <1>1, <2>1, <2>2
<1>4. ASSUME NEW r \in Readers, ReadPolicy(r) PROVE Installed' => tracked' = Resident'
  <2>1. mu = Free /\ UNCHANGED Totals
    BY <1>4 DEF ReadPolicy, Reads, vars, Totals
  <2>2. Installed => tracked = Resident
    BY <2>1 DEF CoreInv, CoverInv, ExactInv, Stage
  <2> QED
    BY <2>1, <2>2 DEF Totals, Installed, Resident
<1>5. ASSUME NEW r \in Readers, NEW from, NEW to, NEW seen, from # "policy", Reads(r, from, to, seen)
      PROVE  Installed' => tracked' = Resident'
  <2>1. quiet[u] /\ UNCHANGED Totals
    BY <1>5 DEF Reads, vars, Totals, seenVars
  <2>2. rpc[u] # "policy"
    BY <1>0, <1>5 DEF Reads, RGoto, ReaderTypes
  <2> QED
    BY <1>1, <2>1, <2>2
<1>6. ASSUME NEW r \in Readers, ReadStep(r) PROVE Installed' => tracked' = Resident'
  <2>1. CASE ReadReturn(r)
    <3>1. u # r /\ quiet[u] /\ rpc[u] # "policy"
      BY <1>0, <2>1 DEF ReadReturn, RGoto, ReaderTypes
    <3>2. UNCHANGED Totals
      BY <2>1 DEF ReadReturn, vars, Totals
    <3> QED
      BY <1>1, <3>1, <3>2
  <2>2. CASE ReadLen(r)
    BY <1>5, <2>2 DEF ReadLen
  <2>3. CASE ReadBytes(r)
    BY <1>5, <2>3 DEF ReadBytes
  <2>4. CASE ReadKeyBytes(r)
    BY <1>5, <2>4 DEF ReadKeyBytes
  <2>5. CASE ReadUsed(r)
    BY <1>5, <2>5 DEF ReadUsed
  <2>6. CASE ObserveCache(r)
    BY <1>5, <2>6 DEF ObserveCache
  <2>7. CASE SnapshotState(r)
    BY <1>5, <2>7 DEF SnapshotState
  <2> QED
    BY <1>6, <2>1, <2>2, <2>3, <2>4, <2>5, <2>6, <2>7 DEF ReadStep
<1>7. CASE UNCHANGED obsVars
  BY <1>1, <1>7 DEF obsVars, vars, readerVars, seenVars, Totals
<1> QED
  BY <1>2, <1>3, <1>4, <1>6, <1>7 DEF ObsNext

(* MemoryExact: with a policy that was fresh when New took it, a Memory    *)
(* call during which nothing changed returns exactly the bytes of the      *)
(* resident entries, their keys and one record each, although only the     *)
(* policy is read under c.mu (core.go:183-189).                            *)
THEOREM MemoryExact == ASSUME NoOverflow, FreshPolicy PROVE ObsSpec => []QuietBreakdownExact
<1>0. ObsSpec => [](CoreInv /\ ReaderInv)
  BY ObserverInvariant
<1>1. ObsInit => ExactInv /\ TrackedInv
  BY EmptyHasInv DEF ObsInit, Init, FreshPolicy, ExactInv, TrackedInv, Stage, StoreInit
<1>2. CoreInv /\ ReaderInv /\ ExactInv /\ TrackedInv /\ [ObsNext]_obsVars => ExactInv' /\ TrackedInv'
  <2> SUFFICES ASSUME CoreInv, ReaderInv, ExactInv, TrackedInv, [ObsNext]_obsVars PROVE ExactInv' /\ TrackedInv'
    OBVIOUS
  <2>1. [Next]_vars
    BY DEF ObsNext, obsVars, CoreStep, ReadBegin, ReadPolicy, ReadStep, ReadLen, ReadBytes, ReadKeyBytes,
           ReadUsed, ObserveCache, SnapshotState, ReadReturn, Reads
  <2> QED
    BY <2>1, ExactKept, TrackedKept DEF CoreInv
<1>3. ASSUME CoreInv, ReaderInv, TrackedInv PROVE QuietBreakdownExact
  <2> SUFFICES ASSUME NEW r \in Readers, rpc[r] = "done", view[r].kind = "memory", quiet[r]
               PROVE  /\ view[r].count = Cardinality(Resident)
                      /\ view[r].payload = Cardinality(Cells(Resident, items))
                      /\ view[r].metadata = Cardinality(Cells(Resident, KeyLen))
                           + (EntryCost + (IF Installed THEN PolicyCost ELSE 0)) * view[r].count
    BY DEF QuietBreakdownExact
  <2>1. /\ view[r].count = Cardinality(Resident) /\ view[r].payload = bytes
        /\ view[r].metadata = keyBytes + view[r].count * EntryCost + MetadataBytes
        /\ Installed => tracked = Resident
    BY <1>3 DEF ReaderInv, QuietInv, TrackedInv
  <2>2. bytes = Cardinality(Cells(Resident, items)) /\ keyBytes = Cardinality(Cells(Resident, KeyLen))
        /\ keyBytes \in Int /\ Resident \subseteq Keys
    BY <1>3 DEF CoreInv, StoreInv, BytesExact, TypeOK, StoreTypeOK
  <2>3. Cardinality(Resident) \in Nat
    BY <2>2, FiniteKeysAssumption, FS_Subset, FS_CardinalityType
  <2>4. CASE Installed
    <3>1. MetadataBytes = PolicyCost * Cardinality(Resident)
      BY <2>1, <2>4 DEF MetadataBytes
    <3>2. (EntryCost + PolicyCost) * Cardinality(Resident)
             = Cardinality(Resident) * EntryCost + PolicyCost * Cardinality(Resident)
      BY <2>3, CostAssumption
    <3> QED
      BY <2>1, <2>2, <2>3, <2>4, <3>1, <3>2, CostAssumption
  <2>5. CASE ~Installed
    <3>1. MetadataBytes = 0
      BY <2>5 DEF MetadataBytes
    <3>2. (EntryCost + 0) * Cardinality(Resident) = Cardinality(Resident) * EntryCost
      BY <2>3, CostAssumption
    <3> QED
      BY <2>1, <2>2, <2>3, <2>5, <3>1, <3>2, CostAssumption
  <2> QED
    BY <2>4, <2>5
<1> QED
  BY <1>0, <1>1, <1>2, <1>3, PTL DEF ObsSpec
=============================================================================
