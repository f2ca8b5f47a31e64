------------------------------- MODULE Store -------------------------------
(***************************************************************************)
(* The object store (cache/store.go): a map from key to entry with running *)
(* totals of payload bytes and key bytes.  Every method runs under the     *)
(* store's own mutex, so each one is one atomic action here.  An entry is  *)
(* abstracted to its Size: the value, the two timestamps and AccessCount   *)
(* are not read by the store or the core.                                  *)
(***************************************************************************)
EXTENDS Integers, FiniteSets

CONSTANTS
    Keys,       \* the keys callers use
    KeyLen,     \* KeyLen[k] = len(k) in bytes; the empty string has length 0
    Capacity,   \* the byte capacity the store was built with
    MaxInt      \* largest value of the store's int64 counters

VARIABLES
    items,      \* resident key -> entry size (Store.items)
    bytes,      \* Store.bytes
    keyBytes    \* Store.keyBytes

storeVars == <<items, bytes, keyBytes>>

ASSUME KeyLenAssumption == KeyLen \in [Keys -> Nat]
ASSUME CapacityAssumption == Capacity \in Nat /\ MaxInt \in Nat /\ Capacity <= MaxInt

Resident == DOMAIN items

-----------------------------------------------------------------------------
(* The result of one int64 addition or subtraction of in-range operands:   *)
(* two's complement, so a sum past MaxInt comes out negative.              *)
Wrap(n) ==
    IF n > MaxInt THEN n - 2 * (MaxInt + 1)
    ELSE IF n < -(MaxInt + 1) THEN n + 2 * (MaxInt + 1)
    ELSE n

(* The map with k bound to n, and the map without k. *)
Bind(f, k, n) == [x \in DOMAIN f \cup {k} |-> IF x = k THEN n ELSE f[x]]
Unbind(f, k) == [x \in DOMAIN f \ {k} |-> f[x]]
EmptyMap == [x \in {} |-> 0]

(* What the byte total would be if (key, size) were stored. *)
Projected(key, size) ==
    IF key \in Resident THEN Wrap(Wrap(bytes + size) - items[key])
                        ELSE Wrap(bytes + size)

(* Mutant of InsertOutcome: a negative size is accepted. *)
NoSignCheck(key, size) ==
    IF size > Capacity THEN "ErrObjectTooLarge"
    ELSE IF Projected(key, size) > Capacity THEN "ErrCapacityExceeded"
    ELSE "ok"

(* Mutant of InsertOutcome: an object that can never fit is reported as    *)
(* one that does not fit now, so the caller evicts for it.                 *)
NoTooLargeCheck(key, size) ==
    IF size < 0 THEN "ErrInvalidSize"
    ELSE IF Projected(key, size) > Capacity THEN "ErrCapacityExceeded"
    ELSE "ok"

(* Mutant of InsertOutcome: the byte capacity is not enforced. *)
NoCapacityCheck(key, size) ==
    IF size < 0 THEN "ErrInvalidSize"
    ELSE IF size > Capacity THEN "ErrObjectTooLarge"
    ELSE "ok"

(* The checks of Insert, in the order the code makes them. *)
InsertOutcome(key, size) ==
    IF size < 0 THEN "ErrInvalidSize"
    ELSE IF size > Capacity THEN "ErrObjectTooLarge"
    ELSE IF Projected(key, size) > Capacity THEN "ErrCapacityExceeded"
    ELSE "ok"

-----------------------------------------------------------------------------
StoreInit ==
    /\ items = EmptyMap
    /\ bytes = 0
    /\ keyBytes = 0

(* Mutant of Insert: a re-insert leaves the old size in the byte total. *)
InsertKeepsOldBytes(key, size) ==
    /\ items' = Bind(items, key, size)
    /\ bytes' = Wrap(bytes + size)
    /\ keyBytes' = IF key \in Resident THEN keyBytes ELSE keyBytes + KeyLen[key]

(* Insert, when InsertOutcome is "ok": replace in place or add an entry. *)
Insert(key, size) ==
    /\ items' = Bind(items, key, size)
    /\ IF key \in Resident
         THEN /\ bytes' = Wrap(Wrap(bytes - items[key]) + size)
              /\ UNCHANGED keyBytes
         ELSE /\ bytes' = Wrap(bytes + size)
              /\ keyBytes' = keyBytes + KeyLen[key]

(* Remove of a resident key. *)
RemoveEntry(key) ==
    /\ key \in Resident
    /\ items' = Unbind(items, key)
    /\ bytes' = Wrap(bytes - items[key])
    /\ keyBytes' = keyBytes - KeyLen[key]

ClearStore ==
    /\ items' = EmptyMap
    /\ bytes' = 0
    /\ keyBytes' = 0

-----------------------------------------------------------------------------
StoreTypeOK ==
    /\ Resident \subseteq Keys
    /\ items \in [Resident -> 0..Capacity]
    /\ bytes \in -(MaxInt + 1)..MaxInt
    /\ keyBytes \in Int

(* One cell per byte: key k of D occupies cells <<k, 1>> .. <<k, w[k]>>.   *)
(* The number of cells is the sum of w over D, without a recursive sum.    *)
Cells(D, w) == UNION {{k} \X (1..w[k]) : k \in D}

(* BytesExact: the running byte totals equal what is resident, in every    *)
(* state and also half-way through an eviction loop, because Bytes() and   *)
(* KeyBytes() are read without the core's lock (store.go:10, "exact byte   *)
(* accounting").                                                           *)
BytesExact ==
    /\ bytes = Cardinality(Cells(Resident, items))
    /\ keyBytes = Cardinality(Cells(Resident, KeyLen))

(* The int64 sums of Insert cannot wrap for the capacity in use. *)
NoOverflow == 2 * Capacity <= MaxInt

(* WithinCapacity: the resident bytes never exceed the capacity and never  *)
(* go negative, replacement in place included (store.go:83-90).            *)
WithinCapacity == bytes \in 0..Capacity
=============================================================================
