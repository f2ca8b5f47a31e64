------------------------------ MODULE Observer ------------------------------
(***************************************************************************)
(* Goroutines that call Memory and Stats of a Core in use (cache/core.go,  *)
(* metrics/memory.go).  Only the policy's bytes are read under c.mu; the   *)
(* store's totals are read one after the other without it, and Stats sends *)
(* what it saw through the collector (ObserveCache, then Snapshot), which  *)
(* all callers share.  The counters of Snapshot are Collector's.           *)
(***************************************************************************)
EXTENDS Core

CONSTANTS
    Readers,      \* goroutines that call Memory or Stats
    EntryCost,    \* entryStructBytes + mapEntryOverheadBytes
    PolicyCost,   \* what MetadataBytes counts per tracked key
    MaxReads      \* bound on the number of reader calls

ASSUME FiniteKeysAssumption == IsFiniteSet(Keys)
ASSUME CostAssumption == EntryCost \in Nat /\ PolicyCost \in Nat /\ MaxReads \in Nat

VARIABLES
    rpc,          \* where each reader is
    view,         \* what it has read so far
    state,        \* Collector.state
    reads,        \* number of reader calls so far
    quiet,        \* history: the totals have not changed since the Memory call began
    own,          \* history: the store's byte totals since the Stats call began
    window        \* history: those since a Stats call it overlaps began

readerVars == <<rpc, view, state, reads>>
seenVars == <<quiet, own, window>>
obsVars == <<vars, readerVars, seenVars>>

-----------------------------------------------------------------------------
(* EvictionPolicy.MetadataBytes, for a policy that counts a record for     *)
(* every key it tracks: LRU and LFU.  Clock counts the slots of its ring.  *)
MetadataBytes == IF Installed THEN PolicyCost * Cardinality(tracked) ELSE 0

(* metrics.AccountMemory *)
AccountMemory(objectCount, payloadBytes, keysBytes, policyBytes) ==
    [count |-> objectCount, payload |-> payloadBytes,
     metadata |-> keysBytes + objectCount * EntryCost + policyBytes]

NoView == [kind |-> "none", policy |-> 0, count |-> 0, payload |-> 0, metadata |-> 0]
NoState == [capacity |-> 0, used |-> 0, metadata |-> 0, count |-> 0]

Totals == <<items, bytes, keyBytes, tracked, policy>>

ObsInit ==
    /\ Init
    /\ rpc = [r \in Readers |-> "idle"]
    /\ view = [r \in Readers |-> NoView]
    /\ state = NoState
    /\ reads = 0
    /\ quiet = [r \in Readers |-> FALSE]
    /\ own = [r \in Readers |-> {}]
    /\ window = [r \in Readers |-> {}]

RGoto(r, step) == rpc' = [rpc EXCEPT ![r] = step]

(* A step of reader r from one place to the next, reading fields of view. *)
Reads(r, from, to, seen) ==
    /\ rpc[r] = from
    /\ RGoto(r, to)
    /\ view' = [view EXCEPT ![r] = seen]
    /\ UNCHANGED <<vars, reads, seenVars>>

(* Memory and Stats start alike: Stats calls Memory. *)
ReadBegin(r, kind) ==
    /\ rpc[r] = "idle" /\ reads < MaxReads
    /\ reads' = reads + 1
    /\ RGoto(r, "policy")
    /\ view' = [view EXCEPT ![r] = [NoView EXCEPT !.kind = kind]]
    /\ quiet' = [quiet EXCEPT ![r] = kind = "memory"]
    /\ own' = [own EXCEPT ![r] = IF kind = "stats" THEN {bytes} ELSE {}]
    /\ window' = [window EXCEPT ![r] = IF kind = "stats" THEN {bytes} \cup UNION {own[u] : u \in Readers} ELSE {}]
    /\ UNCHANGED <<vars, state>>

(* Mutant of ReadPolicy: c.mu is not taken. *)
ReadPolicyUnlocked(r) ==
    /\ Reads(r, "policy", "len", [view[r] EXCEPT !.policy = MetadataBytes])
    /\ UNCHANGED state

(* policy.MetadataBytes under c.mu; 0 without a policy. *)
ReadPolicy(r) ==
    /\ mu = Free
    /\ Reads(r, "policy", "len", [view[r] EXCEPT !.policy = MetadataBytes])
    /\ UNCHANGED state

(* The arguments of AccountMemory, from left to right. *)
ReadLen(r) ==
    /\ Reads(r, "len", "bytes", [view[r] EXCEPT !.count = Cardinality(Resident)])
    /\ UNCHANGED state

ReadBytes(r) ==
    /\ Reads(r, "bytes", "keyBytes", [view[r] EXCEPT !.payload = bytes])
    /\ UNCHANGED state

ReadKeyBytes(r) ==
    LET mem == AccountMemory(view[r].count, view[r].payload, keyBytes, view[r].policy)
    IN  /\ Reads(r, "keyBytes", IF view[r].kind = "stats" THEN "used" ELSE "done",
                 [view[r] EXCEPT !.metadata = mem.metadata, !.policy = 0])
        /\ UNCHANGED state

(* Stats reads the store's bytes once more, for BytesUsed. *)
ReadUsed(r) ==
    /\ Reads(r, "used", "observe", [view[r] EXCEPT !.payload = bytes])
    /\ UNCHANGED state

(* Mutant of ObserveCache: the first state observed is kept. *)
ObserveOnce(r) ==
    /\ Reads(r, "observe", "snapshot", view[r])
    /\ state' = IF state # NoState THEN state
                ELSE [capacity |-> Capacity, used |-> view[r].payload, metadata |-> view[r].metadata,
                      count |-> view[r].count]

ObserveCache(r) ==
    /\ Reads(r, "observe", "snapshot", [NoView EXCEPT !.kind = "stats"])
    /\ state' = [capacity |-> Capacity, used |-> view[r].payload, metadata |-> view[r].metadata,
                 count |-> view[r].count]

(* The end of Snapshot: the collector's state, whoever observed it. *)
SnapshotState(r) ==
    /\ Reads(r, "snapshot", "done",
             [view[r] EXCEPT !.count = state.count, !.payload = state.used, !.metadata = state.metadata])
    /\ UNCHANGED state

ReadReturn(r) ==
    /\ rpc[r] = "done"
    /\ RGoto(r, "idle")
    /\ view' = [view EXCEPT ![r] = NoView]
    /\ quiet' = [quiet EXCEPT ![r] = FALSE]
    /\ own' = [own EXCEPT ![r] = {}]
    /\ window' = [window EXCEPT ![r] = {}]
    /\ UNCHANGED <<vars, state, reads>>

ReadStep(r) ==
    \/ ReadLen(r) \/ ReadBytes(r) \/ ReadKeyBytes(r)
    \/ ReadUsed(r) \/ ObserveCache(r) \/ SnapshotState(r) \/ ReadReturn(r)

(* Any step of the core; readers in a call remember what it changes. *)
CoreStep ==
    /\ Next
    /\ quiet' = [r \in Readers |-> quiet[r] /\ Totals' = Totals]
    /\ own' = [r \in Readers |-> IF own[r] = {} THEN {} ELSE own[r] \cup {bytes'}]
    /\ window' = [r \in Readers |-> IF own[r] = {} THEN {} ELSE window[r] \cup {bytes'}]
    /\ UNCHANGED readerVars

ObsNext ==
    \/ CoreStep
    \/ \E r \in Readers : \/ \E kind \in {"memory", "stats"} : ReadBegin(r, kind)
                          \/ ReadPolicy(r) \/ ReadStep(r)

ObsSpec == ObsInit /\ [][ObsNext]_obsVars

-----------------------------------------------------------------------------
(* QuietBreakdownExact: a Memory call during which the totals did not      *)
(* change accounts for the resident entries and nothing else: payload and  *)
(* key bytes are theirs, and the policy has one record for each, although  *)
(* the totals are read apart and only the first under c.mu (core.go:183-   *)
(* 189).  So a goroutine paused half-way through an insertion or an        *)
(* eviction, when store and policy differ, does not show in the sum.       *)
QuietBreakdownExact ==
    \A r \in Readers :
        rpc[r] = "done" /\ view[r].kind = "memory" /\ quiet[r] =>
            /\ view[r].count = Cardinality(Resident)
            /\ view[r].payload = Cardinality(Cells(Resident, items))
            /\ view[r].metadata = Cardinality(Cells(Resident, KeyLen))
                                     + (EntryCost + (IF Installed THEN PolicyCost ELSE 0)) * view[r].count

(* FreshOccupancy: the bytes used that Stats returns may come from another *)
(* caller's observation, but are never older than that caller's            *)
(* overlapping call: the store held that many at some moment since         *)
(* (core.go:171-178, collector.go:157-160, 205-211).                       *)
FreshOccupancy ==
    \A r \in Readers :
        rpc[r] = "done" /\ view[r].kind = "stats" => view[r].payload \in window[r]
=============================================================================
