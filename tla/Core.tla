-------------------------------- MODULE Core --------------------------------
(***************************************************************************)
(* The cache core (cache/core.go): goroutines call Get, Put, Remove, Clear *)
(* and SetPolicy on one Core.  A call is a sequence of steps of its        *)
(* goroutine; c.mu is held over the steps between Lock and Unlock, and the *)
(* steps outside it (sequence number, metrics, events) interleave freely.  *)
(*                                                                         *)
(* The eviction policy is seen through its contract (policy/policy.go):    *)
(* the set of keys it has metadata for, and a Victim that is one of them.  *)
(***************************************************************************)
EXTENDS Store

CONSTANTS
    Threads,      \* goroutines calling the cache
    Policies,     \* eviction policies a caller may install
    NoPolicy,     \* the nil policy, types.PolicyNone
    Free,         \* c.mu is not held
    Sizes,        \* object sizes callers pass to Put, illegal ones included
    SampleRate,   \* Options.RequestSampleRate, after the 0 -> 1 default
    AdmitAnswers, \* answers ShouldAdmit may give: {TRUE} for LRU, LFU, Clock
    VictimMayFail,\* Victim may answer false although it tracks keys
    InitTracked,  \* what the policy given to New may already track
    MaxSeq        \* bound on the number of Get and Put calls

VARIABLES
    mu,           \* holder of Core.mu, or Free
    policy,       \* Core.policy
    tracked,      \* keys the installed policy has metadata for
    seq,          \* Core.seq
    metrics,      \* the counters of metrics.Collector the core writes
    published,    \* hit and miss events sent to the bus
    pc,           \* where each goroutine is
    call,         \* the arguments and locals of its current call
    ret           \* the outcome of its last call

policyVars == <<policy, tracked>>
vars == <<items, bytes, keyBytes, mu, policy, tracked, seq, metrics, published, pc, call, ret>>

ASSUME KeysAssumption == Keys # {}
ASSUME PolicyAssumption == NoPolicy \notin Policies
ASSUME ThreadAssumption == Free \notin Threads
ASSUME SizesAssumption == Sizes \subseteq Int
ASSUME InitTrackedAssumption == InitTracked \subseteq SUBSET Keys
ASSUME SampleRateAssumption == SampleRate \in Nat \ {0} /\ MaxSeq \in Nat
ASSUME AdmitAssumption == AdmitAnswers \subseteq BOOLEAN /\ VictimMayFail \in BOOLEAN

Installed == policy # NoPolicy

Errors == {"ErrInvalidSize", "ErrObjectTooLarge", "ErrCapacityExceeded"}
Outcomes == Errors \cup {"none", "ok", "hit", "miss", "refused", "removed", "absent"}

(* Steps taken with c.mu held; the other non-idle steps hold nothing. *)
LockedSteps == {"put_insert", "put_noted", "put_evict", "put_evicted", "remove_noted", "clear_reset",
                "set_rebuild"}
Steps == LockedSteps \cup {"idle", "get_lock", "get_record", "get_publish", "put_lock", "set_metrics"}

-----------------------------------------------------------------------------
Goto(t, step) == pc' = [pc EXCEPT ![t] = step]

(* The locals of a goroutine that is in no call. *)
NoCall == [key |-> CHOOSE k \in Keys : TRUE, size |-> 0, seq |-> 0,
           victim |-> CHOOSE k \in Keys : TRUE, freed |-> 0, evicted |-> 0, name |-> NoPolicy]

Return(t, outcome) ==
    /\ Goto(t, "idle")
    /\ ret' = [ret EXCEPT ![t] = outcome]
    /\ call' = [call EXCEPT ![t] = NoCall]

Lock(t) == mu = Free /\ mu' = t
Unlock == mu' = Free

(* A call that takes the lock and releases it within one step. *)
LockAndUnlock == mu = Free /\ UNCHANGED mu

(* seq%c.sampleRate == 0 *)
Sampled(n) == n % SampleRate = 0

-----------------------------------------------------------------------------
Init ==
    /\ StoreInit
    /\ mu = Free
    /\ policy \in Policies \cup {NoPolicy}
    /\ tracked \in IF policy = NoPolicy THEN {{}} ELSE InitTracked
    /\ seq = 0
    /\ metrics = [total |-> 0, fetched |-> 0, evictedBytes |-> 0, policy |-> policy]
    /\ published = 0
    /\ pc = [t \in Threads |-> "idle"]
    /\ call = [t \in Threads |-> NoCall]
    /\ ret = [t \in Threads |-> "none"]

-----------------------------------------------------------------------------
(* Get *)

GetBegin(t, k) ==
    /\ pc[t] = "idle" /\ seq < MaxSeq
    /\ seq' = seq + 1
    /\ call' = [call EXCEPT ![t] = [NoCall EXCEPT !.key = k, !.seq = seq + 1]]
    /\ Goto(t, "get_lock")
    /\ UNCHANGED <<storeVars, policyVars, mu, metrics, published, ret>>

(* Touch and OnAccess under the lock; neither changes which keys exist. *)
GetTouch(t) ==
    /\ pc[t] = "get_lock"
    /\ LockAndUnlock
    /\ ret' = [ret EXCEPT ![t] = IF call[t].key \in Resident THEN "hit" ELSE "miss"]
    /\ call' = [call EXCEPT ![t].size = IF call[t].key \in Resident THEN items[call[t].key] ELSE 0]
    /\ Goto(t, "get_record")
    /\ UNCHANGED <<storeVars, policyVars, seq, metrics, published>>

GetRecord(t) ==
    /\ pc[t] = "get_record"
    /\ metrics' = [metrics EXCEPT !.total = @ + 1,
                                  !.fetched = @ + (IF ret[t] = "hit" THEN 0 ELSE call[t].size)]
    /\ Goto(t, "get_publish")
    /\ UNCHANGED <<storeVars, policyVars, mu, seq, published, call, ret>>

GetPublish(t) ==
    /\ pc[t] = "get_publish"
    /\ published' = IF Sampled(call[t].seq) THEN published + 1 ELSE published
    /\ Goto(t, "idle")
    /\ call' = [call EXCEPT ![t] = NoCall]
    /\ UNCHANGED <<storeVars, policyVars, mu, seq, metrics, ret>>

-----------------------------------------------------------------------------
(* Put *)

PutBegin(t, k, s) ==
    /\ pc[t] = "idle" /\ seq < MaxSeq
    /\ seq' = seq + 1
    /\ call' = [call EXCEPT ![t] = [NoCall EXCEPT !.key = k, !.size = s, !.seq = seq + 1]]
    /\ Goto(t, "put_lock")
    /\ UNCHANGED <<storeVars, policyVars, mu, metrics, published, ret>>

(* A policy that refuses admission ends the call with a nil error. *)
PutRefused(t) ==
    /\ pc[t] = "put_lock"
    /\ LockAndUnlock
    /\ Installed /\ FALSE \in AdmitAnswers
    /\ Return(t, "refused")
    /\ UNCHANGED <<storeVars, policyVars, seq, metrics, published>>

PutLock(t) ==
    /\ pc[t] = "put_lock"
    /\ Installed => TRUE \in AdmitAnswers
    /\ Lock(t)
    /\ Goto(t, "put_insert")
    /\ UNCHANGED <<storeVars, policyVars, seq, metrics, published, call, ret>>

PutInsert(t) ==
    /\ pc[t] = "put_insert"
    /\ InsertOutcome(call[t].key, call[t].size) = "ok"
    /\ Insert(call[t].key, call[t].size)
    /\ Goto(t, "put_noted")
    /\ UNCHANGED <<policyVars, mu, seq, metrics, published, call, ret>>

(* Mutant of PutNoted: the fetched bytes are not recorded. *)
PutNotedWithoutFetch(t) ==
    /\ pc[t] = "put_noted"
    /\ tracked' = IF Installed THEN tracked \cup {call[t].key} ELSE tracked
    /\ Unlock
    /\ Return(t, "ok")
    /\ UNCHANGED <<storeVars, policy, seq, metrics, published>>

(* OnInsert and RecordFetch, then the deferred Unlock. *)
PutNoted(t) ==
    /\ pc[t] = "put_noted"
    /\ tracked' = IF Installed THEN tracked \cup {call[t].key} ELSE tracked
    /\ metrics' = [metrics EXCEPT !.fetched = @ + call[t].size]
    /\ Unlock
    /\ Return(t, "ok")
    /\ UNCHANGED <<storeVars, policy, seq, published>>

(* The errors no eviction can cure, and a full store with no policy. *)
PutFails(t) ==
    LET outcome == InsertOutcome(call[t].key, call[t].size)
    IN  /\ pc[t] = "put_insert"
        /\ outcome \in Errors
        /\ outcome = "ErrCapacityExceeded" => ~Installed
        /\ Unlock
        /\ Return(t, outcome)
        /\ UNCHANGED <<storeVars, policyVars, seq, metrics, published>>

PutFull(t) ==
    /\ pc[t] = "put_insert"
    /\ InsertOutcome(call[t].key, call[t].size) = "ErrCapacityExceeded"
    /\ Installed
    /\ Goto(t, "put_evict")
    /\ UNCHANGED <<storeVars, policyVars, mu, seq, metrics, published, call, ret>>

(* evictOneLocked: the policy offers no victim. *)
EvictNothing(t) ==
    /\ pc[t] = "put_evict"
    /\ tracked = {} \/ VictimMayFail
    /\ Unlock
    /\ Return(t, "ErrCapacityExceeded")
    /\ UNCHANGED <<storeVars, policyVars, seq, metrics, published>>

(* Mutant of EvictPhantom: the phantom is kept and the insert retried. *)
RetryPhantom(t, v) ==
    /\ pc[t] = "put_evict"
    /\ v \in tracked /\ v \notin Resident
    /\ Goto(t, "put_insert")
    /\ UNCHANGED <<storeVars, policyVars, mu, seq, metrics, published, call, ret>>

(* evictOneLocked: the victim is not in the store. *)
EvictPhantom(t, v) ==
    /\ pc[t] = "put_evict"
    /\ v \in tracked /\ v \notin Resident
    /\ tracked' = tracked \ {v}
    /\ Unlock
    /\ Return(t, "ErrCapacityExceeded")
    /\ UNCHANGED <<storeVars, policy, seq, metrics, published>>

(* evictOneLocked as far as store.Remove: unlocked readers see the victim  *)
(* gone before the policy does.                                            *)
Evict(t, v) ==
    /\ pc[t] = "put_evict"
    /\ v \in tracked
    /\ RemoveEntry(v)
    /\ call' = [call EXCEPT ![t].victim = v, ![t].freed = items[v]]
    /\ Goto(t, "put_evicted")
    /\ UNCHANGED <<policyVars, mu, seq, metrics, published, ret>>

(* The rest of evictOneLocked: OnRemove, RecordEviction and the eviction   *)
(* event, which is neither sampled nor counted here; then Put retries.     *)
EvictNoted(t) ==
    /\ pc[t] = "put_evicted"
    /\ tracked' = tracked \ {call[t].victim}
    /\ metrics' = [metrics EXCEPT !.evictedBytes = @ + call[t].freed]
    /\ call' = [call EXCEPT ![t].evicted = @ + 1]
    /\ Goto(t, "put_insert")
    /\ UNCHANGED <<storeVars, policy, mu, seq, published, ret>>

-----------------------------------------------------------------------------
(* Remove, Clear and SetPolicy *)

RemoveAbsent(t, k) ==
    /\ pc[t] = "idle"
    /\ LockAndUnlock
    /\ k \notin Resident
    /\ Return(t, "absent")
    /\ UNCHANGED <<storeVars, policyVars, seq, metrics, published>>

Remove(t, k) ==
    /\ pc[t] = "idle"
    /\ Lock(t)
    /\ RemoveEntry(k)
    /\ call' = [call EXCEPT ![t] = [NoCall EXCEPT !.key = k]]
    /\ Goto(t, "remove_noted")
    /\ UNCHANGED <<policyVars, seq, metrics, published, ret>>

RemoveNoted(t) ==
    /\ pc[t] = "remove_noted"
    /\ tracked' = IF Installed THEN tracked \ {call[t].key} ELSE tracked
    /\ Unlock
    /\ Return(t, "removed")
    /\ UNCHANGED <<storeVars, policy, seq, metrics, published>>

Clear(t) ==
    /\ pc[t] = "idle"
    /\ Lock(t)
    /\ ClearStore
    /\ Goto(t, "clear_reset")
    /\ UNCHANGED <<policyVars, seq, metrics, published, call, ret>>

ClearReset(t) ==
    /\ pc[t] = "clear_reset"
    /\ tracked' = {}
    /\ Unlock
    /\ Return(t, "ok")
    /\ UNCHANGED <<storeVars, policy, seq, metrics, published>>

(* Mutant of SetPolicy: c.mu is not taken. *)
SetPolicyUnlocked(t, p) ==
    /\ pc[t] = "idle"
    /\ policy' = p
    /\ tracked' = {}
    /\ call' = [call EXCEPT ![t] = [NoCall EXCEPT !.name = p]]
    /\ Goto(t, "set_rebuild")
    /\ UNCHANGED <<storeVars, mu, seq, metrics, published, ret>>

(* SetPolicy installs the policy and Resets it ... *)
SetPolicy(t, p) ==
    /\ pc[t] = "idle"
    /\ Lock(t)
    /\ policy' = p
    /\ tracked' = {}
    /\ call' = [call EXCEPT ![t] = [NoCall EXCEPT !.name = p]]
    /\ Goto(t, "set_rebuild")
    /\ UNCHANGED <<storeVars, seq, metrics, published, ret>>

(* Mutant of SetPolicyRebuild: the new policy is not rebuilt. *)
SetPolicyNoRebuild(t) ==
    /\ pc[t] = "set_rebuild"
    /\ Unlock
    /\ Goto(t, "set_metrics")
    /\ UNCHANGED <<storeVars, policyVars, seq, metrics, published, call, ret>>

(* ... then Rebuilds it from the store's Entries, and unlocks. *)
SetPolicyRebuild(t) ==
    /\ pc[t] = "set_rebuild"
    /\ tracked' = IF Installed THEN Resident ELSE tracked
    /\ Unlock
    /\ Goto(t, "set_metrics")
    /\ UNCHANGED <<storeVars, policy, seq, metrics, published, call, ret>>

(* metrics.SetPolicy, after the unlock. *)
SetPolicyMetrics(t) ==
    /\ pc[t] = "set_metrics"
    /\ metrics' = [metrics EXCEPT !.policy = call[t].name]
    /\ Return(t, "ok")
    /\ UNCHANGED <<storeVars, policyVars, mu, seq, published>>

-----------------------------------------------------------------------------
(* What goroutine t does next: start a call, or go on with its current one. *)
Start(t) ==
    \/ \E k \in Keys : GetBegin(t, k) \/ Remove(t, k) \/ RemoveAbsent(t, k)
    \/ \E k \in Keys, s \in Sizes : PutBegin(t, k, s)
    \/ \E p \in Policies \cup {NoPolicy} : SetPolicy(t, p)
    \/ Clear(t)

Acquire(t) == GetTouch(t) \/ PutRefused(t) \/ PutLock(t)

Continue(t) ==
    \/ GetRecord(t) \/ GetPublish(t)
    \/ PutInsert(t) \/ PutNoted(t) \/ PutFails(t) \/ PutFull(t)
    \/ EvictNothing(t) \/ EvictNoted(t)
    \/ \E v \in Keys : EvictPhantom(t, v) \/ Evict(t, v)
    \/ RemoveNoted(t) \/ ClearReset(t) \/ SetPolicyRebuild(t) \/ SetPolicyMetrics(t)

Next == \E t \in Threads : Start(t) \/ Acquire(t) \/ Continue(t)

Spec == Init /\ [][Next]_vars

(* A goroutine inside a call is eventually scheduled, and one that waits   *)
(* for c.mu eventually gets it: sync.Mutex hands the lock to a waiter that *)
(* has starved for 1 ms.  Nothing obliges a goroutine to start a call.     *)
Fairness == \A t \in Threads : WF_vars(Continue(t)) /\ SF_vars(Acquire(t))

FairSpec == Spec /\ Fairness

-----------------------------------------------------------------------------
CallType ==
    [key : Keys, size : Sizes \cup 0..Capacity, seq : Nat, victim : Keys, freed : 0..Capacity,
     evicted : Nat, name : Policies \cup {NoPolicy}]

MetricsType == [total : Nat, fetched : Nat, evictedBytes : Nat, policy : Policies \cup {NoPolicy}]

TypeOK ==
    /\ StoreTypeOK
    /\ mu \in Threads \cup {Free}
    /\ policy \in Policies \cup {NoPolicy}
    /\ tracked \subseteq Keys
    /\ seq \in Nat
    /\ metrics \in MetricsType
    /\ published \in Nat
    /\ pc \in [Threads -> Steps]
    /\ call \in [Threads -> CallType]
    /\ ret \in [Threads -> Outcomes]

(* PolicyTracksStore: whenever c.mu is free, an installed policy has       *)
(* metadata for exactly the resident keys, so it neither offers a phantom  *)
(* victim nor hides an entry from eviction, however calls and policy       *)
(* switches interleave (core.go:215-228, 243-249).                         *)
PolicyTracksStore == mu = Free /\ Installed => tracked = Resident

(* ResidentTracked: even when New was given a policy that already held     *)
(* metadata, every resident entry can still become a victim (core.go:59).  *)
ResidentTracked == mu = Free /\ Installed => Resident \subseteq tracked

(* FetchedCoversResident: every byte that is resident or was evicted has   *)
(* been counted by RecordFetch exactly once, so between calls the fetched  *)
(* total is at least their sum (core.go:138, 250).                         *)
FetchedCoversResident == mu = Free => bytes + metrics.evictedBytes <= metrics.fetched

(* A step that returns an error from inside the lock. *)
CleanReturn ==
    \A t \in Threads :
       pc[t] \in LockedSteps /\ pc'[t] = "idle" /\ ret'[t] \in Errors =>
          /\ call[t].evicted = 0
          /\ ret'[t] = "ErrCapacityExceeded" => ~Installed

(* ErrorsChangeNothing: a Put that returns an error evicted nothing on the *)
(* way, and it returns ErrCapacityExceeded only when no policy is          *)
(* installed (cache.go:22-24, core.go:117-118).                            *)
ErrorsChangeNothing == [][CleanReturn]_vars

(* CallsReturn: no call is stuck; in particular the eviction loop of Put   *)
(* ends (core.go:130-147, 244-245).                                        *)
CallsReturn == \A t \in Threads : pc[t] # "idle" ~> pc[t] = "idle"

(* MetricsPolicyCurrent: when no call is in progress the collector names   *)
(* the policy that is installed (collector.go:163).                        *)
MetricsPolicyCurrent ==
    (\A t \in Threads : pc[t] = "idle") => metrics.policy = policy
=============================================================================
