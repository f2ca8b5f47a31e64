--------------------------- MODULE EvictionPolicy ---------------------------
(***************************************************************************)
(* What the cache core relies on when it calls an eviction policy          *)
(* (cache/policy/policy.go and the calls in cache/core.go): the policy     *)
(* tracks a set of keys, and what it offers for eviction is always one of  *)
(* them.  LRU, Clock and LFU are shown to implement this specification.    *)
(***************************************************************************)
EXTENDS Integers, Sequences

CONSTANTS
    Keys,
    MaxBatch    \* largest n passed to Candidates

VARIABLES
    tracked,    \* the keys the policy has metadata for
    answer      \* the keys the last call of Victim or Candidates returned

vars == <<tracked, answer>>

Init == tracked = {} /\ answer = << >>

(* OnAccess, MetadataBytes and SetParam leave the tracked keys alone. *)
Quiet == answer' = << >> /\ UNCHANGED tracked

(* OnInsert of a tracked key does not count it twice; OnRemove of an       *)
(* untracked key is a no-op.                                               *)
OnInsert(k) == tracked' = tracked \cup {k} /\ answer' = << >>
OnRemove(k) == tracked' = tracked \ {k} /\ answer' = << >>

(* Rebuild adopts exactly the given entries; Reset discards everything. *)
Rebuild(S) == tracked' = S /\ answer' = << >>
Reset == Rebuild({})

(* Victim fails only when there is nothing to evict. *)
Victim ==
    /\ UNCHANGED tracked
    /\ IF tracked = {} THEN answer' = << >>
                       ELSE \E k \in tracked : answer' = <<k>>

(* Up to n tracked keys, and at least one when there is one. *)
Candidates(n) ==
    /\ UNCHANGED tracked
    /\ answer' \in Seq(tracked)
    /\ Len(answer') <= n
    /\ n > 0 /\ tracked # {} => answer' # << >>

Next ==
    \/ Quiet \/ Reset \/ Victim
    \/ \E k \in Keys : OnInsert(k) \/ OnRemove(k)
    \/ \E S \in SUBSET Keys : Rebuild(S)
    \/ \E n \in 0..MaxBatch : Candidates(n)

Spec == Init /\ [][Next]_vars
=============================================================================
