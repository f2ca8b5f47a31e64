----------------------------- MODULE Collector -----------------------------
(***************************************************************************)
(* The metrics collector (metrics/collector.go) and the histogram it owns  *)
(* (metrics/latency.go).  Every counter is an atomic of its own and no     *)
(* method holds a lock over two of them, so a call is the sequence of the  *)
(* atomic operations it performs, and those of concurrent calls            *)
(* interleave.  todo[t] is what is left of goroutine t's call.             *)
(***************************************************************************)
EXTENDS Histogram, Sequences, FiniteSets, FiniteSetsExt, Functions, TLC

CONSTANTS
    Goroutines,
    Requests,     \* [hit, size, latency]; a clock that runs back gives a latency < 0
    Sizes,        \* sizes of fetched and evicted objects
    PolicyNames,
    NoPolicy,     \* types.PolicyNone
    MaxCalls,     \* bound on the number of calls
    MaxOther      \* how many of the first calls may be other than these three:
                  \* RecordRequest, Reset, Snapshot

(* A latency is a time.Duration, and fits the histogram's word.            *)
ASSUME RequestsAssumption ==
    /\ IsFiniteSet(Requests)
    /\ Requests \subseteq [hit : BOOLEAN, size : Nat, latency : Int]
    /\ \A r \in Requests : r.latency < 2 ^ Width

ASSUME CallsAssumption == IsFiniteSet(Goroutines) /\ Sizes \subseteq Nat

VARIABLES
    cnt,          \* the counters, by name
    buckets,      \* Histogram.buckets
    policy,       \* Collector.policy
    todo,         \* the atomic operations left of each goroutine's call
    view,         \* what it has loaded so far
    call,         \* which call it is in
    calls,        \* number of calls so far
    reqs,         \* history: how often each request was begun since the last Reset
    finished,     \* history: of these, those that returned without meeting a Reset
    overlap,      \* history: what ran at the same time as the goroutine's call
    before,       \* history: finished, when the call began
    dirty         \* history: RecordRequest calls that met the last Reset

history == <<reqs, finished, overlap, before, dirty>>
vars == <<cnt, buckets, policy, todo, view, call, calls, history>>

Counters == {"total", "hits", "misses", "bytesServed", "bytesFetched", "evictions", "evictedBytes",
             "backendReqs", "switches", "switchOverhead", "tuningAttempts", "tuningAccepted",
             "count", "sum", "max"}

-----------------------------------------------------------------------------
(* The atomic operations. *)
Add(c, n) == [do |-> "add", at |-> c, n |-> n]
Load(c) == [do |-> "load", at |-> c]
Zero(c) == [do |-> "zero", at |-> c]
Install(name) == [do |-> "install", name |-> name]
Fill(i) == [do |-> "bucket", at |-> i]
Empty(i) == [do |-> "empty", at |-> i]
RaiseMax(d) == [do |-> "max", n |-> d]
Cas(d, cur) == [do |-> "cas", n |-> d, cur |-> cur]
Walk(name, target, i, seen) == [do |-> "walk", at |-> name, target |-> target, i |-> i, seen |-> seen]

(* Mutant of Record: the bucket is filled last. *)
RecordBucketLast(d) ==
    IF d < 0 THEN << >> ELSE <<Add("count", 1), Add("sum", d), RaiseMax(d), Fill(bucketIndex(d))>>

(* Histogram.Record *)
Record(d) ==
    IF d < 0 THEN << >> ELSE <<Fill(bucketIndex(d)), Add("count", 1), Add("sum", d), RaiseMax(d)>>

(* Mutant of Counts: the total is counted last. *)
CountsTotalLast(r) ==
    IF r.hit THEN <<Add("hits", 1), Add("bytesServed", r.size), Add("total", 1)>>
             ELSE <<Add("misses", 1), Add("bytesFetched", r.size), Add("backendReqs", 1), Add("total", 1)>>

(* RecordRequest up to the latency. *)
Counts(r) ==
    IF r.hit THEN <<Add("total", 1), Add("hits", 1), Add("bytesServed", r.size)>>
             ELSE <<Add("total", 1), Add("misses", 1), Add("bytesFetched", r.size), Add("backendReqs", 1)>>

RecordRequest(r) == Counts(r) \o Record(r.latency)

RecordFetch(size) == <<Add("bytesFetched", size)>>
RecordEviction(size) == <<Add("evictions", 1), Add("evictedBytes", size)>>
RecordSwitch(to, overhead) ==
    IF overhead > 0 THEN <<Add("switches", 1), Add("switchOverhead", overhead), Install(to)>>
                    ELSE <<Add("switches", 1), Install(to)>>
RecordTuning(accepted) ==
    IF accepted THEN <<Add("tuningAttempts", 1), Add("tuningAccepted", 1)>> ELSE <<Add("tuningAttempts", 1)>>
SetPolicy(name) == <<Install(name)>>
TuningAttempts == <<Load("tuningAttempts"), Load("tuningAccepted")>>

(* The quantiles of the histogram, by name and in percent. *)
QuantileNames == {"p50", "p95", "p99"}
Percent(name) == CASE name = "p50" -> 50 [] name = "p95" -> 95 [] name = "p99" -> 99
Quantile(name) == [do |-> "rank", at |-> name, percent |-> Percent(name)]

MeanMillis == [do |-> "mean"]
CurrentPolicy == [do |-> "policy"]

(* Snapshot: the loads in the order of the code, and the policy last.  The *)
(* rates are computed from what was loaded.                                *)
Snapshot ==
    <<Load("hits"), Load("misses"), Load("bytesServed"), Load("bytesFetched"), Load("total"),
      MeanMillis, Quantile("p50"), Quantile("p95"), Quantile("p99"),
      Load("switches"), Load("switchOverhead"), Load("evictions"), Load("backendReqs"), CurrentPolicy>>

(* Histogram.Reset *)
ResetLatency == [i \in 1..numBuckets |-> Empty(i - 1)] \o <<Zero("count"), Zero("sum"), Zero("max")>>

(* Mutant of ResetCounters: misses are forgotten. *)
ResetKeepsMisses ==
    <<Zero("total"), Zero("hits"), Zero("bytesServed"), Zero("bytesFetched"),
      Zero("evictions"), Zero("evictedBytes"), Zero("backendReqs"), Zero("switches"),
      Zero("switchOverhead"), Zero("tuningAttempts"), Zero("tuningAccepted")>>

(* Reset up to the histogram. *)
ResetCounters ==
    <<Zero("total"), Zero("hits"), Zero("misses"), Zero("bytesServed"), Zero("bytesFetched"),
      Zero("evictions"), Zero("evictedBytes"), Zero("backendReqs"), Zero("switches"),
      Zero("switchOverhead"), Zero("tuningAttempts"), Zero("tuningAccepted")>>

Reset == ResetCounters \o ResetLatency

-----------------------------------------------------------------------------
Init ==
    /\ cnt = [c \in Counters |-> 0]
    /\ buckets = [i \in BucketSet |-> 0]
    /\ policy = NoPolicy
    /\ todo = [t \in Goroutines |-> << >>]
    /\ view = [t \in Goroutines |-> << >>]
    /\ call = [t \in Goroutines |-> "idle"]
    /\ calls = 0
    /\ reqs = [r \in Requests |-> 0] /\ finished = 0
    /\ overlap = [t \in Goroutines |-> "none"]
    /\ before = [t \in Goroutines |-> 0]
    /\ dirty = 0

Active == {t \in Goroutines : call[t] # "idle"}
Recording == {t \in Goroutines : call[t] = "request"}
Resetting == {t \in Goroutines : call[t] = "reset"}

(* What a call of the given name that begins now makes of the history. *)
Overlaps(t, name) ==
    overlap' = [u \in Goroutines |->
                  IF u = t THEN IF name # "reset" /\ Resetting # {} THEN "reset"
                                ELSE IF Active # {} THEN "calls" ELSE "none"
                  ELSE IF u \notin Active THEN overlap[u]
                  ELSE IF name = "reset" \/ overlap[u] = "reset" THEN "reset" ELSE "calls"]

(* Goroutine t begins a call. *)
Begin(t, name, program) ==
    /\ call[t] = "idle" /\ calls < MaxCalls
    /\ calls' = calls + 1
    /\ call' = [call EXCEPT ![t] = name]
    /\ todo' = [todo EXCEPT ![t] = program]
    /\ Overlaps(t, name)
    /\ before' = [before EXCEPT ![t] = finished]
    /\ UNCHANGED <<cnt, buckets, policy, view>>

BeginRequest(t, r) ==
    /\ Begin(t, "request", RecordRequest(r))
    /\ reqs' = [reqs EXCEPT ![r] = @ + 1]
    /\ dirty' = IF Resetting # {} THEN dirty + 1 ELSE dirty
    /\ UNCHANGED finished

BeginReset(t) ==
    /\ Begin(t, "reset", Reset)
    /\ reqs' = [r \in Requests |-> 0] /\ finished' = 0
    /\ dirty' = Cardinality(Recording)

BeginSnapshot(t) ==
    /\ Begin(t, "snapshot", Snapshot)
    /\ UNCHANGED <<reqs, finished, dirty>>

BeginOther(t, name, program) ==
    /\ Begin(t, name, program) /\ calls < MaxOther
    /\ UNCHANGED <<reqs, finished, dirty>>

Return(t) ==
    /\ call[t] # "idle" /\ todo[t] = << >>
    /\ call' = [call EXCEPT ![t] = "idle"]
    /\ view' = [view EXCEPT ![t] = << >>]
    /\ overlap' = [overlap EXCEPT ![t] = "none"]
    /\ before' = [before EXCEPT ![t] = 0]
    /\ finished' = IF call[t] = "request" /\ overlap[t] # "reset" THEN finished + 1 ELSE finished
    /\ UNCHANGED <<cnt, buckets, policy, todo, calls, reqs, dirty>>

-----------------------------------------------------------------------------
(* Goroutine t's next atomic operation is op, and next follows it. *)
Does(t, kind) == todo[t] # << >> /\ Head(todo[t]).do = kind
Then(t, next) == todo' = [todo EXCEPT ![t] = next \o Tail(@)]
Sees(t, name, n) ==
    view' = [view EXCEPT ![t] = [x \in DOMAIN view[t] \cup {name} |-> IF x = name THEN n ELSE view[t][x]]]

(* Mutant of DoAdd: the counter is loaded and stored in two steps. *)
DoLoadAndStore(t) ==
    /\ Does(t, "add")
    /\ LET op == Head(todo[t])
       IN  IF "old" \in DOMAIN op
           THEN cnt' = [cnt EXCEPT ![op.at] = op.old + op.n] /\ Then(t, << >>)
           ELSE Then(t, <<[old |-> cnt[op.at]] @@ op>>) /\ UNCHANGED cnt
    /\ UNCHANGED <<buckets, policy, view, call, calls, history>>

DoAdd(t) ==
    /\ Does(t, "add")
    /\ cnt' = [cnt EXCEPT ![Head(todo[t]).at] = @ + Head(todo[t]).n]
    /\ Then(t, << >>)
    /\ UNCHANGED <<buckets, policy, view, call, calls, history>>

DoBucket(t) ==
    /\ Does(t, "bucket")
    /\ buckets' = [buckets EXCEPT ![Head(todo[t]).at] = @ + 1]
    /\ Then(t, << >>)
    /\ UNCHANGED <<cnt, policy, view, call, calls, history>>

DoZero(t) ==
    /\ Does(t, "zero")
    /\ cnt' = [cnt EXCEPT ![Head(todo[t]).at] = 0]
    /\ Then(t, << >>)
    /\ UNCHANGED <<buckets, policy, view, call, calls, history>>

DoEmpty(t) ==
    /\ Does(t, "empty")
    /\ buckets' = [buckets EXCEPT ![Head(todo[t]).at] = 0]
    /\ Then(t, << >>)
    /\ UNCHANGED <<cnt, policy, view, call, calls, history>>

DoLoad(t) ==
    /\ Does(t, "load")
    /\ Sees(t, Head(todo[t]).at, cnt[Head(todo[t]).at])
    /\ Then(t, << >>)
    /\ UNCHANGED <<cnt, buckets, policy, call, calls, history>>

(* MeanMillis: the sum is loaded only when the count was not 0. *)
DoMean(t) ==
    /\ Does(t, "mean")
    /\ Sees(t, "count", cnt["count"])
    /\ Then(t, IF cnt["count"] = 0 THEN << >> ELSE <<Load("sum")>>)
    /\ UNCHANGED <<cnt, buckets, policy, call, calls, history>>

(* The policy is written and read under the collector's own mutex. *)
DoInstall(t) ==
    /\ Does(t, "install")
    /\ policy' = Head(todo[t]).name
    /\ Then(t, << >>)
    /\ UNCHANGED <<cnt, buckets, view, call, calls, history>>

DoPolicy(t) ==
    /\ Does(t, "policy")
    /\ Sees(t, "policy", policy)
    /\ Then(t, << >>)
    /\ UNCHANGED <<cnt, buckets, policy, call, calls, history>>

(* The loop that raises the maximum: load it, and swap if it is smaller. *)
DoMax(t) ==
    /\ Does(t, "max")
    /\ Then(t, IF Head(todo[t]).n <= cnt["max"] THEN << >>
               ELSE <<Cas(Head(todo[t]).n, cnt["max"])>>)
    /\ UNCHANGED <<cnt, buckets, policy, view, call, calls, history>>

(* CompareAndSwap: a maximum that has changed is loaded again. *)
DoCas(t) ==
    /\ Does(t, "cas")
    /\ LET op == Head(todo[t])
       IN  IF cnt["max"] = op.cur
           THEN cnt' = [cnt EXCEPT !["max"] = op.n] /\ Then(t, << >>)
           ELSE Then(t, <<RaiseMax(op.n)>>) /\ UNCHANGED cnt
    /\ UNCHANGED <<buckets, policy, view, call, calls, history>>

(* QuantileMillis: the count is loaded first; an empty histogram gives 0. *)
DoRank(t) ==
    /\ Does(t, "rank")
    /\ LET op == Head(todo[t])
       IN  Then(t, IF cnt["count"] = 0 THEN << >>
                   ELSE <<Walk(op.at, Target(op.percent, cnt["count"]), 0, 0)>>)
    /\ UNCHANGED <<cnt, buckets, policy, view, call, calls, history>>

(* Mutant of Passed: the walk stops one observation early. *)
PassedEarly(seen, target) == seen >= target

Passed(seen, target) == seen > target

(* Then the buckets one by one, until more than target observations have   *)
(* been seen; after the last one the maximum is reported instead.          *)
DoWalk(t) ==
    /\ Does(t, "walk")
    /\ LET op   == Head(todo[t])
           seen == op.seen + buckets[op.i]
       IN  IF buckets[op.i] > 0 /\ Passed(seen, op.target)
           THEN Sees(t, op.at, op.i) /\ Then(t, << >>)
           ELSE IF op.i = numBuckets - 1 THEN Sees(t, op.at, numBuckets) /\ Then(t, <<Load("max")>>)
           ELSE Then(t, <<Walk(op.at, op.target, op.i + 1, seen)>>) /\ UNCHANGED view
    /\ UNCHANGED <<cnt, buckets, policy, call, calls, history>>

-----------------------------------------------------------------------------
Call(t) ==
    \/ \E r \in Requests : BeginRequest(t, r)
    \/ BeginReset(t)
    \/ \E s \in Sizes : BeginOther(t, "fetch", RecordFetch(s))
    \/ \E s \in Sizes : BeginOther(t, "eviction", RecordEviction(s))
    \/ \E p \in PolicyNames, overhead \in {-1, 1} : BeginOther(t, "switch", RecordSwitch(p, overhead))
    \/ \E accepted \in BOOLEAN : BeginOther(t, "tuning", RecordTuning(accepted))
    \/ \E p \in PolicyNames : BeginOther(t, "setPolicy", SetPolicy(p))
    \/ BeginOther(t, "attempts", TuningAttempts)
    \/ BeginSnapshot(t)

Step(t) ==
    \/ DoAdd(t) \/ DoBucket(t) \/ DoMax(t) \/ DoCas(t)
    \/ DoZero(t) \/ DoEmpty(t)
    \/ DoLoad(t) \/ DoMean(t) \/ DoRank(t) \/ DoWalk(t)
    \/ DoInstall(t) \/ DoPolicy(t)
    \/ Return(t)

Next == \E t \in Goroutines : Call(t) \/ Step(t)

Spec == Init /\ [][Next]_vars

-----------------------------------------------------------------------------
(* What the recorded requests add up to, and the requests among them that  *)
(* the histogram accepts.                                                  *)
SumOver(S, f(_)) == SumFunctionOnSet([r \in Requests |-> reqs[r] * f(r)], S)
Number(S) == SumOver(S, LAMBDA r : 1)
Observed == {r \in Requests : r.latency >= 0}

(* LosslessAtRest: "aggregate counting must be lossless" (collector.go:55):*)
(* when no call is running and no request met a Reset, every counter the   *)
(* requests feed is exactly what they add up to, the histogram holds each  *)
(* observation in its bucket once, and the maximum is the largest of them, *)
(* however the atomic operations of the calls interleaved.                 *)
LosslessAtRest ==
    Active = {} /\ dirty = 0 =>
        LET Hits   == {r \in Requests : r.hit}
            Misses == Requests \ Hits
        IN  /\ cnt["total"] = Number(Requests)
            /\ cnt["hits"] = Number(Hits) /\ cnt["misses"] = Number(Misses)
            /\ cnt["bytesServed"] = SumOver(Hits, LAMBDA r : r.size)
            /\ cnt["bytesFetched"] >= SumOver(Misses, LAMBDA r : r.size)
            /\ cnt["backendReqs"] = Number(Misses)
            /\ cnt["count"] = Number(Observed)
            /\ cnt["sum"] = SumOver(Observed, LAMBDA r : r.latency)
            /\ cnt["max"] = Max({0} \cup {r.latency : r \in {o \in Observed : reqs[o] > 0}})
            /\ \A i \in BucketSet : buckets[i] = Number({r \in Observed : bucketIndex(r.latency) = i})

(* A snapshot about to be returned, that no Reset overlapped and that no   *)
(* request cut short by the last Reset can have disturbed.                 *)
Ready(t) == call[t] = "snapshot" /\ todo[t] = << >> /\ overlap[t] # "reset" /\ dirty = 0

(* SnapshotNeverOvercounts: the hits and misses of a snapshot never exceed *)
(* its requests and include every request that had returned before the     *)
(* snapshot began, because RecordRequest counts the total first and        *)
(* Snapshot loads it last (collector.go:112, 178-184).                     *)
SnapshotNeverOvercounts ==
    \A t \in Goroutines : Ready(t) =>
        /\ view[t]["hits"] + view[t]["misses"] <= view[t]["total"]
        /\ view[t]["hits"] + view[t]["misses"] >= before[t]

(* QuantileFound: the walk over the buckets finds the rank it looks for,   *)
(* so the maximum is never reported in place of a quantile: Record fills   *)
(* the bucket before it counts, QuantileMillis loads the count first       *)
(* (latency.go:70-71, 105-125).                                            *)
QuantileFound ==
    \A t \in Goroutines : Ready(t) =>
        \A q \in QuantileNames \cap DOMAIN view[t] : view[t][q] # numBuckets

(* QuantileRanked: a snapshot that ran alone reports, for each quantile,   *)
(* the bucket of the observation of that rank.                             *)
QuantileRanked ==
    \A t \in Goroutines : Ready(t) /\ overlap[t] = "none" =>
        LET below(i) == Number({r \in Observed : bucketIndex(r.latency) < i})
            n        == Number(Observed)
        IN  \A q \in QuantileNames :
               IF n = 0 THEN q \notin DOMAIN view[t]
               ELSE /\ 100 * below(view[t][q]) <= Percent(q) * n
                    /\ 100 * below(view[t][q] + 1) > Percent(q) * n

(* ResetDriftBounded: Reset clears the counters one by one while requests  *)
(* are recorded; what it leaves behind is off by at most one for each      *)
(* request that met it.                                                    *)
ResetDriftBounded ==
    Active = {} =>
        LET drift == cnt["total"] - cnt["hits"] - cnt["misses"]
        IN  drift <= dirty /\ -drift <= dirty
=============================================================================
