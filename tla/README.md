# Verification of adaptive-caching

TLA+ models of the program in `src/`: the concurrent cache core and its object
store, the three eviction policies and the contract they share, the event bus,
the metrics collector with its latency histogram, the configuration, and the demo
program that puts them together. TLC checks small instances; TLAPS proves the safety properties of all of them for
every number of goroutines, keys and subscribers, every capacity and every configuration file, and that each
policy implements the contract the core relies on.

## 1. The system

| Component | State | Operations | Lock |
|---|---|---|---|
| object store (`cache/store.go`) | map key -> entry, running byte and key-byte totals | Insert, Remove, Touch, Clear; readers Get, Peek, Len, Bytes, KeyBytes, Capacity, Entries | `Store.mu` |
| cache core (`cache/core.go`, errors in `cache/cache.go`) | the store, the installed policy, a request sequence number | Get, Put (with the eviction loop), Remove, Clear, SetPolicy, Stats, Memory, Policy | `Core.mu` |
| policy contract (`cache/policy/policy.go`) | keys a policy has metadata for | OnAccess, OnInsert, OnRemove, Victim, Candidates, Rebuild, Reset, MetadataBytes, SetParam, ShouldAdmit | each policy's own |
| LRU (`cache/policy/lru.go`) | recency list, index, counters | as above | `LRU.mu` |
| Clock (`cache/policy/clock.go`) | ring of slots with reference bits, index, hand | as above | `Clock.mu` |
| LFU (`cache/policy/lfu.go`) | one list per frequency, index, ageing counter and period | as above | `LFU.mu` |
| policy registry (`cache/policy/registry.go`) | name -> constructor | filled by `init`, then read | none needed |
| event bus (`events/bus.go`, `events/types.go`) | subscribers with bounded channels, delivery order, closed flag | Publish, Subscribe, Unsubscribe, Close | `RWMutex` |
| metrics collector (`metrics/collector.go`) | atomic counters, histogram, current policy, last observed cache state | RecordRequest, RecordFetch, RecordEviction, RecordSwitch, RecordTuning, SetPolicy, ObserveCache, TuningAttempts, Snapshot, Reset | atomics; a mutex for policy and state |
| latency histogram (`metrics/latency.go`) | atomic buckets, count, sum, maximum | Record, MeanMillis, QuantileMillis, Reset | atomics |
| memory accounting (`metrics/memory.go`) | none | AccountMemory, on what the core read | none |
| configuration (`config/`) | none after start-up | Parse over defaults, Validate, FrameInterval | none |
| demo (`cmd/adaptive-cache`) | three goroutines: `run`, `generate`, `drainEvents` | load, resolve the policy, publish, emit frames, shut down | contexts and channels |
| shared types (`types/`) | none | declarations | none |

**Interaction.** Goroutines call the core. The core holds `c.mu` around the
store and policy work of a call; the store and the policies have locks of their
own, so `Stats`, `Memory` and direct readers of the store see the middle of a
call. The sequence number, the metrics updates of `Get` and `SetPolicy`, and the
hit and miss events come before or after the critical section and
interleave freely. A metrics call is a sequence of atomic operations without a
lock around them. `Stats` passes what it read through the collector, which all callers
share. The demo ends when its context does, without waiting for its goroutines. The bus delivers to subscribers with a non-blocking send
while it holds the read lock.

**What is hard.** Keeping two structures with different locks (store and policy
metadata) in step through policy switches and a multi-step eviction loop; the
loop's termination; byte totals in machine integers; steps left outside the
lock; ring and bucket structures over long call sequences; Go's map iteration
order; closing channels while publishers send; counters that belong together but
are updated and read one by one; conversions between floats and machine integers;
a shutdown that races with the work. `PROJECT.json` lists each of these
under `hazards` with its line and the properties aimed at it.

**What makes it correct.** The store: exact totals within capacity. The core:
the policy tracks exactly what is resident, errors have no side effects, calls
return, bytes are accounted for once. A policy: its structures agree, victims
are tracked keys in the documented order, a victim exists while a key is
tracked. The bus: no send on a closed channel, no open channel without an owner,
every event delivered, buffered or counted as dropped, publishers never wait for
consumers. The collector: nothing lost, and snapshots whose numbers may lag but do not
contradict each other. The readers: a breakdown is wrong only by what changed while it was
read. The demo: it starts with what was configured, publishes its events in order,
and ends.

## 2. Modules and how they correspond to the code

| Module | Role |
|---|---|
| `Store` | operators for the methods of `Store`; extended by `Core` |
| `Core` | goroutines calling the cache, one action per step outside or inside `c.mu` |
| `EvictionPolicy` | abstract specification: what the core relies on |
| `LRU`, `Clock`, `LFU` | the policies, each shown to implement `EvictionPolicy` |
| `Bus` | publishers, subscribers and consumers |
| `Observer` | extends `Core` with goroutines that call `Memory` and `Stats` |
| `Histogram` | operators for the bucketing; extended by `Collector` |
| `Collector` | goroutines calling the collector, one action per atomic operation |
| `Config` | operators for byte sizes, defaults, validation, and the registry's lookup; extended by `Demo` |
| `Demo` | the program from its flags to its exit |
| `CoreProofs` (with the readers), `LRUProofs`, `ClockProofs`, `LFUProofs`, `BusProofs`, `CollectorProofs`, `DemoProofs` | the theorems about each, with their inductive invariants |
| `BasicLemmas` | lemmas about lists, sets of numbers and sums that the proofs share |
| `MCCore`, `MCClock`, `MCLFU`, `MCBus`, `MCObserver`, `MCCollector`, `MCDemo` | constants for TLC (and, in `MCClock`, the ring loops as written) |

`PROJECT.json` maps every definition to its lines. The abstractions:

* **Store.** An entry is its size. `bytes` is the running `int64` total with
  two's complement wrap-around (`Wrap`, word size `MaxInt`); `Insert`'s checks are
  made in the code's order. Values, timestamps and `AccessCount` are left out: neither
  the store nor the core branches on them.
* **Core.** `pc[t]` says where goroutine `t` is. A call that does its critical
  section with a single visible effect is one step (`GetTouch`);
  one with several effects on different structures is several (`PutInsert` /
  `PutNoted`; `Evict` / `EvictNoted`; `Remove` / `RemoveNoted`; `Clear` / `ClearReset`;
  `SetPolicy` / `SetPolicyRebuild`), because the store can be read between them and
  dropping the lock there would be a mistake the model must be able to see. The policy is its contract: the set
  `tracked`, and any tracked key as victim. Of the metrics the counters are kept that
  the core's properties read. Eviction events are left out;
  hit and miss events are counted.
* **LRU.** List and index, counters, and a history that the victim order is compared with: in which order keys
  were last used (`older`), an insert counting as a use, and which were inserted again since they were put
  in front (`overwritten`), because the code leaves those where they are.
* **Clock.** The ring bit for bit. The walks of `Victim`, `Candidates` and
  `OnInsert` are closed forms; `MCClock` writes them as the loops of the code and
  `WalksMatchLoops` compares them on every step. The empty string is the marker
  of a free slot, as in the code, and may also be a key.
* **LFU.** Buckets, index, ageing. `lambda` is in hundredths, for which the float64 division is exact enough to truncate to the same period; NaN and
  lambdas below 2^-64 are left out. Ranges over maps
  take any order. The history `older` says which of two keys came to the frequency they have first; ageing and rebuilds, which
  follow the map's order, clear it. The loops of `ageLocked` and `Rebuild` are recursive functions on the number of rounds. `maxLFUFreq` is the constant `MaxFreq`, so that the ceiling is reached.
* **Bus.** `Publish` is one step per subscriber under the read lock. A channel is its
  counters: queued, received, dropped, offered, and whether a receiver waits.
* **Observer.** One step per read of `Memory` and `Stats`; only the read of the policy's bytes waits for
  `c.mu`. The constants of the accounting are `EntryCost` per entry and `PolicyCost`
  per tracked key, which is what LRU and LFU report; Clock reports a cost per slot of its ring, used or not. `Stats` writes the collector's `state` and reads it back in
  a step of its own. The counters of `Snapshot` are in `Collector`.
* **Collector.** A method is the sequence of its atomic operations, in the order of the
  code, each a record; `todo[t]` is what goroutine `t` has left of it. Loops whose course depends on what they read
  (the maximum, the quantile walk) put the rest of themselves back into `todo`. A
  quantile is the index of its bucket, and the index after the last one stands for the maximum. The variables under `history` only serve the
  properties: what was recorded since the last Reset, and which calls overlapped.
* **Config.** A size in a file is a number in tenths and a unit, a frame rate is a fraction
  or NaN. `Kilo`, `Kibi`, `Second` and `MaxInt` scale the units down and keep
  their proportions. `float64` is modelled: a value is a mantissa of a fixed number of bits times a power of two (`Half`, `Weights`), and
  parsing a size, multiplying it by its unit and dividing a second by a rate each round to the nearest one, ties to even (`Float`). The result is
  truncated to `int64`; out of range, infinity included, it is what amd64 or arm64 gives. Subnormals, and sizes written as `Inf` or `NaN`, are left out. A file is the set of fields it sets, decoded over the defaults (`Decoded`).
* **Demo.** `pc`, `gen` and `drain` are the places of the three goroutines. The cache is reduced to
  what the demo shows of it: the sequence number, the requests counted, whether anything
  is stored. The generator's check of its context and the draw of a sequence number by `Get` are separate steps: the
  context can end between them, so two draws can follow the end. The ticker has a tick ready again as soon as
  one was taken, or later, or never; `frames` keeps the last `MaxFrames` frames, so the loop goes on for ever. The bus is the ordered log of accepted events. `drainEvents`
  subscribes to types that nothing in the program publishes, so it receives nothing.

## 3. Runs

| Run | Instance | Shows |
|---|---|---|
| `core` | 2 goroutines, 3 keys of length 0, 1, 2, capacity 2, sizes -1..3, 3 requests, int range -8..7, fresh policy, admission may be refused | `TypeOK`, `BytesExact`, `WithinCapacity`, `PolicyTracksStore`, `FetchedCoversResident`, `ErrorsChangeNothing` |
| `core_reused` | 2 goroutines, 2 keys, sizes 1, 2, 2 requests, the initial policy tracks any set of keys, `Victim` may fail, fairness | `ResidentTracked`, `CallsReturn` |
| `lru` | 4 keys, batches up to 5 | `IndexMatchesList`, `VictimLeastRecent`, `ImplementsContract` |
| `clock` | 3 non-empty keys, batches up to 4 | `RingConsistent`, `FreeSlotExists`, `SecondChance`, `ImplementsContract`, `WalksMatchLoops` |
| `lfu` | 3 keys, frequency ceiling 4, rebuild counts 0, 2, 4, 5, lambdas -1, 0, 50, 100, 101 hundredths | `BucketsMatchItems`, `AgeingOnTime`, `WorstFirst`, `ImplementsContract` |
| `bus` | 2 publishers, 2 names, 3 events, 2 subscriptions | `NeverPanics`, `OpenIffRegistered`, `EveryEventAccounted`, `PublishReturns` |
| `core_readers` | 1 goroutine and 2 readers, 2 keys of length 1, size and capacity 2, 2 requests, 2 reader calls | `QuietBreakdownExact`, `FreshOccupancy` |
| `metrics` | 2 goroutines, 3 calls, requests: a hit, a miss, a miss with a negative latency; words of 3 bits with 1 sub-bit; the buckets also for words of 12 bits with the code's 4 | `LosslessAtRest`, `SnapshotNeverOvercounts`, `QuantileFound`, `QuantileRanked`, `ResetDriftBounded`, `WideBucketsSound` |
| `demo` | files that set one field to a good, bad or extreme value, the flag with and without a known policy; `Kilo` 10, `Kibi` 8, `MaxInt` 2^14 - 1, mantissas of 10 bits for values from 1/2 to 2^15; 4 requests, the last 2 frames remembered, ticks without end | `StartsAsConfigured`, `RunBracketed`, `StragglersBounded`, `FramesConsistent`, `RunReturns` |
| `core_metrics_policy`, `clock_empty_key`, `lfu_ageing` | as above | violations, section 5 |

**Why the bounds suffice.** *Core:* capacity 2 with sizes 0..2 allows two
entries, replacement that grows, shrinks or overflows, an eviction loop of two
rounds, a zero-size entry that no eviction pays for, and sizes -1 and 3 for the
two argument errors; the empty key exercises key bytes of 0. Three requests and
any number of Remove, Clear and SetPolicy calls fill the store and evict while a
second goroutine switches the policy. The word is the smallest in which the
sums of `Insert` do not wrap, so one that should not be there would.
*Policies:* the ring grows twice and is full; frequencies reach the
ceiling and batches exceed the number of keys. The policies have no call bound:
their state spaces are finite and explored whole. *Bus:* two events fill the
smallest buffer and a third is dropped, and a second subscription takes over a
name or adds one. *Readers:* with keys that fill the store, a second Put evicts, so
readers meet an eviction and a policy switch at every point; two calls are one of each kind or
two of the same, one after the other or overlapping. *Metrics:* three calls are two recordings and a
snapshot or a Reset, or a recording after a Reset that cut another one short; the
first of them may also be any other method (`MaxOther`). A word of 3 bits has every kind of bucket and keeps the walk
short. *Demo:* four requests are two full rounds of Get and Put, so one round can end before
and one after `TypeRunEnd`; each frame can be compared with the one before. The sizes include one that comes out a byte short of what is
written (1.2 MB, 119 bytes with 10-bit mantissas), one that comes out a byte longer than the exact product truncated (1.3 GiB, 666 for 665.6), one between the largest `int64` and the largest float and one
that is infinite; the rates include one just above the limit and one whose period fits an `int64` only before it is rounded. `MaxSeq`,
`MaxEvents`, `MaxSubs`, `MaxReads`, `MaxCalls` and `MaxFrames` cap counters and lists that
would otherwise grow for ever.

**Symmetry** is used for goroutines in `core` and `metrics` and for readers in
`core_readers`; none of these checks liveness.

**Deadlock** is checked except in `metrics`, where the goroutines stop after the
last call, and in `demo`, where the program exits.

**Fairness.** `FairSpec` of `Core`: a goroutine inside a call goes on (weak fairness: the Go
scheduler is preemptive), and one that waits for `c.mu` eventually gets it
although others take it again and again (strong fairness: `sync.Mutex` hands the
lock to a waiter that has starved for 1 ms). No call has to be started. `Bus`:
a publisher inside `Publish` goes on; nothing is assumed of consumers, which is the point
of `PublishReturns`. The wait for the bus's read lock itself, which writers hold only briefly, is not part of it. `Demo`: the deadline passes (`context.WithTimeout`), `run` goes on (its calls of the
cache return: `CallsReturn`; a write to standard output may fail, but is assumed not to block for ever, as it would on a pipe nobody reads), and a `select` between a tick and the end of the context, which chooses at random,
does not pass over the end for ever (strong fairness of `TakeDone`). Nothing is assumed of ticks, the
generator or the drainer.

**Mutants.** Each property has a mutated form of one definition, next to it in
the module and marked as a mutant, that resembles a mistake one could make in
that code; TLC refutes the property with it.

## 4. Proofs

Everything below holds for all values of the constants that meet the named `ASSUME`s of the modules
(finite sets of keys, goroutines, requests and publishers, bounds that are natural numbers, a capacity within the word, latencies that fit
the histogram's word, units that are positive, a frame rate limit of at most one per two nanoseconds, mantissas that fit an `int64` and a largest float beyond it, configuration fields of their types), plus the
assumptions in the table. `tlapm` checks every proof to the last leaf.

| Theorem | Extra assumptions | Property |
|---|---|---|
| `CoreInvariant`, `TypeCorrect` | `NoOverflow` | the inductive invariant `CoreInv`, `TypeOK` |
| `StoreExact`, `StoreBounded` | `NoOverflow` | `BytesExact`, `WithinCapacity` |
| `NothingForgotten` | `NoOverflow` | `ResidentTracked` |
| `LedgerCovers` | `NoOverflow` | `FetchedCoversResident` |
| `PolicyExact` | `NoOverflow`, `FreshPolicy` | `PolicyTracksStore` |
| `ErrorsAreClean` | `NoOverflow`, `FreshPolicy`, `~VictimMayFail` | `ErrorsChangeNothing` |
| `ObserverInvariant`, `StatsFresh` | `NoOverflow` | `CoreInv` with readers, `FreshOccupancy` |
| `MemoryExact` | `NoOverflow`, `FreshPolicy` | `QuietBreakdownExact` |
| `LRUInvariant`, `LRUIndexMatchesList`, `LRUVictimLeastRecent`, `LRUImplementsContract` | | `LRUInv`, `IndexMatchesList`, `VictimLeastRecent`, `ImplementsContract` |
| `ClockInvariant`, `ClockRingConsistent`, `ClockFreeSlotExists`, `ClockSecondChance`, `ClockImplementsContract` | `EmptyKey \notin Keys` | `ClockInv`, `RingConsistent`, `FreeSlotExists`, `SecondChance`, `ImplementsContract` |
| `LFUInvariant`, `LFUBucketsMatchItems`, `LFUAgeingOnTime`, `LFUWorstFirst`, `LFUImplementsContract` | | `LFUInv`, `BucketsMatchItems`, `AgeingOnTime`, `WorstFirst`, `ImplementsContract` |
| `BusInvariant`, `BusNeverPanics`, `BusOpenIffRegistered`, `BusEveryEventAccounted` | | `BusInv`, `NeverPanics`, `OpenIffRegistered`, `EveryEventAccounted` |
| `HistogramBucketsSound` | | `BucketsSound`, of which `WideBucketsSound` is the instance TLC evaluates |
| `CollectorInvariant`, `CollectorLossless`, `CollectorDriftBounded`, `CollectorNeverOvercounts`, `CollectorQuantileFound`, `CollectorQuantileRanked` | | `CollectorInv`, `LosslessAtRest`, `ResetDriftBounded`, `SnapshotNeverOvercounts`, `QuantileFound`, `QuantileRanked` |
| `DemoInvariant`, `DemoRunBracketed`, `DemoStragglersBounded`, `DemoFramesConsistent`, `DemoStartsAsConfigured` | | `DemoInv`, `RunBracketed`, `StragglersBounded`, `FramesConsistent`, `StartsAsConfigured` |

**The extra assumptions.** `NoOverflow` (`2 * Capacity <= MaxInt`) is a condition on the configuration: it
excludes capacities above half of the `int64` range. `FreshPolicy` says `New` was
given a policy without metadata, as every policy from the registry is. `~VictimMayFail` is what the three policies are
proved to satisfy (`ImplementsContract`: `Victim` fails only when nothing is tracked). `EmptyKey \notin Keys`
says no caller uses the empty string as a key; without it the Clock theorems are false, which is the finding
`clock_empty_key`.

**Core** (`CoreProofs`). The store comes first. A sum over
a function is usually a recursive definition. `BytesExact` instead says the total is the number of `Cells`, the
set with one element per byte, and the lemmas `InsertAdds` and `RemoveDrops` follow from
the cardinality of disjoint unions. The core's properties hold when `c.mu` is free, and half-way through a
call they do not: an inserted key is not yet tracked, an evicted one still is,
its bytes are not yet recorded. `CoreInv` says for each place the lock
holder can be at (`Stage`, with its locals `Cur`) by how much each is off:

* `LockInv`: `c.mu` is held by exactly the goroutine between Lock and Unlock;
* `SizeInv`: only an object that fits an empty store starts an eviction, and only with a
  policy installed, which makes a late `ErrObjectTooLarge` impossible;
* `CoverInv`: resident keys are tracked, except the one just inserted;
* `ExactInv` (from `FreshPolicy` only): tracked keys are resident, except the one just
  evicted or removed;
* `LedgerInv`: resident and evicted bytes are covered by fetched bytes, up to what
  the holder is about to record.

`StageSteps` lists once how each action moves the holder; the preservation lemmas
(`LockKept`, `StoreKept`, `TypeKept`, `SizeKept`, `CoverKept`, `ExactKept`, `LedgerKept`) go
through the actions from there, and steps outside the lock are dealt with together (`OutsideStep`).
`ErrorsAreClean` needs one more fact: a store that cannot take an object which would fit an
empty one is not empty, so an exact policy tracks a key and offers a resident victim.

**Readers** (also in `CoreProofs`). A step of a reader leaves the core alone, so `CoreInv` carries over. `FreshInv` ties
the window of a `Stats` call to the values other callers can have observed since it began; `QuietInv` says
what a `Memory` call that nothing disturbed has read so far equals what it would read now. `TrackedInv` adds that the keys it counted metadata
for are the resident ones: they were when it held `c.mu` (`ExactInv`, hence `FreshPolicy`), and no change came after. So the metadata is exact, and not only
large enough.

**LRU** (`LRUProofs`). `ListInv`: the list has no repetition and the index is the set of its elements.
`OrderInv`: a key is nearer to the front than one used after it only if that one was overwritten in place. `AnswerInv`: what was offered is the end of the list, backwards.

**Clock** (`ClockProofs`). `ClockInv` is `RingConsistent` with types. Two arguments carry it. The ring grows only when it
is full, so every slot is occupied and the copy of `growLocked` moves none. A walk of two laps passes every slot twice, the
second time with its bit cleared, so it stops whenever a slot is occupied; where it stops first decides `SecondChance`. That the
capacity is a power of two is shown without recursion: 2^e is the number of subsets of a set of e elements.

**LFU** (`LFUProofs`). `Filed(b, x, D)` says the buckets `b` hold exactly the keys in `D`, each once, where the index `x` says; half-way
through `incrementLocked` this is so for all keys but one. The loops of `ageLocked` and `Rebuild` are recursive functions on the number
of rounds. That such a function exists, and that every round keeps `Filed`, is shown for the first round that would fail (`LeastNat`). During ageing the
frequencies still to be visited must keep their lists; they do because a round deletes only the list it visits. For `WorstFirst` the history agrees with
the lists: of two keys in a bucket the one that came later is nearer to the front. What is offered is the lowest bucket from the back, perhaps several times over.

**Bus** (`BusProofs`). `Registered`: the channels in the delivery order are exactly the open ones and those of the subscriber map. `TodoInv`: while a
publisher holds the read lock, what it has yet to deliver to is still in the order, hence open.

**Histogram** (`CollectorProofs`). A value with leading bit `e` is between `2^e` and `2^(e+1)`, so shifting it right by `e - SubBits` gives one of
the `subCount` numbers from `subCount` on; the rest of `HistogramBucketsSound` follows from what happens to this
quotient when the value grows by one. `Width` and `SubBits` are any numbers, so the code's 64 and 4 are covered, which TLC cannot enumerate.

**Collector** (`CollectorProofs`). A goroutine is wherever its `todo` says, so the invariant speaks of *marks*: `Has(todo[t], M)` says one of the
operations in `M` is still to come, and `ShapeInv` says each occurs once and in which order. `CollectorInv` has four more parts:

* `HistoryInv`: which recordings are late (they met a Reset), and that `dirty` counts at least these.
* `BookInv`, the books. While a Reset runs, some cells are cleared and others are not, and what was recorded before it has already left the
  history. `Kept` is what a cell will be worth when the Reset in `K` has gone through; with several Resets at a time one of them is
  enough, so the books are right for *some* running Reset. `DriftInv` (for any `dirty`) puts the total, and the hits and misses together, between
  the recordings on time that have passed that addition and all that have. With `dirty = 0`, `LedgerInv` says each cell plus what
  running recordings owe it is what the requests add up to, `MaxInv` says the maximum is one of the latencies and at least those of
  the recordings past their compare-and-swap, and `FillInv` says the buckets together exceed the count by the recordings between
  the two, which is the order `QuantileFound` rests on.
* `SnapInv`: what an undisturbed snapshot has loaded is at most what the counter holds now (`LoadedInv`), and a walk has
  seen no more than its target, which lies in the buckets from here on (`WalkInv`). Only a Reset could take that away (`OnlyGrows`).
* `AloneInv`: for a snapshot that runs alone, what the walk has seen is exactly the number of observations below its bucket.

`LosslessAtRest` is `BookInv` with nothing running: no cell is about to be cleared and nothing is owed. Sums are those of the community
modules; `BasicLemmas` proves of them, over any finite set, what the books need (one term changes, two sums add, a sum splits).

**Demo** (`DemoProofs`). `DrawsLeft` and `EventsLeft` say how many sequence numbers and events the generator can still produce after
the context has ended, by where it is; `EndInv` bounds the sum of what was and what can be produced after `run_end`, which makes
`StragglersBounded` inductive. `StartsAsConfigured` has an invariant of its own, `ConfigInv`: from the place where the configuration is loaded it
is one that `Parse` can give, and a panic means an interval that is not positive. What `Parse` can give is settled by lemmas: the unit of a size
selects its own entry of `byteUnits` although `"B"` ends them all (`UnitFound`), and a rate that passes `Validate` has an interval of at least one
nanosecond unless it is NaN or its period is out of range (`BadInterval`). Rounding moves a number by at most half a unit of its last bit, one part in 2^53, and not
at all if it is whole and short (`FloatFacts`); so two roundings and the truncation leave a size within three parts in 2^53 and a byte of what is
written, or the largest `int64` for one beyond it (`TwoRoundings`, `Converted`, `SizeRounded`). Nothing is assumed of the mantissa but that it has more than one bit
and fits an `int64`: the theorem holds for the 53 bits of `float64` as for the 10 TLC runs with.

`BasicLemmas` has what these proofs share: lists without repetition, least and greatest elements, ranks, powers of two, sums over finite sets.

**Only model-checked:**

* liveness (`CallsReturn`, `PublishReturns`, `RunReturns`), which needs fairness;
* `WalksMatchLoops`, whose loops are recursive operators.

## 5. Findings

Each is a run that TLC ends with a violation of what a comment says.

* `core_metrics_policy`: `SetPolicy` updates the collector after the unlock, so two
  switches can leave it naming a policy that is not installed.
* `clock_empty_key`: the empty string is both a legal key and the mark of a free slot; the
  live count drifts and `growLocked` no longer guarantees a free slot.
* `lfu_ageing`: one ageing pass can halve a frequency twice, depending on map order.

Noted while modelling, without a run of their own:

* Get and Put draw from the same sequence but only Get publishes a sampled event, so "one event per N
  requests" (`core.go:26`) fails for a caller that alternates them at an even rate.
* A `Put` of a resident key does not make it recently used for LRU. `lru.go:70` says `OnInsert` "adds the key at the head, replacing any
  existing node" (also `lru.go:5-6`), and `lfu.go:195-199` and `lfu_test.go:193-194` speak of LRU's "treat as access" semantics; `lru.go:78-82` keeps the
  place of the key, and its comment there says so. A key that is overwritten all the time and never read is thus evicted before one that was
  inserted after it and never touched. `VictimLeastRecent` counts an insert as a use and excepts exactly the keys that were overwritten since they were
  put in front.
* `LFU.Candidates` reads the lowest bucket again, and repeats its keys, when asked for more than it
  holds (`lfu.go:289-298`), where `lfu.go:280-281` promises "up to n victims" with the next frequency after the lowest. `Clock.Candidates` makes two
  laps and offers a slot twice when asked for more than the ring has (`clock.go:221-235`). The callers of both in the repository are tests.
* Ageing pushes a bucket's keys to the front of the next one from front to back, so their order is reversed, and what `lfu.go:240-242` calls the oldest is
  then the newest. `WorstFirst` says nothing of the order of two keys that ageing moved together.
* A size with a fraction can come out a byte short: `"4.1MB"` is 4099999 (`config.go:52-56`), where `config.go:18-22` makes MB a
  power of 1000. Above 2^53 bytes digits are lost as well. `StartsAsConfigured` says by how much at most.
* `SetParam` accepts NaN for `decay_lambda`, which fails both comparisons of `lfu.go:111`, and a positive lambda below 2^-64 makes
  `uint64(1/decay)` a conversion out of range (`lfu.go:138`).
* `TuningAttempts` loads the attempts first, so a concurrent `RecordTuning` can make it return
  more accepted than attempted (`collector.go:173`).
* A frame rate of NaN, or one so small that its period exceeds `int64`, passes `Validate`
  (`validate.go:54`), and `time.NewTicker` may then panic. `StartsAsConfigured` states that these are the only ones.
* The snapshot of `Stats` can hold the occupancy another caller observed (`core.go:172-178`); `FreshOccupancy` bounds how old.
* `PayloadBytes` is documented as the sum of `len(Entry.Value)` (`memory.go:56`) and is the sum of the sizes callers gave to Put.
* With several callers events reach the bus in another order than their sequence numbers; `RunBracketed`
  shows the order for the one caller the demo has. Even there `TypeRunEnd` can carry a lower `Seq` than events before it: it is read before
  the event is published (`main.go:99`) and the generator goes on meanwhile. `types.go:86` calls `Seq` monotonic.

## 6. Not modelled, and the plan

Not modelled: the shared types (declarations); `WriteCSV`, `WriteJSON`, `String` and
`MarshalYAML` (formatting of one value); the samples of the Go runtime; the YAML decoder (external); the
feature flags, which nothing reads; `Register` and `UnregisterAll`, which run before
`main` and in tests; entry timestamps and `AccessCount`, on which neither store nor core branches (`LFU.Rebuild` is
checked for any counts).

All modules of section 2 and the proofs of section 4 are done: every safety property of the passing runs is proved, `WalksMatchLoops`
excepted. What would come next:

1. `Core` composed with a concrete policy instead of the contract.
2. Values and `AccessCount` in `Store`, for the rebuild of LFU from what the store really counted.
