-------------------------------- MODULE Demo --------------------------------
(***************************************************************************)
(* The demo program (cmd/adaptive-cache/main.go): run() loads the          *)
(* configuration, builds bus and cache, starts the generator and the       *)
(* drainer, and emits frames until its context ends.  The cache is what    *)
(* the generator shows of it, its sequence number, the requests recorded   *)
(* and whether anything is stored; Core has the rest.  The bus is the      *)
(* events it accepted and whether it is closed; Bus has the rest.          *)
(***************************************************************************)
EXTENDS Config

CONSTANTS
    Inputs,       \* [doc, flag]: the fields a configuration file sets, and the value
                  \* of --policy, Blank when it is not given
    Payload,      \* size of the objects the generator puts
    MaxSeq,       \* bound on the cache operations before the generator pauses
    MaxFrames     \* bound on the frames remembered

(* What the decoder makes of a file: fields it knows, of their types. *)
ASSUME InputsAssumption ==
    \A in \in Inputs :
        /\ DOMAIN in.doc \subseteq DOMAIN Default
        /\ "capacity" \in DOMAIN in.doc =>
              in.doc["capacity"] \in [number : BOOLEAN, tenths : Int, unit : STRING]
        /\ "rate" \in DOMAIN in.doc => in.doc["rate"] \in [nan : BOOLEAN, num : Int, den : Nat \ {0}]

VARIABLES
    doc, flag,    \* the file and the --policy flag
    cfg,          \* the configuration, once loaded
    policy,       \* the policy resolved
    pc, gen, drain, \* where main and its two goroutines are
    exit,         \* how run() ended
    done,         \* ctx.Done() is closed
    tick,         \* a tick waits in ticker.C
    closed,       \* the bus is closed
    log,          \* the events the bus accepted
    seq,          \* Core.seq
    total,        \* requests the collector has counted
    stored,       \* the cache holds an object
    opSeq,        \* sequence number of the generator's current operation
    hit,          \* the outcome of its Get
    seen,         \* what main has read for the frame or event it builds
    frames        \* the latest frames built

startVars == <<doc, flag, cfg, policy>>
cacheVars == <<seq, total, stored>>
genVars == <<gen, opSeq, hit>>
vars == <<startVars, cacheVars, genVars, pc, drain, exit, done, tick, closed, log, seen, frames>>

Event(type, n) == [type |-> type, seq |-> n]

(* Bus.Publish: a closed bus ignores the event. *)
Publish(e) == log' = IF closed THEN log ELSE Append(log, e)

NoConfig == [policy |-> PolicyNone]

Init ==
    /\ \E in \in Inputs : doc = in.doc /\ flag = in.flag
    /\ cfg = NoConfig /\ policy = PolicyNone
    /\ pc = "load" /\ gen = "off" /\ drain = "off" /\ exit = "none"
    /\ done = FALSE /\ tick = FALSE /\ closed = FALSE
    /\ log = << >> /\ frames = << >>
    /\ seq = 0 /\ total = 0 /\ stored = FALSE
    /\ opSeq = 0 /\ hit = FALSE /\ seen = 0

-----------------------------------------------------------------------------
(* run(), up to the loop *)

Fail ==
    /\ pc' = "exited" /\ exit' = "error"
    /\ UNCHANGED <<startVars, cacheVars, genVars, drain, done, tick, closed, log, seen, frames>>

(* The file cannot be read, is malformed or not valid. *)
LoadFails == pc = "load" /\ Fail

Load ==
    /\ pc = "load"
    /\ cfg' \in Parse(doc)
    /\ pc' = "policy"
    /\ UNCHANGED <<doc, flag, policy, cacheVars, genVars, drain, exit, done, tick, closed, log, seen, frames>>

(* The flag overrides the file, after the file was validated. *)
PolicyName == IF flag # Blank THEN flag ELSE cfg.policy

UnknownPolicy == pc = "policy" /\ PolicyName # PolicyNone /\ ~IsKnown(PolicyName) /\ Fail

ResolvePolicy ==
    /\ pc = "policy"
    /\ PolicyName = PolicyNone \/ IsKnown(PolicyName)
    /\ policy' = PolicyName
    /\ pc' = "start"
    /\ UNCHANGED <<doc, flag, cfg, cacheVars, genVars, drain, exit, done, tick, closed, log, seen, frames>>

(* The bus, its subscriber, the cache and the context are made, and        *)
(* TypeRunStart is the first event.                                        *)
Start ==
    /\ pc = "start"
    /\ Publish(Event("run_start", 0))
    /\ pc' = "spawn"
    /\ UNCHANGED <<startVars, cacheVars, genVars, drain, exit, done, tick, closed, seen, frames>>

Spawn ==
    /\ pc = "spawn"
    /\ gen' = "check" /\ drain' = "waiting"
    /\ pc' = "ticker"
    /\ UNCHANGED <<startVars, cacheVars, opSeq, hit, exit, done, tick, closed, log, seen, frames>>

(* time.NewTicker panics unless the interval is positive; the deferred     *)
(* calls still run.                                                        *)
NewTicker ==
    /\ pc = "ticker"
    /\ \E d \in FrameInterval(cfg.rate) :
          IF d > 0 THEN pc' = "select" /\ UNCHANGED exit ELSE pc' = "cancel" /\ exit' = "panic"
    /\ UNCHANGED <<startVars, cacheVars, genVars, drain, done, tick, closed, log, seen, frames>>

-----------------------------------------------------------------------------
(* The loop of run() and its end *)

Running == pc \notin {"load", "policy", "start", "exited"}

(* The deadline passes or a signal arrives. *)
ContextEnds ==
    /\ Running /\ ~done
    /\ done' = TRUE
    /\ UNCHANGED <<startVars, cacheVars, genVars, pc, drain, exit, tick, closed, log, seen, frames>>

(* The ticker never stops while the loop runs; ticker.C holds one tick and *)
(* drops the others.                                                       *)
Tick ==
    /\ pc \in {"select", "stats", "frame", "encode"} /\ ~tick
    /\ tick' = TRUE
    /\ UNCHANGED <<startVars, cacheVars, genVars, pc, drain, exit, done, closed, log, seen, frames>>

TakeTick ==
    /\ pc = "select" /\ tick
    /\ tick' = FALSE
    /\ pc' = "stats"
    /\ UNCHANGED <<startVars, cacheVars, genVars, drain, exit, done, closed, log, seen, frames>>

(* buildFrame: Stats first ... *)
FrameStats ==
    /\ pc = "stats"
    /\ seen' = total
    /\ pc' = "frame"
    /\ UNCHANGED <<startVars, cacheVars, genVars, drain, exit, done, tick, closed, log, frames>>

Latest(s) == IF Len(s) > MaxFrames THEN Tail(s) ELSE s

(* Mutant of FrameSeq: Seq is what Stats counted, the requests read later. *)
FrameSeqFromStats ==
    /\ pc = "frame"
    /\ frames' = Latest(Append(frames, [seq |-> seen, requests |-> total]))
    /\ pc' = "encode" /\ seen' = 0
    /\ UNCHANGED <<startVars, cacheVars, genVars, drain, exit, done, tick, closed, log>>

(* ... then Memory, and Seq for the frame itself. *)
FrameSeq ==
    /\ pc = "frame"
    /\ frames' = Latest(Append(frames, [seq |-> seq, requests |-> seen]))
    /\ pc' = "encode" /\ seen' = 0
    /\ UNCHANGED <<startVars, cacheVars, genVars, drain, exit, done, tick, closed, log>>

Encode ==
    /\ pc = "encode"
    /\ pc' = "select"
    /\ UNCHANGED <<startVars, cacheVars, genVars, drain, exit, done, tick, closed, log, seen, frames>>

(* Standard output is gone: run() returns without a TypeRunEnd. *)
EncodeFails ==
    /\ pc = "encode"
    /\ pc' = "cancel" /\ exit' = "error"
    /\ UNCHANGED <<startVars, cacheVars, genVars, drain, done, tick, closed, log, seen, frames>>

(* Mutant of TakeDone: a tick that waits is taken first. *)
TakeDoneIfIdle ==
    /\ pc = "select" /\ done /\ ~tick
    /\ seen' = seq
    /\ pc' = "end"
    /\ UNCHANGED <<startVars, cacheVars, genVars, drain, exit, done, tick, closed, log, frames>>

(* The context has ended: c.Seq() is read for the last event ... *)
TakeDone ==
    /\ pc = "select" /\ done
    /\ seen' = seq
    /\ pc' = "end"
    /\ UNCHANGED <<startVars, cacheVars, genVars, drain, exit, done, tick, closed, log, frames>>

(* Mutant of PublishEnd: the bus is closed before. *)
PublishEndClosed ==
    /\ pc = "end"
    /\ closed' = TRUE
    /\ pc' = "cancel" /\ exit' = "ok" /\ seen' = 0
    /\ UNCHANGED <<startVars, cacheVars, genVars, drain, done, tick, log, frames>>

(* ... and the event is published. *)
PublishEnd ==
    /\ pc = "end"
    /\ Publish(Event("run_end", seen))
    /\ pc' = "cancel" /\ exit' = "ok" /\ seen' = 0
    /\ UNCHANGED <<startVars, cacheVars, genVars, drain, done, tick, closed, frames>>

(* The deferred calls, last first: ticker.Stop, cancel, stop ... *)
Cancel ==
    /\ pc = "cancel"
    /\ done' = TRUE /\ tick' = FALSE
    /\ pc' = "close"
    /\ UNCHANGED <<startVars, cacheVars, genVars, drain, exit, closed, log, seen, frames>>

(* ... and bus.Close *)
Close ==
    /\ pc = "close"
    /\ closed' = TRUE
    /\ pc' = "return"
    /\ UNCHANGED <<startVars, cacheVars, genVars, drain, exit, done, tick, log, seen, frames>>

(* main returns and takes its goroutines with it. *)
Exit ==
    /\ pc = "return"
    /\ pc' = "exited"
    /\ UNCHANGED <<startVars, cacheVars, genVars, drain, exit, done, tick, closed, log, seen, frames>>

-----------------------------------------------------------------------------
(* generate *)

mainVars == <<startVars, pc, drain, exit, done, tick, closed, seen, frames>>

Generates(place) == pc # "exited" /\ gen = place

GenReturn ==
    /\ Generates("check") /\ done
    /\ gen' = "returned"
    /\ UNCHANGED <<mainVars, cacheVars, opSeq, hit, log>>

(* Mutant of GenRound: the context is not looked at. *)
GenRoundForEver ==
    /\ Generates("check") /\ seq < MaxSeq
    /\ gen' = "get"
    /\ UNCHANGED <<mainVars, cacheVars, opSeq, hit, log>>

(* The context is alive, so there is another round, even if it ends now. *)
GenRound ==
    /\ Generates("check") /\ ~done /\ seq < MaxSeq
    /\ gen' = "get"
    /\ UNCHANGED <<mainVars, cacheVars, opSeq, hit, log>>

(* Get draws its sequence number ... *)
GenGet ==
    /\ Generates("get")
    /\ seq' = seq + 1 /\ opSeq' = seq + 1
    /\ gen' = "lookup"
    /\ UNCHANGED <<mainVars, total, stored, hit, log>>

(* ... looks the key up and records the request ... *)
GenLookup ==
    /\ Generates("lookup")
    /\ hit' \in (IF stored THEN BOOLEAN ELSE {FALSE})
    /\ total' = total + 1
    /\ gen' = "publish"
    /\ UNCHANGED <<mainVars, seq, stored, opSeq, log>>

(* ... and publishes a sampled event.  A hit ends the round. *)
GenPublish ==
    /\ Generates("publish")
    /\ IF opSeq % cfg.sampleRate = 0 THEN Publish(Event(IF hit THEN "hit" ELSE "miss", opSeq)) ELSE UNCHANGED log
    /\ gen' = IF hit THEN "check" ELSE "put"
    /\ opSeq' = 0 /\ hit' = FALSE
    /\ UNCHANGED <<mainVars, cacheVars>>

GenPut ==
    /\ Generates("put")
    /\ seq' = seq + 1 /\ opSeq' = seq + 1
    /\ gen' = "insert"
    /\ UNCHANGED <<mainVars, total, stored, hit, log>>

(* Put needs room and the policy gives up a victim. *)
GenEvict ==
    /\ Generates("insert")
    /\ stored /\ policy # PolicyNone /\ Payload <= cfg.capacity
    /\ Publish(Event("eviction", opSeq))
    /\ gen' = "inserted"
    /\ UNCHANGED <<mainVars, cacheVars, opSeq, hit>>

(* The object is stored: there is room, or there is after the eviction.    *)
(* All objects have the same size, so one eviction is enough.              *)
GenInsert ==
    /\ Generates("insert") \/ Generates("inserted")
    /\ Payload <= cfg.capacity
    /\ stored' = TRUE
    /\ gen' = "check" /\ opSeq' = 0
    /\ UNCHANGED <<mainVars, seq, total, hit, log>>

(* Put returns an error, which generate ignores: the object can never fit, *)
(* or the cache is full and has no policy.                                 *)
GenRefused ==
    /\ Generates("insert")
    /\ Payload > cfg.capacity \/ (stored /\ policy = PolicyNone)
    /\ gen' = "check" /\ opSeq' = 0
    /\ UNCHANGED <<mainVars, cacheVars, hit, log>>

Generate ==
    \/ GenReturn \/ GenRound \/ GenGet \/ GenLookup \/ GenPublish
    \/ GenPut \/ GenEvict \/ GenInsert \/ GenRefused

(* drainEvents: no event of the types it subscribed to is ever published,  *)
(* so it waits for the end of the context or of its channel.               *)
Drain ==
    /\ pc # "exited" /\ drain = "waiting"
    /\ done \/ closed
    /\ drain' = "returned"
    /\ UNCHANGED <<startVars, cacheVars, genVars, pc, exit, done, tick, closed, log, seen, frames>>

-----------------------------------------------------------------------------
Main ==
    \/ LoadFails \/ Load \/ UnknownPolicy \/ ResolvePolicy \/ Start \/ Spawn \/ NewTicker
    \/ TakeTick \/ FrameStats \/ FrameSeq \/ Encode \/ EncodeFails
    \/ PublishEnd \/ Cancel \/ Close \/ Exit

Next == Main \/ TakeDone \/ ContextEnds \/ Tick \/ Generate \/ Drain

(* The deadline passes and main goes on: a write to standard output may    *)
(* fail but does not block for ever.  A select between a tick and the end  *)
(* of the context chooses at random, so the end is not passed over for     *)
(* ever.  Nothing is assumed of ticks: one may wait whenever main gets to  *)
(* the select, or none ever come.                                          *)
Spec ==
    /\ Init /\ [][Next]_vars
    /\ WF_vars(ContextEnds) /\ WF_vars(Main) /\ SF_vars(TakeDone)

-----------------------------------------------------------------------------
Positions(type) == {i \in DOMAIN log : log[i].type = type}

(* The tenths of a byte a size in the file stands for. *)
Written(text) ==
    LET power == CASE text.unit = Blank -> 1 [] text.unit = "B" -> 1
                   [] text.unit = "KB" -> Kilo [] text.unit = "MB" -> Kilo * Kilo
                   [] text.unit = "GB" -> Kilo * Kilo * Kilo
                   [] text.unit = "TB" -> Kilo * Kilo * Kilo * Kilo
                   [] text.unit = "KIB" -> Kibi [] text.unit = "MIB" -> Kibi * Kibi
                   [] text.unit = "GIB" -> Kibi * Kibi * Kibi
                   [] text.unit = "TIB" -> Kibi * Kibi * Kibi * Kibi
    IN  text.tenths * power

(* n bytes are w tenths of a byte cut to a whole number, after two         *)
(* roundings to a float64: w is off by at most three parts in 2^53.        *)
CutFrom(n, w) == 10 * n * Sig <= w * (Sig + 3) /\ w * (Sig - 3) < 10 * (n + 1) * Sig

(* A number without unit, or a whole one that a mantissa can hold. *)
ReadExactly(text) ==
    text.unit = Blank \/ (text.tenths % 10 = 0 /\ Written(text) < 10 * Sig)

(* StartsAsConfigured: a run that gets as far as its first event has a     *)
(* known policy, the one of the flag if there is one, and the capacity     *)
(* written in the file: exactly, if that is a whole number below 2^53, and *)
(* else as the truncated product of two floats (the largest one, on some   *)
(* machines, if that is beyond int64).  It fails to start its ticker only  *)
(* for a rate that is not a number or whose period rounds to something     *)
(* beyond int64: these pass Validate (config.go:52-56, 192-197,            *)
(* validate.go:54, main.go:49-64, 93).                                     *)
StartsAsConfigured ==
    LET raw == Decoded(doc)
        w   == Written(raw.capacity)
    IN  /\ log # << >> =>
              /\ policy = (IF flag # Blank THEN flag ELSE raw.policy)
              /\ policy \in Registered \cup {PolicyNone}
              /\ cfg.capacity > 0
              /\ ReadExactly(raw.capacity) => w = 10 * cfg.capacity
              /\ (cfg.capacity = MaxInt /\ w >= 10 * (MaxInt + 1)) \/ CutFrom(cfg.capacity, w)
        /\ exit = "panic" =>
              raw.rate.nan \/ Second * raw.rate.den * (Sig + 1) >= (MaxInt + 1) * Sig * raw.rate.num

(* RunBracketed: the log begins with the only TypeRunStart, has at most    *)
(* one TypeRunEnd, and has it before the bus closes exactly when run()     *)
(* returns nil; the generator's events are in the order of their sequence  *)
(* numbers (main.go:67, 87, 99; core.go:110, 251).                         *)
RunBracketed ==
    /\ log # << >> => Positions("run_start") = {1}
    /\ \A i, j \in Positions("run_end") : i = j
    /\ pc = "exited" => (exit = "ok" <=> Positions("run_end") # {})
    /\ \A i, j \in DOMAIN log \ Positions("run_end") : i < j => log[i].seq <= log[j].seq

(* StragglersBounded: what the generator publishes after TypeRunEnd is the *)
(* rest of one round, a Get and a Put that began with the context alive,   *)
(* so TypeRunEnd's Seq is at most two behind (main.go:98-99, 160-171).     *)
StragglersBounded ==
    \A i \in Positions("run_end"), j \in DOMAIN log :
        j > i => j <= i + 2 /\ log[j].seq <= log[i].seq + 2

(* FramesConsistent: a frame never reports more requests than its Seq, and *)
(* neither goes back from a frame to the next or to TypeRunEnd: Stats is   *)
(* read before Seq, and Get draws its number before it is counted          *)
(* (main.go:113, 130; core.go:81, 97).                                     *)
FramesConsistent ==
    /\ \A i \in DOMAIN frames : frames[i].requests <= frames[i].seq
    /\ \A i, j \in DOMAIN frames :
          i < j => frames[i].seq <= frames[j].seq /\ frames[i].requests <= frames[j].requests
    /\ \A i \in DOMAIN frames, k \in Positions("run_end") : frames[i].seq <= log[k].seq

(* RunReturns: the program ends, whatever the generator and the drainer    *)
(* do, also when a tick is waiting each time main comes back to the select *)
(* (main.go:97-107).                                                       *)
RunReturns == <>(pc = "exited")
=============================================================================
