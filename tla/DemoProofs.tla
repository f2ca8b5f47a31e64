----------------------------- MODULE DemoProofs -----------------------------
(* Proofs about the demo program: its log is bracketed, its generator      *)
(* stops within one round, its frames are consistent and it starts with    *)
(* what was configured, for any input, any payload and any number of       *)
(* operations and frames.                                                  *)
EXTENDS Demo, BasicLemmas

Records == [type : {"run_start", "run_end", "hit", "miss", "eviction"}, seq : Nat]
FrameRecords == [seq : Nat, requests : Nat]

Loop == {"select", "stats", "frame", "encode", "end"}

TypeInv ==
    /\ pc \in {"load", "policy", "start", "spawn", "ticker", "cancel", "close", "return", "exited"} \cup Loop
    /\ gen \in {"off", "check", "get", "lookup", "publish", "put", "insert", "inserted", "returned"}
    /\ exit \in {"none", "error", "panic", "ok"}
    /\ done \in BOOLEAN /\ closed \in BOOLEAN /\ hit \in BOOLEAN
    /\ seq \in Nat /\ total \in Nat /\ opSeq \in Nat /\ seen \in Nat
    /\ log \in Seq(Records) /\ frames \in Seq(FrameRecords)

(* Where main is: nothing is published, and no goroutine runs, before the  *)
(* first event; the bus is open until main has returned.                   *)
PhaseInv ==
    /\ pc \in {"load", "policy", "start"} => Len(log) = 0
    /\ pc \in {"load", "policy", "start", "spawn"} => gen = "off"
    /\ pc \in {"load", "policy", "start", "spawn", "ticker"} \cup Loop => exit = "none"
    /\ Len(log) = 0 => pc \in {"load", "policy", "start", "exited"} /\ gen = "off"
    /\ closed => pc \in {"return", "exited"}
    /\ pc = "end" \/ exit = "ok" => done

(* What the generator has drawn and counted: the operation under way has   *)
(* the newest number, and a Get is counted after it drew its own.          *)
CountInv ==
    /\ gen \in {"lookup", "publish", "insert", "inserted"} => opSeq = seq
    /\ total <= seq
    /\ gen = "lookup" => total < seq

LogInv ==
    /\ \A i \in 1..Len(log) : log[i].seq <= seq
    /\ \A i \in 1..Len(log) : log[i].type = "run_start" <=> i = 1
    /\ \A i, j \in 1..Len(log) : log[i].type = "run_end" /\ log[j].type = "run_end" => i = j
    /\ exit = "ok" <=> \E i \in 1..Len(log) : log[i].type = "run_end"
    /\ \A i, j \in 1..Len(log) :
          log[i].type # "run_end" /\ log[j].type # "run_end" /\ i < j => log[i].seq <= log[j].seq

(* The numbers the generator may still draw, and the events it may still   *)
(* publish, once the context has ended.                                    *)
DrawsLeft == IF gen = "get" THEN 2 ELSE IF gen \in {"lookup", "publish", "put"} THEN 1 ELSE 0
EventsLeft == IF gen \in {"get", "lookup", "publish"} THEN 2 ELSE IF gen \in {"put", "insert"} THEN 1 ELSE 0

EndInv ==
    /\ pc = "end" => seen <= seq /\ seq + DrawsLeft <= seen + 2
    /\ \A i \in 1..Len(log) : log[i].type = "run_end" =>
          /\ seq + DrawsLeft <= log[i].seq + 2
          /\ Len(log) + EventsLeft <= i + 2

FrameInv ==
    /\ \A i \in 1..Len(frames) :
          /\ frames[i].requests <= frames[i].seq
          /\ frames[i].seq <= seq
          /\ frames[i].requests <= total
          /\ pc = "frame" => frames[i].requests <= seen
          /\ pc = "end" => frames[i].seq <= seen
          /\ \A j \in 1..Len(log) : log[j].type = "run_end" => frames[i].seq <= log[j].seq
    /\ \A i, j \in 1..Len(frames) :
          i < j => frames[i].seq <= frames[j].seq /\ frames[i].requests <= frames[j].requests
    /\ pc = "frame" => seen <= total

DemoInv == TypeInv /\ PhaseInv /\ CountInv /\ LogInv /\ EndInv /\ FrameInv
-----------------------------------------------------------------------------
(* Publishing leaves the log alone or adds the event at its end. *)
LEMMA Published ==
    ASSUME TypeInv, NEW e \in Records, Publish(e)
    PROVE  /\ log' \in Seq(Records)
           /\ \/ closed /\ log' = log
              \/ /\ ~closed /\ Len(log') = Len(log) + 1
                 /\ log'[Len(log) + 1] = e
                 /\ \A i \in 1..Len(log) : log'[i] = log[i]
<1>1. log \in Seq(Records) /\ closed \in BOOLEAN
  BY DEF TypeInv
<1>2. CASE closed
  BY <1>1, <1>2 DEF Publish
<1>3. CASE ~closed
  BY <1>1, <1>3, AppendProperties DEF Publish
<1> QED
  BY <1>1, <1>2, <1>3

(* The numbers in the log and in the frames. *)
LEMMA EntryTypes ==
    ASSUME TypeInv
    PROVE  /\ Len(log) \in Nat /\ Len(frames) \in Nat
           /\ \A i \in 1..Len(log) : log[i] \in Records /\ log[i].seq \in Nat
           /\ \A i \in 1..Len(frames) :
                 frames[i] \in FrameRecords /\ frames[i].seq \in Nat /\ frames[i].requests \in Nat
<1>1. log \in Seq(Records) /\ frames \in Seq(FrameRecords)
  BY DEF TypeInv
<1>2. /\ \A i \in 1..Len(log) : log[i] \in Records
      /\ \A i \in 1..Len(frames) : frames[i] \in FrameRecords
  BY <1>1, ElementOfSeq
<1> QED
  BY <1>1, <1>2, LenProperties DEF Records, FrameRecords

(* run() up to the loop, but for its first event. *)
LEMMA StartingSteps ==
    DemoInv /\ (LoadFails \/ Load \/ UnknownPolicy \/ ResolvePolicy \/ Spawn \/ NewTicker) => DemoInv'
<1> USE DEF DemoInv, TypeInv, PhaseInv, CountInv, LogInv, EndInv, DrawsLeft, EventsLeft, FrameInv, Loop,
            startVars, cacheVars, genVars
<1>1. DemoInv /\ LoadFails => DemoInv'
  BY DEF LoadFails, Fail
<1>2. DemoInv /\ Load => DemoInv'
  BY DEF Load
<1>3. DemoInv /\ UnknownPolicy => DemoInv'
  BY DEF UnknownPolicy, Fail
<1>4. DemoInv /\ ResolvePolicy => DemoInv'
  BY DEF ResolvePolicy
<1>5. ASSUME DemoInv, Spawn PROVE DemoInv'
  <2>1. TypeInv' /\ PhaseInv' /\ CountInv'
    BY <1>5 DEF Spawn
  <2>2. LogInv' /\ EndInv'
    BY <1>5 DEF Spawn
  <2>3. FrameInv'
    BY <1>5 DEF Spawn
  <2> QED
    BY <2>1, <2>2, <2>3
<1>6. DemoInv /\ NewTicker => DemoInv'
  BY DEF NewTicker
<1> QED
  BY <1>1, <1>2, <1>3, <1>4, <1>5, <1>6

(* The loop of run(). *)
LEMMA LoopSteps ==
    DemoInv /\ (TakeTick \/ FrameStats \/ Encode \/ EncodeFails \/ TakeDone \/ ContextEnds \/ Tick) => DemoInv'
<1> USE DEF DemoInv, TypeInv, PhaseInv, CountInv, LogInv, EndInv, DrawsLeft, EventsLeft, FrameInv, Loop,
            startVars, cacheVars, genVars
<1>1. DemoInv /\ TakeTick => DemoInv'
  BY DEF TakeTick
<1>2. DemoInv /\ FrameStats => DemoInv'
  BY DEF FrameStats
<1>3. DemoInv /\ Encode => DemoInv'
  BY DEF Encode
<1>4. DemoInv /\ EncodeFails => DemoInv'
  BY DEF EncodeFails
<1>5. DemoInv /\ TakeDone => DemoInv'
  BY DEF TakeDone
<1>6. DemoInv /\ ContextEnds => DemoInv'
  BY DEF ContextEnds, Running
<1>7. DemoInv /\ Tick => DemoInv'
  BY DEF Tick
<1> QED
  BY <1>1, <1>2, <1>3, <1>4, <1>5, <1>6, <1>7

(* The deferred calls, and the drainer. *)
LEMMA EndingSteps ==
    DemoInv /\ (Cancel \/ Close \/ Exit \/ Drain) => DemoInv'
<1> USE DEF DemoInv, TypeInv, PhaseInv, CountInv, LogInv, EndInv, DrawsLeft, EventsLeft, FrameInv, Loop,
            startVars, cacheVars, genVars
<1>1. DemoInv /\ Cancel => DemoInv'
  BY SMTT(30) DEF Cancel
<1>2. DemoInv /\ Close => DemoInv'
  BY DEF Close
<1>3. DemoInv /\ Exit => DemoInv'
  BY DEF Exit
<1>4. DemoInv /\ Drain => DemoInv'
  BY DEF Drain
<1> QED
  BY <1>1, <1>2, <1>3, <1>4

(* The generator, where it draws no number and publishes nothing. *)
LEMMA QuietGeneratorSteps ==
    DemoInv /\ (GenReturn \/ GenRound \/ GenInsert \/ GenRefused) => DemoInv'
<1> USE DEF DemoInv, TypeInv, PhaseInv, CountInv, LogInv, EndInv, DrawsLeft, EventsLeft, FrameInv, Loop,
            startVars, cacheVars, genVars, mainVars, Generates
<1>1. DemoInv /\ GenReturn => DemoInv'
  BY DEF GenReturn
<1>2. DemoInv /\ GenRound => DemoInv'
  BY DEF GenRound
<1>3. DemoInv /\ GenInsert => DemoInv'
  BY DEF GenInsert
<1>4. DemoInv /\ GenRefused => DemoInv'
  BY DEF GenRefused
<1> QED
  BY <1>1, <1>2, <1>3, <1>4

(* The generator, where it draws a number or counts a request. *)
LEMMA CountingSteps ==
    DemoInv /\ (GenGet \/ GenLookup \/ GenPut) => DemoInv'
<1> USE DEF DemoInv, CountInv, startVars, cacheVars, genVars, mainVars, Generates
<1>1. ASSUME DemoInv, GenGet \/ GenPut PROVE DemoInv'
  <2>0. seq + 1 \in Nat /\ total \in Nat /\ UNCHANGED <<log, frames, total>>
    BY <1>1 DEF GenGet, GenPut, TypeInv
  <2>1. TypeInv'
    BY <1>1, <2>0 DEF GenGet, GenPut, TypeInv
  <2>2. PhaseInv' /\ CountInv'
    BY <1>1 DEF GenGet, GenPut, TypeInv, PhaseInv
  <2>3. LogInv' /\ EndInv'
    BY SMTT(30), <1>1, <2>0, EntryTypes DEF GenGet, GenPut, TypeInv, LogInv, EndInv, DrawsLeft, EventsLeft
  <2>4. FrameInv'
    BY <1>1, <2>0, EntryTypes DEF GenGet, GenPut, TypeInv, FrameInv
  <2> QED
    BY <2>1, <2>2, <2>3, <2>4
<1>2. ASSUME DemoInv, GenLookup PROVE DemoInv'
  <2>0. total + 1 \in Nat /\ UNCHANGED <<log, frames, seq>>
    BY <1>2 DEF GenLookup, TypeInv
  <2>5. hit' \in BOOLEAN
    BY <1>2, Zenon DEF GenLookup
  <2>1. TypeInv'
    BY <1>2, <2>0, <2>5 DEF GenLookup, TypeInv
  <2>2. PhaseInv' /\ CountInv'
    BY <1>2 DEF GenLookup, TypeInv, PhaseInv
  <2>3. LogInv' /\ EndInv'
    BY <1>2, <2>0 DEF GenLookup, LogInv, EndInv, DrawsLeft, EventsLeft
  <2>4. FrameInv'
    BY <1>2, <2>0, EntryTypes DEF GenLookup, TypeInv, FrameInv
  <2> QED
    BY <2>1, <2>2, <2>3, <2>4
<1> QED
  BY <1>1, <1>2

(* In r, f comes last and the rest are members of s in their order. *)
OldAndLast(r, s, f) ==
    \A i \in 1..Len(r) :
        \/ i = Len(r) /\ r[i] = f
        \/ \E j \in 1..Len(s) :
              r[i] = s[j] /\ \A k \in 1..Len(r) : k > i =>
                 r[k] = f \/ \E l \in 1..Len(s) : j < l /\ r[k] = s[l]

(* The frames remembered after another one. *)
LEMMA LatestFrames ==
    ASSUME NEW S, NEW s \in Seq(S), NEW f \in S, NEW r, r = Latest(Append(s, f))
    PROVE  r \in Seq(S) /\ OldAndLast(r, s, f)
<1> DEFINE a == Append(s, f)
           o == IF Len(a) > MaxFrames THEN 1 ELSE 0
<1>1. /\ a \in Seq(S) /\ Len(a) = Len(s) + 1 /\ Len(s) \in Nat /\ a[Len(s) + 1] = f
      /\ \A i \in 1..Len(s) : a[i] = s[i]
  BY AppendProperties, LenProperties
<1>2. a # << >> /\ r = Latest(a)
  BY <1>1, EmptySeq
<1> HIDE DEF a
<1>3. /\ Tail(a) \in Seq(S) /\ Len(Tail(a)) = Len(a) - 1
      /\ \A i \in 1..Len(Tail(a)) : Tail(a)[i] = a[i + 1]
  BY <1>1, <1>2, HeadTailProperties
<1>4. /\ o \in {0, 1} /\ r \in Seq(S) /\ Len(r) = Len(s) + 1 - o
      /\ \A i \in 1..Len(r) : r[i] = a[i + o]
  <2>1. CASE Len(a) > MaxFrames
    BY <1>1, <1>2, <1>3, <2>1 DEF Latest
  <2>2. CASE ~(Len(a) > MaxFrames)
    BY <1>1, <1>2, <2>2 DEF Latest
  <2> QED
    BY <2>1, <2>2
<1> HIDE DEF o
<1>5. \A i \in 1..Len(r) : i = Len(r) => r[i] = f
  BY <1>1, <1>4
<1>6. \A i \in 1..Len(r) : i # Len(r) => i + o \in 1..Len(s) /\ r[i] = s[i + o]
  BY <1>1, <1>4
<1>7. ASSUME NEW i \in 1..Len(r), i # Len(r)
      PROVE  \A k \in 1..Len(r) : k > i => r[k] = f \/ \E l \in 1..Len(s) : i + o < l /\ r[k] = s[l]
  <2> SUFFICES ASSUME NEW k \in 1..Len(r), k > i
               PROVE  r[k] = f \/ \E l \in 1..Len(s) : i + o < l /\ r[k] = s[l]
    OBVIOUS
  <2>1. k # Len(r) => k + o \in 1..Len(s) /\ i + o < k + o /\ r[k] = s[k + o]
    BY <1>4, <1>6
  <2> QED
    BY <1>5, <2>1
<1>8. r \in Seq(S)
  BY <1>4
<1> QED
  BY <1>5, <1>6, <1>7, <1>8 DEF OldAndLast

(* A frame's number is read after its requests, so it is the larger, and   *)
(* both are at least those of the frames before.                           *)
LEMMA FrameSeqStep ==
    ASSUME DemoInv, FrameSeq
    PROVE  DemoInv'
<1> USE DEF DemoInv, startVars, cacheVars, genVars
<1> DEFINE f == [seq |-> seq, requests |-> seen]
<1>1. f \in FrameRecords
  BY DEF TypeInv, FrameRecords
<1>2. frames' \in Seq(FrameRecords) /\ OldAndLast(frames', frames, f)
  <2>1. frames \in Seq(FrameRecords) /\ frames' = Latest(Append(frames, f))
    BY DEF FrameSeq, TypeInv
  <2> HIDE DEF f
  <2> QED
    BY <1>1, <2>1, LatestFrames
<1>6. f.seq = seq /\ f.requests = seen
  OBVIOUS
<1> HIDE DEF f
<1>3. TypeInv' /\ PhaseInv' /\ CountInv' /\ LogInv' /\ EndInv'
  BY <1>2 DEF FrameSeq, TypeInv, PhaseInv, CountInv, LogInv, EndInv, DrawsLeft, EventsLeft, Loop
<1>4. exit = "none" /\ \A j \in 1..Len(log) : log[j].type # "run_end"
  BY DEF FrameSeq, PhaseInv, LogInv, Loop
<1>7. /\ pc = "frame" /\ pc' = "encode" /\ UNCHANGED <<seq, total, log>>
      /\ seen <= total /\ total <= seq /\ seq \in Nat /\ total \in Nat /\ seen \in Nat
  BY DEF FrameSeq, TypeInv, CountInv, FrameInv
<1>8. \A i \in 1..Len(frames) :
         /\ frames[i].seq \in Nat /\ frames[i].requests \in Nat
         /\ frames[i].requests <= frames[i].seq /\ frames[i].seq <= seq /\ frames[i].requests <= total
         /\ frames[i].requests <= seen
  BY <1>7, EntryTypes DEF FrameInv
<1>9. \A i, j \in 1..Len(frames) :
         i < j => frames[i].seq <= frames[j].seq /\ frames[i].requests <= frames[j].requests
  BY DEF FrameInv
<1>5. FrameInv'
  <2>1. ASSUME NEW i \in 1..Len(frames')
        PROVE  frames'[i].requests <= frames'[i].seq /\ frames'[i].seq <= seq /\ frames'[i].requests <= total
    <3>1. CASE frames'[i] = f
      BY <1>6, <1>7, <3>1
    <3>2. CASE \E j \in 1..Len(frames) : frames'[i] = frames[j]
      BY <1>8, <3>2
    <3> QED
      BY <1>2, <3>1, <3>2 DEF OldAndLast
  <2>2. ASSUME NEW i \in 1..Len(frames'), NEW k \in 1..Len(frames'), i < k
        PROVE  frames'[i].seq <= frames'[k].seq /\ frames'[i].requests <= frames'[k].requests
    <3>1. Len(frames') \in Nat /\ i \in Int /\ k \in Int
      BY <1>2, LenProperties
    <3>2. PICK j \in 1..Len(frames) :
            frames'[i] = frames[j] /\ (frames'[k] = f \/ \E l \in 1..Len(frames) : j < l /\ frames'[k] = frames[l])
      BY <1>2, <2>2, <3>1, SMTT(30) DEF OldAndLast
    <3> QED
      BY <1>6, <1>7, <1>8, <1>9, <3>2
  <2> QED
    BY <1>4, <1>7, <2>1, <2>2 DEF FrameInv
<1> QED
  BY <1>3, <1>5

(* The first event: the log is empty and the bus open. *)
LEMMA StartStep ==
    ASSUME DemoInv, Start
    PROVE  DemoInv'
<1> USE DEF DemoInv, startVars, cacheVars, genVars
<1>1. /\ Event("run_start", 0) \in Records
      /\ Event("run_start", 0).type = "run_start" /\ Event("run_start", 0).seq = 0
  BY DEF Event, Records
<1>2. ~closed /\ Len(log) = 0 /\ exit = "none" /\ gen = "off" /\ Publish(Event("run_start", 0))
  BY DEF Start, PhaseInv
<1>3. /\ log' \in Seq(Records) /\ Len(log') = 1
      /\ log'[1].type = "run_start" /\ log'[1].seq = 0
  BY <1>1, <1>2, Published
<1>4. TypeInv' /\ PhaseInv' /\ CountInv'
  BY <1>2, <1>3 DEF Start, TypeInv, PhaseInv, CountInv, Loop
<1>5. LogInv' /\ EndInv' /\ FrameInv'
  BY <1>2, <1>3 DEF Start, TypeInv, LogInv, EndInv, DrawsLeft, EventsLeft, FrameInv
<1> QED
  BY <1>4, <1>5

(* The last event of run(): its number was read when the context had       *)
(* ended, and the generator can draw at most two more after that.          *)
LEMMA PublishEndStep ==
    ASSUME DemoInv, PublishEnd
    PROVE  DemoInv'
<1> USE DEF DemoInv, startVars, cacheVars, genVars
<1>1. /\ Event("run_end", seen) \in Records
      /\ Event("run_end", seen).type = "run_end" /\ Event("run_end", seen).seq = seen
  BY DEF Event, Records, TypeInv
<1>2. ~closed /\ exit = "none" /\ done /\ Len(log) # 0 /\ Publish(Event("run_end", seen))
  BY DEF PublishEnd, PhaseInv, Loop
<1>3. /\ log' \in Seq(Records) /\ Len(log') = Len(log) + 1
      /\ log'[Len(log) + 1].type = "run_end" /\ log'[Len(log) + 1].seq = seen
      /\ \A i \in 1..Len(log) : log'[i] = log[i]
  BY <1>1, <1>2, Published
<1>4. \A i \in 1..Len(log) : log[i].type # "run_end"
  BY <1>2 DEF LogInv
<1>5. TypeInv' /\ PhaseInv' /\ CountInv'
  BY <1>2, <1>3, EntryTypes DEF PublishEnd, TypeInv, PhaseInv, CountInv, Loop
<1>6. LogInv'
  <2>1. Len(log) \in Nat /\ seen <= seq /\ seq' = seq /\ exit' = "ok"
    BY EntryTypes DEF PublishEnd, EndInv
  <2>2. \A i \in 1..Len(log') : i \in 1..Len(log) \/ i = Len(log) + 1
    BY <1>3, <2>1
  <2> QED
    BY <1>2, <1>3, <1>4, <2>1, <2>2 DEF LogInv
<1>7. EndInv'
  BY SMTT(30), <1>3, <1>4, EntryTypes DEF PublishEnd, TypeInv, EndInv, DrawsLeft, EventsLeft
<1>8. FrameInv'
  <2>1. \A j \in 1..Len(log') : log'[j].type = "run_end" => log'[j].seq = seen
    BY <1>3, <1>4, EntryTypes
  <2> QED
    BY <2>1 DEF PublishEnd, FrameInv
<1> QED
  BY <1>5, <1>6, <1>7, <1>8

(* An event of the generator carries the newest number and uses up one of  *)
(* the events left to it.                                                  *)
LEMMA PublishingSteps ==
    DemoInv /\ (GenPublish \/ GenEvict) => DemoInv'
<1> USE DEF DemoInv
<1>0. SUFFICES ASSUME DemoInv, GenPublish \/ GenEvict PROVE DemoInv'
  OBVIOUS
<1>1. /\ gen \in {"publish", "insert"} /\ UNCHANGED <<pc, exit, done, closed, seq, total, seen, frames>>
      /\ gen = "publish" => gen' \in {"check", "put"}
      /\ gen = "insert" => gen' = "inserted" /\ UNCHANGED opSeq
  BY <1>0 DEF GenPublish, GenEvict, startVars, cacheVars, genVars, mainVars, Generates
<1>2. \/ UNCHANGED log
      \/ \E t \in {"hit", "miss", "eviction"} : Publish(Event(t, seq))
  BY <1>0, <1>1 DEF GenPublish, GenEvict, CountInv, Generates
<1>3. \/ UNCHANGED log
      \/ /\ log' \in Seq(Records) /\ Len(log') = Len(log) + 1
         /\ log'[Len(log) + 1].type \in {"hit", "miss", "eviction"} /\ log'[Len(log) + 1].seq = seq
         /\ \A i \in 1..Len(log) : log'[i] = log[i]
  <2>1. ASSUME NEW t \in {"hit", "miss", "eviction"}, Publish(Event(t, seq))
        PROVE  \/ UNCHANGED log
               \/ /\ log' \in Seq(Records) /\ Len(log') = Len(log) + 1
                  /\ log'[Len(log) + 1].type \in {"hit", "miss", "eviction"} /\ log'[Len(log) + 1].seq = seq
                  /\ \A i \in 1..Len(log) : log'[i] = log[i]
    <3>1. Event(t, seq) \in Records /\ Event(t, seq).type = t /\ Event(t, seq).seq = seq
      BY <1>0 DEF Event, Records, TypeInv
    <3> QED
      BY <1>0, <2>1, <3>1, Published
  <2> QED
    BY <1>2, <2>1
<1>7. hit' \in BOOLEAN /\ opSeq' \in Nat
  <2>1. CASE GenPublish
    BY <2>1 DEF GenPublish
  <2>2. CASE GenEvict
    BY <1>0, <2>2 DEF TypeInv, GenEvict
  <2> QED
    BY <1>0, <2>1, <2>2
<1>4. Len(log) # 0
  BY <1>0, <1>1 DEF PhaseInv
<1>5. CASE UNCHANGED log
  <2>1. TypeInv'
    BY <1>0, <1>1, <1>5, <1>7 DEF TypeInv
  <2>3. PhaseInv'
    BY <1>0, <1>1, <1>5 DEF PhaseInv
  <2>4. CountInv'
    BY <1>0, <1>1, <1>5 DEF CountInv
  <2>2. LogInv' /\ EndInv' /\ FrameInv'
    BY SMTT(30), <1>0, <1>1, <1>5, EntryTypes DEF TypeInv, LogInv, EndInv, DrawsLeft, EventsLeft, FrameInv
  <2> QED
    BY <2>1, <2>2, <2>3, <2>4
<1>6. CASE ~UNCHANGED log
  <2>1. /\ log' \in Seq(Records) /\ Len(log') = Len(log) + 1 /\ Len(log) \in Nat
        /\ log'[Len(log) + 1].type \in {"hit", "miss", "eviction"} /\ log'[Len(log) + 1].seq = seq
        /\ \A i \in 1..Len(log) : log'[i] = log[i]
    BY <1>0, <1>3, <1>6, EntryTypes
  <2>2. \A i \in 1..Len(log') : i \in 1..Len(log) \/ i = Len(log) + 1
    BY <2>1
  <2>3. TypeInv'
    BY <1>0, <1>1, <1>7, <2>1 DEF TypeInv
  <2>7. PhaseInv'
    BY <1>0, <1>1, <1>4, <2>1 DEF PhaseInv
  <2>8. CountInv'
    BY <1>0, <1>1 DEF CountInv
  <2>4. LogInv'
    <3>1. \A i \in 1..Len(log') : log'[i].seq <= seq
      BY <1>0, <2>1, <2>2 DEF TypeInv, LogInv
    <3>2. \A i \in 1..Len(log') : log'[i].type = "run_end" => i \in 1..Len(log)
      BY <2>1, <2>2
    <3>3. \A i \in 1..Len(log') : log'[i].type = "run_start" <=> i = 1
      BY <1>0, <1>4, <2>1, <2>2 DEF LogInv
    <3>4. exit = "ok" <=> \E i \in 1..Len(log') : log'[i].type = "run_end"
      BY <1>0, <2>1, <3>2 DEF LogInv
    <3>5. ASSUME NEW i \in 1..Len(log'), NEW j \in 1..Len(log'), i < j,
                 log'[i].type # "run_end", log'[j].type # "run_end"
          PROVE  log'[i].seq <= log'[j].seq
      <4>1. i \in 1..Len(log)
        BY <2>1, <3>5
      <4> QED
        BY <1>0, <2>1, <2>2, <3>5, <4>1 DEF LogInv
    <3> QED
      BY <1>0, <1>1, <2>1, <3>1, <3>2, <3>3, <3>4, <3>5 DEF LogInv
  <2>5. EndInv'
    <3>2. \A i \in 1..Len(log') : log'[i].type = "run_end" => i \in 1..Len(log) /\ log[i].type = "run_end"
      BY <2>1, <2>2
    <3>4. pc = "end" => seen <= seq /\ seq + DrawsLeft' <= seen + 2
      BY <1>0, <1>1 DEF TypeInv, EndInv, DrawsLeft
    <3>5. ASSUME NEW i \in 1..Len(log'), log'[i].type = "run_end"
          PROVE  seq + DrawsLeft' <= log'[i].seq + 2 /\ Len(log') + EventsLeft' <= i + 2
      <4>1. i \in 1..Len(log) /\ log'[i] = log[i] /\ log[i].seq \in Nat
        BY <1>0, <2>1, <3>2, <3>5, EntryTypes
      <4>2. seq + DrawsLeft <= log[i].seq + 2 /\ Len(log) + EventsLeft <= i + 2
        BY <1>0, <3>5, <4>1 DEF EndInv
      <4> QED
        BY <1>0, <1>1, <2>1, <4>1, <4>2 DEF TypeInv, DrawsLeft, EventsLeft
    <3> QED
      BY <1>1, <3>4, <3>5 DEF EndInv
  <2>6. FrameInv'
    BY <1>0, <1>1, <2>1, <2>2 DEF FrameInv
  <2> QED
    BY <2>3, <2>4, <2>5, <2>6, <2>7, <2>8
<1> QED
  BY <1>5, <1>6

LEMMA DemoInitial == Init => DemoInv
<1> SUFFICES ASSUME Init PROVE DemoInv
  OBVIOUS
<1>1. log \in Seq(Records) /\ frames \in Seq(FrameRecords) /\ Len(log) = 0 /\ Len(frames) = 0
  BY EmptySeq DEF Init
<1>2. TypeInv
  BY <1>1 DEF Init, TypeInv
<1>4. PhaseInv /\ CountInv
  BY <1>1 DEF Init, PhaseInv, CountInv
<1>3. LogInv /\ EndInv /\ FrameInv
  BY <1>1 DEF Init, LogInv, EndInv, FrameInv
<1> QED
  BY <1>2, <1>3, <1>4 DEF DemoInv

LEMMA DemoInductive == DemoInv /\ [Next]_vars => DemoInv'
<1>1. DemoInv /\ UNCHANGED vars => DemoInv'
  BY DEF vars, startVars, cacheVars, genVars, DemoInv, TypeInv, PhaseInv, CountInv, LogInv, EndInv,
         DrawsLeft, EventsLeft, FrameInv
<1>2. DemoInv /\ (Main \/ TakeDone \/ ContextEnds \/ Tick \/ Drain) => DemoInv'
  BY StartingSteps, LoopSteps, EndingSteps, StartStep, FrameSeqStep, PublishEndStep DEF Main
<1>3. DemoInv /\ Generate => DemoInv'
  BY QuietGeneratorSteps, CountingSteps, PublishingSteps DEF Generate
<1> QED
  BY <1>1, <1>2, <1>3 DEF Next

(* The invariant that carries the results below. *)
THEOREM DemoInvariant == Spec => []DemoInv
BY DemoInitial, DemoInductive, PTL DEF Spec

(* RunBracketed for every configuration and any number of operations: the  *)
(* log begins with the only TypeRunStart and has at most one TypeRunEnd,   *)
(* exactly when run() returned nil.                                        *)
THEOREM DemoRunBracketed == Spec => []RunBracketed
<1>1. ASSUME DemoInv PROVE RunBracketed
  <2>1. DOMAIN log = 1..Len(log) /\ Len(log) \in Nat /\ (log # << >> => Len(log) # 0)
    BY <1>1, LenProperties, EmptySeq DEF DemoInv, TypeInv
  <2>2. log # << >> => Positions("run_start") = {1}
    BY <1>1, <2>1 DEF DemoInv, LogInv, Positions
  <2> QED
    BY <1>1, <2>1, <2>2 DEF DemoInv, LogInv, RunBracketed, Positions
<1> QED
  BY <1>1, DemoInvariant, PTL

(* StragglersBounded for every configuration: at most two events follow    *)
(* TypeRunEnd, and its Seq is at most two behind.                          *)
THEOREM DemoStragglersBounded == Spec => []StragglersBounded
<1>1. DemoInv => StragglersBounded
  BY EntryTypes DEF DemoInv, TypeInv, LogInv, EndInv, DrawsLeft, EventsLeft, StragglersBounded, Positions
<1> QED
  BY <1>1, DemoInvariant, PTL

(* FramesConsistent for every configuration and any number of frames. *)
THEOREM DemoFramesConsistent == Spec => []FramesConsistent
<1>1. ASSUME DemoInv PROVE FramesConsistent
  <2>1. DOMAIN log = 1..Len(log) /\ DOMAIN frames = 1..Len(frames)
    BY <1>1, LenProperties DEF DemoInv, TypeInv
  <2> QED
    BY <1>1, <2>1 DEF DemoInv, FrameInv, FramesConsistent, Positions
<1> QED
  BY <1>1, DemoInvariant, PTL
-----------------------------------------------------------------------------
(* The configuration main runs with, once it has resolved its policy. *)
Configured == cfg \in Parse(doc) /\ policy = PolicyName /\ policy \in Registered \cup {PolicyNone}

Early == {"load", "policy", "exited"}

ConfigInv ==
    /\ \E in \in Inputs : doc = in.doc
    /\ pc = "policy" => cfg \in Parse(doc)
    /\ pc \notin Early => Configured
    /\ Len(log) # 0 => Configured
    /\ exit = "panic" => Configured /\ \E d \in FrameInterval(cfg.rate) : ~(d > 0)

(* Arithmetic of products, for the steps the provers do not find alone. *)
LEMMA Products ==
    /\ \A x, y \in Int : x * y \in Int /\ x * y = y * x
    /\ \A x, y, z \in Int : (x * y) * z = x * (y * z)
    /\ \A x, y, z \in Int : (x + y) * z = x * z + y * z /\ (x - y) * z = x * z - y * z
    /\ \A x, y \in Nat : x * y \in Nat
    /\ \A x, y \in Int, z \in Nat : x <= y => x * z <= y * z
    /\ \A x, y \in Int, z \in Nat \ {0} : x * z <= y * z => x <= y
    /\ \A x, y \in Int, z \in Nat \ {0} : x * z < y * z => x < y
    /\ \A x, y \in Int, z \in Nat \ {0} : x < y => x * z < y * z
    /\ \A x, y \in Int, z \in Nat \ {0} : x * z = y * z => x = y
    /\ \A x, y \in Nat \ {0} : x * y \in Nat \ {0}
<1>1. \A x, y \in Int : x * y \in Int /\ x * y = y * x
  OBVIOUS
<1>2. \A x, y, z \in Int : (x * y) * z = x * (y * z)
  OBVIOUS
<1>3. \A x, y, z \in Int : (x + y) * z = x * z + y * z /\ (x - y) * z = x * z - y * z
  OBVIOUS
<1>4. \A x, y \in Nat : x * y \in Nat
  OBVIOUS
<1>5. \A x, y \in Int, z \in Nat : x <= y => x * z <= y * z
  OBVIOUS
<1>6. \A x, y \in Int, z \in Nat \ {0} : x < y => x * z < y * z
  OBVIOUS
<1>7. \A x, y \in Int, z \in Nat \ {0} : x * z <= y * z => x <= y
  BY <1>6
<1>8. \A x, y \in Int, z \in Nat \ {0} : x * z < y * z => x < y
  BY <1>5
<1>9. \A x, y \in Int, z \in Nat \ {0} : x * z = y * z => x = y
  BY <1>6
<1>10. \A x, y \in Nat \ {0} : x * y \in Nat \ {0}
  OBVIOUS
<1> QED
  BY <1>1, <1>2, <1>3, <1>4, <1>5, <1>6, <1>7, <1>8, <1>9, <1>10

LEMMA Quotients ==
    \A x \in Nat, y \in Nat \ {0} : x \div y \in Nat /\ (x \div y) * y <= x /\ x < (x \div y + 1) * y
OBVIOUS

(* The nearest integers are within half a step. *)
LEMMA NearestFacts ==
    ASSUME NEW n \in Nat, NEW d \in Nat \ {0}, NEW m \in Nearest(n, d)
    PROVE  m \in Nat /\ m * d \in Nat /\ 2 * (n - m * d) <= d /\ 2 * (m * d - n) <= d
<1>1. m \in Nat
  BY Quotients DEF Nearest
<1>2. m * d \in Nat
  BY <1>1, Products
<1>3. 2 * Magnitude(n - m * d) <= d
  <2> DEFINE g == Magnitude(n - m * d)
  <2>1. 2 * g < d \/ 2 * g = d
    BY DEF Nearest
  <2>2. g \in Int
    BY <1>2 DEF Magnitude
  <2> HIDE DEF g
  <2>3. 2 * g <= d
    BY <2>1, <2>2
  <2> QED
    BY <2>3 DEF g
<1>4. n - m * d <= Magnitude(n - m * d) /\ m * d - n <= Magnitude(n - m * d) /\ Magnitude(n - m * d) \in Int
  BY <1>2 DEF Magnitude
<1> QED
  BY <1>1, <1>2, <1>3, <1>4

(* Which mantissa and which weight a float has. *)
LEMMA FloatIs ==
    ASSUME NEW n \in Int, n # 0, NEW d \in Nat \ {0}, NEW x \in Float(n, d)
    PROVE  \E w \in Weights : \E m \in Nearest(Magnitude(n) * w.down, d * w.up) :
             /\ Fits(Magnitude(n), d, w)
             /\ x = [num |-> (IF n < 0 THEN -m ELSE m) * w.up, den |-> w.down]
BY DEF Float

LEMMA WeightFacts ==
    ASSUME NEW w \in Weights
    PROVE  w.up \in Nat \ {0} /\ w.down \in Nat \ {0} /\ (w.up = 1 \/ w.down = 1)
BY FloatAssumption

LEMMA SigFacts == Half \in Nat \ {0} /\ Sig \in Nat \ {0} /\ Sig = 2 * Half /\ Sig >= 4 /\ Sig <= MaxInt
BY FloatAssumption DEF Sig

(* Rounding is off by at most one part in 2^53, and exact for a whole      *)
(* number below that.                                                      *)
LEMMA FloatFacts ==
    ASSUME NEW n \in Nat \ {0}, NEW d \in Nat \ {0}, NEW x \in Float(n, d)
    PROVE  /\ x.num \in Nat /\ x.den \in Nat \ {0}
           /\ (x.num * d - n * x.den) * Sig <= n * x.den
           /\ (n * x.den - x.num * d) * Sig <= n * x.den
           /\ \A q \in Nat : n = q * d /\ q < Sig => x.num = q * x.den
<1>0. Magnitude(n) = n /\ ~(n < 0) /\ n \in Int /\ n # 0
  BY DEF Magnitude
<1>13. PICK w \in Weights : \E m \in Nearest(n * w.down, d * w.up) :
        Fits(n, d, w) /\ x = [num |-> m * w.up, den |-> w.down]
  BY <1>0, FloatIs
<1>1. PICK m \in Nearest(n * w.down, d * w.up) :
        Fits(n, d, w) /\ x = [num |-> m * w.up, den |-> w.down]
  BY <1>13
<1> DEFINE u == w.up
           o == w.down
           N == n * o
           D == d * u
<1>2. u \in Nat \ {0} /\ o \in Nat \ {0} /\ (u = 1 \/ o = 1)
  BY WeightFacts
<1>3. x.num = m * u /\ x.den = o
  BY <1>1
<1>4. Half * u * d <= N /\ m \in Nearest(N, D)
  BY <1>1 DEF Fits
<1> HIDE DEF u, o
<1>5. N \in Nat /\ D \in Nat \ {0}
  BY <1>2, Products
<1>6. Half * D <= N
  <2>1. Half * u * d = Half * D
    BY <1>2, SigFacts
  <2> QED
    BY <1>4, <2>1
<1>7. m \in Nat /\ m * D \in Nat /\ 2 * (N - m * D) <= D /\ 2 * (m * D - N) <= D
  <2> HIDE DEF N, D
  <2> QED
    BY <1>4, <1>5, NearestFacts
<1>8. x.num * d = m * D /\ n * x.den = N
  BY <1>2, <1>3, <1>7
<1>9. x.num \in Nat /\ x.den \in Nat \ {0}
  BY <1>2, <1>3, <1>7, Products
<1>10. ASSUME NEW e \in Int, 2 * e <= D PROVE e * Sig <= N
  <2>1. (2 * e) * Half <= D * Half
    <3> HIDE DEF D, N
    <3> QED
      BY <1>5, <1>10, SigFacts, Products
  <2>2. (2 * e) * Half = e * Sig /\ e * Sig \in Int /\ D * Half = Half * D /\ Half * D \in Int
    <3> HIDE DEF D, N
    <3> QED
      BY <1>5, <1>10, SigFacts
  <2> HIDE DEF D, N
  <2> QED
    BY <1>5, <1>6, <2>1, <2>2
<1>11. (m * D - N) * Sig <= N /\ (N - m * D) * Sig <= N
  <2> HIDE DEF N, D
  <2> QED
    BY <1>5, <1>7, <1>10
<1>12. ASSUME NEW q \in Nat, n = q * d, q < Sig PROVE x.num = q * x.den
  <2>1. CASE u = 1
    <3> DEFINE k == q * o
    <3>1. N = k * d /\ D = d /\ k \in Nat
      BY <1>2, <1>12, <2>1
    <3>2. 2 * ((k - m) * d) <= d /\ 2 * ((m - k) * d) <= d
      <4> HIDE DEF N, D, k
      <4>1. (k - m) * d = N - m * D /\ (m - k) * d = m * D - N
        BY <1>7, <3>1
      <4> QED
        BY <1>7, <3>1, <4>1
    <3>3. \A z \in Int : 2 * (z * d) <= d => z <= 0
      OBVIOUS
    <3>4. k - m <= 0 /\ m - k <= 0
      <4> HIDE DEF k
      <4> QED
        BY <1>7, <3>1, <3>2, <3>3
    <3>5. m = k
      <4> HIDE DEF k
      <4> QED
        BY <1>7, <3>1, <3>4
    <3> QED
      BY <1>3, <1>7, <2>1, <3>5
  <2>2. CASE u # 1
    <3>1. u >= 2 /\ o = 1
      BY <1>2, <2>2
    <3>2. N = q * d
      BY <1>12, <3>1
    <3>3. (Half * u) * d <= q * d
      <4> HIDE DEF N
      <4> QED
        BY <1>4, <3>2
    <3>4. Half * u \in Int
      BY <1>2, SigFacts
    <3>5. Half * u <= q
      BY <3>3, <3>4, Products
    <3>6. 2 * Half <= u * Half
      BY <1>2, <3>1, SigFacts, Products
    <3> QED
      BY <1>2, <1>12, <3>4, <3>5, <3>6, SigFacts
  <2> QED
    BY <2>1, <2>2
<1> HIDE DEF N, D
<1> QED
  BY <1>8, <1>9, <1>11, <1>12

(* A number that is not positive is not positive after rounding. *)
LEMMA FloatSign ==
    ASSUME NEW n \in Int, n <= 0, NEW d \in Nat \ {0}, NEW x \in Float(n, d)
    PROVE  x.num \in Int /\ x.num <= 0 /\ x.den \in Nat \ {0}
<1>1. CASE n = 0
  BY <1>1 DEF Float
<1>2. CASE n # 0
  <2>0. n < 0 /\ Magnitude(n) = -n /\ -n \in Nat
    BY <1>2 DEF Magnitude
  <2>1. PICK w \in Weights : \E m \in Nearest((-n) * w.down, d * w.up) :
          x = [num |-> (-m) * w.up, den |-> w.down]
    BY <1>2, <2>0, FloatIs
  <2>2. PICK m \in Nearest((-n) * w.down, d * w.up) : x = [num |-> (-m) * w.up, den |-> w.down]
    BY <2>1
  <2>3. w.up \in Nat \ {0} /\ w.down \in Nat \ {0}
    BY WeightFacts
  <2>4. (-n) * w.down \in Nat /\ d * w.up \in Nat \ {0}
    BY <2>0, <2>3, Products
  <2>5. m \in Nat
    BY <2>2, <2>4, NearestFacts
  <2>6. \A y, z \in Nat : (-y) * z \in Int /\ (-y) * z <= 0
    OBVIOUS
  <2> QED
    BY <2>2, <2>3, <2>5, <2>6
<1> QED
  BY <1>1, <1>2

LEMMA IntFacts == MaxInt \in Nat /\ MinInt \in Int /\ MinInt < 0 /\ MinInt = -(MaxInt + 1)
BY ConfigAssumption DEF MinInt

(* A positive result of the conversion is the quotient, or the largest     *)
(* integer if that is smaller.                                             *)
LEMMA Converted ==
    ASSUME NEW n \in Int, NEW d \in Nat \ {0}, NEW c \in ToInt64(n, d)
    PROVE  /\ c \in Int
           /\ n <= 0 => c <= 0
           /\ n > 0 /\ c > 0 => c * d <= n /\ (n < (c + 1) * d \/ (c = MaxInt /\ (MaxInt + 1) * d <= n))
           /\ n > 0 /\ c <= 0 => n < d \/ (MaxInt + 1) * d <= n
<1>1. CASE n < 0
  <2>1. (-n) \div d \in Nat
    BY <1>1, Quotients
  <2>2. c \in Int /\ c <= 0
    BY <1>1, <2>1, IntFacts DEF ToInt64, OutOfRange
  <2> QED
    BY <1>1, <2>2
<1>2. CASE ~(n < 0)
  <2> DEFINE q == n \div d
  <2>1. q \in Nat /\ q * d <= n /\ n < (q + 1) * d
    BY <1>2, Quotients
  <2>2. c \in IF q \in MinInt..MaxInt THEN {q} ELSE {MinInt, MaxInt}
    BY <1>2 DEF ToInt64, OutOfRange
  <2> HIDE DEF q
  <2>3. CASE q <= MaxInt
    <3>1. c = q
      BY <2>1, <2>2, <2>3, IntFacts
    <3>2. n <= 0 => q <= 0
      <4>1. q > 0 => d <= q * d
        BY <2>1
      <4> QED
        BY <1>2, <2>1, <4>1
    <3>3. n > 0 /\ q <= 0 => n < d
      <4>1. q = 0 => (q + 1) * d = d
        OBVIOUS
      <4> QED
        BY <2>1, <4>1
    <3> QED
      BY <2>1, <3>1, <3>2, <3>3
  <2>4. CASE ~(q <= MaxInt)
    <3>1. c \in {MinInt, MaxInt}
      BY <2>1, <2>2, <2>4, IntFacts
    <3>2. (MaxInt + 1) * d <= q * d /\ MaxInt * d <= q * d
      BY <2>1, <2>4, IntFacts, Products
    <3>3. (MaxInt + 1) * d <= n /\ MaxInt * d <= n
      <4>1. q * d \in Int /\ MaxInt * d \in Int /\ (MaxInt + 1) * d \in Int
        BY <2>1, IntFacts, Products
      <4> QED
        BY <1>2, <2>1, <3>2, <4>1
    <3>4. n > 0
      <4>1. (MaxInt + 1) * d \in Nat \ {0}
        BY IntFacts, Products
      <4> QED
        BY <3>3, <4>1
    <3> QED
      BY <3>1, <3>3, <3>4, IntFacts
  <2> QED
    BY <2>1, <2>3, <2>4, IntFacts
<1> QED
  BY <1>1, <1>2

(* What is beyond the largest float64 is beyond the largest integer. *)
LEMMA InfiniteFacts ==
    ASSUME NEW n \in Nat, NEW d \in Nat \ {0}, Infinite(n, d)
    PROVE  (MaxInt + 1) * d <= n
<1>1. PICK w \in Weights : Sig * w.up >= (MaxInt + 1) * w.down
  BY FloatAssumption DEF Sig
<1>2. Sig * w.up * d <= n * w.down
  BY DEF Infinite, Magnitude
<1> DEFINE u == Sig * w.up
           o == w.down
           M == MaxInt + 1
<1>3. u \in Nat /\ o \in Nat \ {0} /\ M \in Nat /\ u >= M * o /\ u * d <= n * o
  BY <1>1, <1>2, WeightFacts, SigFacts, IntFacts, Products
<1> HIDE DEF u, o, M
<1>4. (M * o) * d <= u * d
  BY <1>3, Products
<1>5. (M * o) * d = (M * d) * o /\ (M * d) * o \in Int /\ M * d \in Int /\ u * d \in Int /\ n * o \in Int
  BY <1>3
<1>6. (M * d) * o <= n * o
  BY <1>3, <1>4, <1>5
<1>7. M * d <= n
  BY <1>3, <1>5, <1>6, Products
<1> QED
  BY <1>7 DEF M

(* Two roundings, of a number of tenths and of its product with a unit,    *)
(* are off by at most three parts.                                         *)
LEMMA TwoRoundings ==
    ASSUME NEW t \in Nat, NEW M \in Nat, NEW a \in Nat, NEW b \in Nat \ {0}, NEW e \in Nat, NEW f \in Nat,
           NEW S \in Nat \ {0},
           (a * 10 - t * b) * S <= t * b, (t * b - a * 10) * S <= t * b,
           (e * b - (a * M) * f) * S <= (a * M) * f, ((a * M) * f - e * b) * S <= (a * M) * f
    PROVE  /\ 10 * e * S <= (t * M) * f * (S + 3)
           /\ (t * M) * f * (S - 3) <= 10 * e * S
<1> DEFINE P == M * f
           T == t * b
           A == a * 10
           AP == A * P
           TP == T * P
           E == 10 * (e * b)
<1>1. P \in Nat /\ T \in Nat /\ A \in Nat /\ AP \in Nat /\ TP \in Nat /\ E \in Nat
  <2>1. P \in Nat /\ T \in Nat /\ A \in Nat /\ e * b \in Nat
    BY Products
  <2> HIDE DEF P, T, A
  <2> QED
    BY <2>1, Products
<1>2. 10 * ((a * M) * f) = AP
  OBVIOUS
<1>3. (E - AP) * S <= AP /\ (AP - E) * S <= AP
  <2> DEFINE x == e * b
             y == (a * M) * f
  <2>1. x \in Int /\ y \in Int /\ (x - y) * S <= y /\ (y - x) * S <= y /\ AP = 10 * y /\ E = 10 * x
    BY <1>2
  <2> HIDE DEF x, y, AP, E
  <2>2. (10 * x - 10 * y) * S = 10 * ((x - y) * S) /\ (10 * y - 10 * x) * S = 10 * ((y - x) * S)
    BY <2>1
  <2>3. (x - y) * S \in Int /\ (y - x) * S \in Int
    BY <2>1
  <2> QED
    BY <2>1, <2>2, <2>3
<1>4. (A - T) * S <= T /\ (T - A) * S <= T
  OBVIOUS
<1> HIDE DEF P, T, A, E
<1>5. A <= 2 * T
  <2>1. A - T > 0 => A - T <= (A - T) * S
    BY <1>1
  <2>2. (A - T) * S \in Int
    BY <1>1
  <2> QED
    BY <1>1, <1>4, <2>1, <2>2
<1>6. AP <= 2 * TP
  <2>1. A * P <= (2 * T) * P
    BY <1>1, <1>5, Products
  <2> QED
    BY <1>1, <2>1
<1>7. (AP - TP) * S <= TP /\ (TP - AP) * S <= TP
  <2>1. ((A - T) * S) * P <= T * P /\ ((T - A) * S) * P <= T * P
    <3>1. (A - T) * S \in Int /\ (T - A) * S \in Int
      BY <1>1
    <3> QED
      BY <1>1, <1>4, <3>1, Products
  <2>2. ((A - T) * S) * P = (AP - TP) * S /\ ((T - A) * S) * P = (TP - AP) * S
    BY <1>1
  <2> QED
    BY <2>1, <2>2
<1> HIDE DEF AP, TP
<1>8. E * S <= TP * (S + 3) /\ TP * (S - 3) <= E * S
  <2>1. /\ (E - AP) * S = E * S - AP * S /\ (AP - E) * S = AP * S - E * S
        /\ (AP - TP) * S = AP * S - TP * S /\ (TP - AP) * S = TP * S - AP * S
        /\ TP * (S + 3) = TP * S + 3 * TP /\ TP * (S - 3) = TP * S - 3 * TP
    BY <1>1
  <2>2. E * S \in Int /\ AP * S \in Int /\ TP * S \in Int
    BY <1>1
  <2> QED
    BY <1>1, <1>3, <1>6, <1>7, <2>1, <2>2
<1>9. E * S = (10 * e * S) * b
  BY DEF E
<1>10. TP * (S + 3) = ((t * M) * f * (S + 3)) * b /\ TP * (S - 3) = ((t * M) * f * (S - 3)) * b
  <2>1. TP = ((t * M) * f) * b
    BY DEF TP, T, P
  <2> DEFINE g == (t * M) * f
  <2>2. g \in Int
    OBVIOUS
  <2> HIDE DEF g
  <2>3. (g * b) * (S + 3) = (g * (S + 3)) * b /\ (g * b) * (S - 3) = (g * (S - 3)) * b
    BY <2>2
  <2> QED
    BY <2>1, <2>3 DEF g
<1>11. 10 * e * S \in Int /\ (t * M) * f * (S + 3) \in Int /\ (t * M) * f * (S - 3) \in Int
  OBVIOUS
<1> QED
  BY <1>8, <1>9, <1>10, <1>11, Products

(* What the conversion of a rounded result gives. *)
LEMMA RoundedIs ==
    ASSUME NEW n \in Int, NEW d \in Nat \ {0}, NEW c \in RoundedToInt64(n, d)
    PROVE  \/ Infinite(n, d) /\ c \in OutOfRange(n)
           \/ \E x \in Float(n, d) : c \in ToInt64(x.num, x.den)
BY DEF RoundedToInt64

LEMMA NotPositive ==
    ASSUME NEW n \in Int, n <= 0, NEW d \in Nat \ {0}, NEW c \in RoundedToInt64(n, d)
    PROVE  c \in Int /\ c <= 0
<1>1. CASE Infinite(n, d) /\ c \in OutOfRange(n)
  <2>1. Magnitude(n) = -n /\ -n \in Nat
    BY DEF Magnitude
  <2>2. n # 0
    <3> SUFFICES ASSUME n = 0 PROVE FALSE
      OBVIOUS
    <3>1. Infinite(0, d)
      BY <1>1
    <3>2. (MaxInt + 1) * d <= 0
      BY <3>1, InfiniteFacts
    <3>3. (MaxInt + 1) * d \in Nat \ {0}
      BY IntFacts, Products
    <3> QED
      BY <3>2, <3>3
  <2> QED
    BY <1>1, <2>2, IntFacts DEF OutOfRange
<1>2. ASSUME NEW x \in Float(n, d), c \in ToInt64(x.num, x.den) PROVE c \in Int /\ c <= 0
  <2>1. x.num \in Int /\ x.num <= 0 /\ x.den \in Nat \ {0}
    BY FloatSign
  <2> QED
    BY <1>2, <2>1, Converted
<1> QED
  BY <1>1, <1>2, RoundedIs

(* A size that is read with a unit and positive. *)
LEMMA SizeRounded ==
    ASSUME NEW t \in Int, NEW M \in Nat \ {0}, NEW v \in Float(t, 10), NEW c \in RoundedToInt64(v.num * M, v.den)
    PROVE  /\ c \in Int
           /\ c > 0 =>
                /\ t % 10 = 0 /\ t * M < 10 * Sig => t * M = 10 * c
                /\ (c = MaxInt /\ t * M >= 10 * (MaxInt + 1)) \/ CutFrom(c, t * M)
<1> DEFINE a == v.num
           b == v.den
           X == t * M
<1>1. CASE t <= 0
  <2>1. a \in Int /\ a <= 0 /\ b \in Nat \ {0}
    BY <1>1, FloatSign
  <2>2. a * M \in Int /\ a * M <= 0
    <3> HIDE DEF a
    <3> QED
      BY <2>1
  <2>3. c \in Int /\ c <= 0
    <3> HIDE DEF a, b
    <3>1. c \in RoundedToInt64(a * M, b)
      BY DEF a, b
    <3> QED
      BY <2>1, <2>2, <3>1, NotPositive
  <2> QED
    BY <2>3
<1>2. CASE ~(t <= 0)
  <2>0. t \in Nat \ {0}
    BY <1>2
  <2>1. /\ a \in Nat /\ b \in Nat \ {0}
        /\ (a * 10 - t * b) * Sig <= t * b /\ (t * b - a * 10) * Sig <= t * b
        /\ \A k \in Nat : t = k * 10 /\ k < Sig => a = k * b
    BY <2>0, FloatFacts
  <2>2. c \in RoundedToInt64(a * M, b)
    OBVIOUS
  <2>3. X \in Nat \ {0}
    BY <2>0, Products
  <2> HIDE DEF a, b, X
  <2>4. a # 0
    <3> SUFFICES ASSUME a = 0 PROVE FALSE
      OBVIOUS
    <3>1. t * b \in Nat \ {0}
      BY <2>0, <2>1, Products
    <3>2. (t * b) * Sig <= t * b
      BY <2>1, <3>1
    <3>3. \A y, z \in Nat \ {0} : y * z <= y => z <= 1
      OBVIOUS
    <3> QED
      BY <3>1, <3>2, <3>3, SigFacts
  <2>5. a * M \in Nat \ {0}
    BY <2>1, <2>4, Products
  (* A whole number that fits a mantissa stays what it is. *)
  <2>6. ASSUME t % 10 = 0, X < 10 * Sig
        PROVE  \E q \in Nat : q < Sig /\ X = 10 * q /\ a * M = q * b
    <3> DEFINE k == t \div 10
    <3>1. k \in Nat /\ t = k * 10
      BY <2>0, <2>6
    <3> HIDE DEF k
    <3>2. X = 10 * (k * M) /\ k * M \in Nat
      BY <3>1 DEF X
    <3>3. k * M < Sig
      BY <2>6, <3>2, SigFacts
    <3>4. k <= k * M
      BY <3>1
    <3>5. a = k * b
      BY <2>1, <3>1, <3>2, <3>3, <3>4, SigFacts
    <3>6. a * M = (k * M) * b
      BY <2>1, <3>1, <3>5
    <3> QED
      BY <3>2, <3>3, <3>6
  <2>7. CASE Infinite(a * M, b) /\ c \in OutOfRange(a * M)
    <3>1. (MaxInt + 1) * b <= a * M
      BY <2>1, <2>5, <2>7, InfiniteFacts
    <3>2. c \in {MinInt, MaxInt} /\ c \in Int
      BY <2>5, <2>7, IntFacts DEF OutOfRange
    <3>3. ASSUME t % 10 = 0, X < 10 * Sig PROVE FALSE
      <4>1. PICK q \in Nat : q < Sig /\ a * M = q * b
        BY <2>6, <3>3
      <4>2. MaxInt + 1 <= q
        BY <2>1, <3>1, <4>1, IntFacts, Products
      <4> QED
        BY <4>1, <4>2, IntFacts, SigFacts
    <3>4. 10 * (MaxInt + 1) * Sig <= X * (Sig + 1)
      <4> DEFINE L == MaxInt + 1
                 T == t * b
      <4>1. L \in Nat /\ T \in Nat /\ (a * 10) * Sig <= T * (Sig + 1) /\ L * b <= a * M
        <5>1. T \in Nat
          BY <2>0, <2>1, Products
        <5>2. (a * 10) * Sig - T * Sig <= T /\ T * (Sig + 1) = T * Sig + T /\ T * Sig \in Int /\ (a * 10) * Sig \in Int
          <6>1. a * 10 \in Int
            BY <2>1
          <6>2. (a * 10 - T) * Sig <= T
            BY <2>1
          <6> HIDE DEF T
          <6> QED
            BY <5>1, <6>1, <6>2, SigFacts
        <5> HIDE DEF T
        <5> QED
          BY <3>1, <5>1, <5>2, IntFacts
      <4> HIDE DEF L, T
      <4>2. (L * b) * (10 * Sig) <= (a * M) * (10 * Sig)
        BY <2>1, <2>5, <4>1, SigFacts, Products
      <4>3. ((a * 10) * Sig) * M <= (T * (Sig + 1)) * M
        <5>1. (a * 10) * Sig \in Int /\ T * (Sig + 1) \in Int
          BY <2>1, <4>1, SigFacts
        <5> QED
          BY <4>1, <5>1, Products
      <4>4. (a * M) * (10 * Sig) = ((a * 10) * Sig) * M
        BY <2>1, SigFacts
      <4>5. (L * b) * (10 * Sig) = (10 * L * Sig) * b
        BY <2>1, <4>1, SigFacts
      <4>6. (T * (Sig + 1)) * M = (X * (Sig + 1)) * b
        <5>1. T * M = X * b
          BY <2>0, <2>1 DEF X, T
        <5>2. (T * (Sig + 1)) * M = (T * M) * (Sig + 1) /\ (X * (Sig + 1)) * b = (X * b) * (Sig + 1)
          BY <2>1, <2>3, <4>1, SigFacts
        <5> QED
          BY <5>1, <5>2
      <4>7. 10 * L * Sig \in Int /\ X * (Sig + 1) \in Int
        BY <2>3, <4>1, SigFacts
      <4>8. (10 * L * Sig) * b <= (X * (Sig + 1)) * b
        <5>1. (10 * L * Sig) * b \in Int /\ (X * (Sig + 1)) * b \in Int /\ (a * M) * (10 * Sig) \in Int
          BY <2>1, <2>5, <4>7, SigFacts
        <5> QED
          BY <4>2, <4>3, <4>4, <4>5, <4>6, <5>1
      <4>9. 10 * L * Sig <= X * (Sig + 1)
        BY <2>1, <4>7, <4>8, Products
      <4> QED
        BY <4>9 DEF L
    <3>5. X >= 10 * (MaxInt + 1) \/ CutFrom(MaxInt, X)
      <4> SUFFICES ASSUME X < 10 * (MaxInt + 1) PROVE CutFrom(MaxInt, X)
        BY <2>3, IntFacts
      <4>1. X * Sig < (10 * (MaxInt + 1)) * Sig
        BY <2>3, IntFacts, SigFacts, Products
      <4>2. X * (Sig - 3) = X * Sig - 3 * X /\ X * (Sig + 3) = X * (Sig + 1) + 2 * X
        BY <2>3, SigFacts
      <4>3. 10 * MaxInt * Sig <= 10 * (MaxInt + 1) * Sig
        BY IntFacts, SigFacts
      <4>4. X * Sig \in Int /\ X * (Sig + 1) \in Int /\ 10 * MaxInt * Sig \in Int /\ 10 * (MaxInt + 1) * Sig \in Int
        BY <2>3, IntFacts, SigFacts
      <4> QED
        BY <2>3, <3>4, <4>1, <4>2, <4>3, <4>4 DEF CutFrom
    <3> QED
      BY <3>2, <3>3, <3>5, IntFacts DEF X
  <2>8. ASSUME NEW x \in Float(a * M, b), c \in ToInt64(x.num, x.den)
        PROVE  /\ c \in Int
               /\ c > 0 =>
                    /\ t % 10 = 0 /\ X < 10 * Sig => X = 10 * c
                    /\ (c = MaxInt /\ X >= 10 * (MaxInt + 1)) \/ CutFrom(c, X)
    <3> DEFINE e == x.num
               f == x.den
    <3>1. /\ e \in Nat /\ f \in Nat \ {0}
          /\ (e * b - (a * M) * f) * Sig <= (a * M) * f /\ ((a * M) * f - e * b) * Sig <= (a * M) * f
          /\ \A q \in Nat : a * M = q * b /\ q < Sig => e = q * f
      BY <2>1, <2>5, FloatFacts
    <3>2. c \in ToInt64(e, f)
      BY <2>8
    <3> HIDE DEF e, f
    <3>3. /\ c \in Int
          /\ e > 0 /\ c > 0 => c * f <= e /\ (e < (c + 1) * f \/ (c = MaxInt /\ (MaxInt + 1) * f <= e))
          /\ e <= 0 => c <= 0
      BY <3>1, <3>2, Converted
    <3> SUFFICES ASSUME c > 0
                 PROVE  /\ t % 10 = 0 /\ X < 10 * Sig => X = 10 * c
                        /\ (c = MaxInt /\ X >= 10 * (MaxInt + 1)) \/ CutFrom(c, X)
      BY <3>3
    <3>4. c * f <= e /\ (e < (c + 1) * f \/ (c = MaxInt /\ (MaxInt + 1) * f <= e)) /\ c \in Nat
      BY <3>1, <3>3
    <3>5. ASSUME t % 10 = 0, X < 10 * Sig PROVE X = 10 * c
      <4>1. PICK q \in Nat : q < Sig /\ X = 10 * q /\ a * M = q * b
        BY <2>6, <3>5
      <4>2. e = q * f
        BY <3>1, <4>1
      <4>3. c <= q
        BY <3>1, <3>4, <4>2, Products
      <4>4. ~((MaxInt + 1) * f <= e)
        <5>1. (MaxInt + 1) * f <= q * f => MaxInt + 1 <= q
          BY <3>1, IntFacts, Products
        <5> QED
          BY <4>1, <4>2, <5>1, IntFacts, SigFacts
      <4>5. q < c + 1
        <5>1. q * f < (c + 1) * f
          BY <3>4, <4>2, <4>4
        <5> QED
          BY <3>1, <3>4, <5>1, Products
      <4> QED
        BY <3>4, <4>1, <4>3, <4>5
    <3>6. 10 * e * Sig <= X * f * (Sig + 3) /\ X * f * (Sig - 3) <= 10 * e * Sig
      BY <2>0, <2>1, <3>1, SigFacts, TwoRoundings DEF X
    <3> DEFINE g == 10 * Sig
    <3>7. g \in Nat \ {0} /\ 10 * e * Sig = e * g /\ 10 * c * Sig = c * g /\ 10 * (c + 1) * Sig = (c + 1) * g
      BY <3>1, <3>4, SigFacts
    <3>8. X * f * (Sig + 3) = (X * (Sig + 3)) * f /\ X * f * (Sig - 3) = (X * (Sig - 3)) * f
      BY <2>3, <3>1, SigFacts
    <3>9. X * (Sig + 3) \in Int /\ X * (Sig - 3) \in Int /\ X * Sig \in Int
      BY <2>3, SigFacts
    <3> HIDE DEF g
    <3>10. c * g <= X * (Sig + 3)
      <4>1. (c * f) * g <= e * g /\ (c * f) * g = (c * g) * f /\ c * g \in Int /\ e * g \in Int
        BY <3>1, <3>4, <3>7, Products
      <4>2. (c * g) * f <= (X * (Sig + 3)) * f
        <5>1. (c * g) * f \in Int /\ (X * (Sig + 3)) * f \in Int
          BY <3>1, <3>9, <4>1
        <5> QED
          BY <3>6, <3>7, <3>8, <4>1, <5>1
      <4> QED
        BY <3>1, <3>9, <4>1, <4>2, Products
    <3>11. CASE e < (c + 1) * f
      <4>1. /\ e * g < ((c + 1) * f) * g /\ ((c + 1) * f) * g = ((c + 1) * g) * f
            /\ (c + 1) * g \in Int /\ e * g \in Int
        BY <3>1, <3>4, <3>7, <3>11, Products
      <4>2. (X * (Sig - 3)) * f < ((c + 1) * g) * f
        <5>1. ((c + 1) * g) * f \in Int /\ (X * (Sig - 3)) * f \in Int
          BY <3>1, <3>9, <4>1
        <5> QED
          BY <3>6, <3>7, <3>8, <4>1, <5>1
      <4>3. X * (Sig - 3) < (c + 1) * g
        BY <3>1, <3>9, <4>1, <4>2, Products
      <4> QED
        BY <3>5, <3>7, <3>10, <4>3 DEF CutFrom
    <3>12. CASE c = MaxInt /\ X < 10 * (MaxInt + 1)
      <4>1. X * Sig < (10 * (MaxInt + 1)) * Sig
        BY <2>3, <3>12, IntFacts, SigFacts, Products
      <4>2. X * (Sig - 3) = X * Sig - 3 * X /\ (10 * (MaxInt + 1)) * Sig = (c + 1) * g /\ (c + 1) * g \in Int
        BY <2>3, <3>4, <3>7, <3>12, SigFacts, IntFacts
      <4>3. X * (Sig - 3) < (c + 1) * g
        BY <2>3, <3>9, <4>1, <4>2
      <4> QED
        BY <3>5, <3>7, <3>10, <4>3 DEF CutFrom
    <3>13. CASE c = MaxInt /\ X >= 10 * (MaxInt + 1)
      BY <3>5, <3>13
    <3> QED
      BY <2>3, <3>4, <3>11, <3>12, <3>13, IntFacts
  <2>9. \/ Infinite(a * M, b) /\ c \in OutOfRange(a * M)
        \/ \E x \in Float(a * M, b) : c \in ToInt64(x.num, x.den)
    BY <2>1, <2>2, <2>5, RoundedIs
  <2> QED
    BY <2>7, <2>8, <2>9 DEF X
<1> QED
  BY <1>1, <1>2

(* The period of a rate, rounded and converted, is positive unless it is   *)
(* out of range.                                                           *)
LEMMA IntervalRounded ==
    ASSUME NEW n \in Nat \ {0}, NEW d \in Nat \ {0}, 2 * d <= n, NEW c \in RoundedToInt64(n, d), ~(c > 0)
    PROVE  (MaxInt + 1) * Sig * d <= n * (Sig + 1)
<1> DEFINE L == MaxInt + 1
<1>1. L \in Nat /\ n * (Sig + 1) = n * Sig + n /\ n * Sig \in Int /\ L * Sig * d \in Int
  BY SigFacts, IntFacts
<1>2. CASE Infinite(n, d)
  <2>1. L * d <= n
    BY <1>2, InfiniteFacts
  <2>2. (L * d) * Sig <= n * Sig /\ (L * d) * Sig = L * Sig * d
    <3> HIDE DEF L
    <3> QED
      BY <1>1, <2>1, SigFacts, Products
  <2> HIDE DEF L
  <2>3. L * Sig * d <= n * (Sig + 1)
    BY <1>1, <2>2
  <2> QED
    BY <2>3 DEF L
<1>3. ASSUME NEW x \in Float(n, d), c \in ToInt64(x.num, x.den) PROVE (MaxInt + 1) * Sig * d <= n * (Sig + 1)
  <2> DEFINE e == x.num
             f == x.den
  <2>1. /\ e \in Nat /\ f \in Nat \ {0}
        /\ (e * d - n * f) * Sig <= n * f /\ (n * f - e * d) * Sig <= n * f
    BY FloatFacts
  <2>2. c \in ToInt64(e, f)
    BY <1>3
  <2> HIDE DEF e, f
  <2>3. c \in Int /\ (e > 0 /\ c <= 0 => e < f \/ L * f <= e)
    BY <2>1, <2>2, Converted
  <2> HIDE DEF L
  <2> DEFINE D == e * d
             N == n * f
  <2>4. D \in Nat /\ N \in Nat \ {0} /\ (D - N) * Sig <= N /\ (N - D) * Sig <= N
    BY <2>1, Products
  <2>5. 2 * (d * f) <= N /\ d * f \in Nat \ {0}
    <3>1. (2 * d) * f <= n * f /\ d * f \in Nat \ {0}
      BY <2>1, Products
    <3> QED
      BY <2>1, <3>1
  <2>6. ~(e < f)
    <3> SUFFICES ASSUME e < f PROVE FALSE
      OBVIOUS
    <3>1. D < d * f
      <4>1. e * d < f * d /\ f * d = d * f
        BY <2>1, Products
      <4> QED
        BY <4>1
    <3> HIDE DEF D, N
    <3>2. N - D >= 1 /\ N < 2 * (N - D)
      BY <2>4, <2>5, <3>1
    <3>3. 4 * (N - D) <= Sig * (N - D)
      BY <2>4, <3>2, SigFacts, Products
    <3>4. Sig * (N - D) = (N - D) * Sig /\ (N - D) * Sig \in Int
      BY <2>4, SigFacts
    <3> QED
      BY <2>4, <3>2, <3>3, <3>4
  <2>7. e > 0
    BY <2>1, <2>6
  <2>8. L * f <= e
    BY <2>3, <2>6, <2>7
  <2>9. (L * f) * d <= D
    BY <1>1, <2>1, <2>8, Products
  <2> HIDE DEF D, N
  <2>10. ((L * f) * d) * Sig <= D * Sig
    <3>1. (L * f) * d \in Int
      BY <1>1, <2>1
    <3> QED
      BY <2>4, <2>9, <3>1, SigFacts, Products
  <2>11. D * Sig <= N * Sig + N /\ D * Sig \in Int /\ N * Sig \in Int
    BY <2>4, SigFacts
  <2>12. ((L * f) * d) * Sig = (L * Sig * d) * f
    BY <1>1, <2>1, SigFacts
  <2>13. N * Sig + N = (n * (Sig + 1)) * f
    BY <2>1, SigFacts DEF N
  <2>14. (L * Sig * d) * f <= (n * (Sig + 1)) * f
    <3>1. (L * Sig * d) * f \in Int /\ (n * (Sig + 1)) * f \in Int
      BY <1>1, <2>1
    <3> QED
      BY <2>10, <2>11, <2>12, <2>13, <3>1
  <2>15. n * (Sig + 1) \in Int
    BY <1>1
  <2>16. L * Sig * d <= n * (Sig + 1)
    BY <1>1, <2>1, <2>14, <2>15, Products
  <2> QED
    BY <2>16 DEF L
<1> QED
  BY <1>2, <1>3, RoundedIs

-----------------------------------------------------------------------------
LEMMA BlankIsNoUnit == Blank \notin {"KIB", "MIB", "GIB", "TIB", "KB", "MB", "GB", "TB", "B"}
BY Zenon DEF Blank

(* The unit of the text decides which entry of byteUnits is used. *)
LEMMA UnitFound ==
    ASSUME NEW text, text.tenths \in Int, NEW m \in ParseByteSize(text),
           NEW k \in 1..9, byteUnits[k].suffix = text.unit, text.unit # Blank,
           \A i \in 1..9 : byteUnits[i].suffix \in {text.unit, "B"} => k <= i
    PROVE  \E v \in Float(text.tenths, 10) : m \in RoundedToInt64(v.num * byteUnits[k].mult, v.den)
<1> DEFINE matching == {i \in DOMAIN byteUnits : byteUnits[i].suffix \in Endings(text.unit)}
<1>1. DOMAIN byteUnits = 1..9
  BY DEF byteUnits
<1>2. Endings(text.unit) = {text.unit, "B"}
  BY DEF Endings
<1>3. k \in matching /\ \A i \in matching : k <= i
  BY <1>1, <1>2
<1>4. matching \subseteq Int
  BY <1>1
<1>5. Min(matching) = k
  <2> HIDE DEF matching
  <2>1. \A x \in matching : (\A y \in matching : x <= y) => x = k
    BY <1>3, <1>4
  <2> QED
    BY <1>3, <2>1 DEF Min
<1>6. matching # {}
  BY <1>3
<1>7. byteUnits[Min(matching)].suffix = text.unit /\ byteUnits[Min(matching)].mult = byteUnits[k].mult
  BY <1>5
<1> QED
  BY <1>6, <1>7 DEF ParseByteSize

(* What StartsAsConfigured says of a size that was read as m bytes. *)
ReadAs(text, m) ==
    LET w == Written(text)
    IN  /\ ReadExactly(text) => w = 10 * m
        /\ (m = MaxInt /\ w >= 10 * (MaxInt + 1)) \/ CutFrom(m, w)

(* A size that is read and positive is the one written, up to rounding. *)
LEMMA SizeAsWritten ==
    ASSUME NEW text, text.tenths \in Int, NEW m \in ParseByteSize(text)
    PROVE  m \in Int /\ (m > 0 => ReadAs(text, m))
<1>0. text.tenths \in Int
  OBVIOUS
<1>1. /\ Kilo \in Nat \ {0} /\ Kilo * Kilo \in Nat \ {0} /\ Kilo * Kilo * Kilo \in Nat \ {0}
      /\ Kilo * Kilo * Kilo * Kilo \in Nat \ {0}
      /\ Kibi \in Nat \ {0} /\ Kibi * Kibi \in Nat \ {0} /\ Kibi * Kibi * Kibi \in Nat \ {0}
      /\ Kibi * Kibi * Kibi * Kibi \in Nat \ {0}
  BY ConfigAssumption, Products
<1>2. /\ byteUnits[1] = [suffix |-> "KIB", mult |-> Kibi]
      /\ byteUnits[2] = [suffix |-> "MIB", mult |-> Kibi * Kibi]
      /\ byteUnits[3] = [suffix |-> "GIB", mult |-> Kibi * Kibi * Kibi]
      /\ byteUnits[4] = [suffix |-> "TIB", mult |-> Kibi * Kibi * Kibi * Kibi]
      /\ byteUnits[5] = [suffix |-> "KB", mult |-> Kilo]
      /\ byteUnits[6] = [suffix |-> "MB", mult |-> Kilo * Kilo]
      /\ byteUnits[7] = [suffix |-> "GB", mult |-> Kilo * Kilo * Kilo]
      /\ byteUnits[8] = [suffix |-> "TB", mult |-> Kilo * Kilo * Kilo * Kilo]
      /\ byteUnits[9] = [suffix |-> "B", mult |-> 1]
  BY DEF byteUnits
<1>4. ASSUME NEW k \in 1..9, text.unit = byteUnits[k].suffix
      PROVE  Written(text) = text.tenths * byteUnits[k].mult
  <2>1. CASE k \in {1, 2, 3, 4}
    BY <1>2, <1>4, <2>1 DEF Written
  <2>2. CASE k \in {5, 6, 7, 8}
    BY <1>2, <1>4, <2>2 DEF Written
  <2>3. CASE k = 9
    BY <1>2, <1>4, <2>3 DEF Written
  <2> QED
    BY <2>1, <2>2, <2>3
<1>3. ASSUME NEW k \in 1..9, text.unit = byteUnits[k].suffix
      PROVE  m \in Int /\ (m > 0 => ReadAs(text, m))
  <2>1. text.unit # Blank
    BY <1>2, <1>3, BlankIsNoUnit
  <2>2. \A i \in 1..9 : i # k => byteUnits[i].suffix # byteUnits[k].suffix
    BY <1>2
  <2>3. \A i \in 1..9 : byteUnits[i].suffix = "B" => i = 9
    BY <1>2
  <2>4. \A i \in 1..9 : byteUnits[i].suffix \in {text.unit, "B"} => k <= i
    BY <1>3, <2>2, <2>3
  <2>5. PICK v \in Float(text.tenths, 10) : m \in RoundedToInt64(v.num * byteUnits[k].mult, v.den)
    BY <1>3, <2>1, <2>4, UnitFound
  <2> DEFINE t == text.tenths
             M == byteUnits[k].mult
  <2>6. t \in Int /\ M \in Nat \ {0}
    BY <1>0, <1>1, <1>2
  <2>7. Written(text) = t * M
    BY <1>3, <1>4
  <2> HIDE DEF t, M
  <2>8. v \in Float(t, 10) /\ m \in RoundedToInt64(v.num * M, v.den)
    BY <2>5 DEF t, M
  <2>9. /\ m \in Int
        /\ m > 0 =>
             /\ t % 10 = 0 /\ t * M < 10 * Sig => t * M = 10 * m
             /\ (m = MaxInt /\ t * M >= 10 * (MaxInt + 1)) \/ CutFrom(m, t * M)
    BY <2>6, <2>8, SizeRounded
  <2>10. ReadExactly(text) => t % 10 = 0 /\ t * M < 10 * Sig
    BY <2>1, <2>7 DEF ReadExactly, t
  <2> QED
    BY <2>7, <2>9, <2>10 DEF ReadAs
<1>5. CASE text.unit = Blank
  <2>1. Endings(text.unit) = {}
    BY <1>5 DEF Endings
  <2>2. {i \in DOMAIN byteUnits : byteUnits[i].suffix \in Endings(text.unit)} = {}
    BY <2>1
  <2>3. m = text.tenths \div 10 /\ text.tenths % 10 = 0
    BY <1>0, <2>2 DEF ParseByteSize
  <2>4. Written(text) = text.tenths * 1
    BY <1>5, BlankIsNoUnit DEF Written
  <2>5. m \in Int /\ Written(text) = 10 * m
    BY <1>0, <2>3, <2>4
  <2>6. m > 0 => CutFrom(m, 10 * m)
    <3> SUFFICES ASSUME m > 0 PROVE CutFrom(m, 10 * m)
      OBVIOUS
    <3>1. /\ (10 * m) * (Sig + 3) = 10 * m * Sig + 30 * m /\ (10 * m) * (Sig - 3) = 10 * m * Sig - 30 * m
          /\ 10 * (m + 1) * Sig = 10 * m * Sig + 10 * Sig /\ 10 * m * Sig \in Int
      BY <2>5, SigFacts
    <3> QED
      BY <2>5, <3>1, SigFacts DEF CutFrom
  <2> QED
    BY <2>5, <2>6 DEF ReadAs
<1>6. CASE text.unit # Blank /\ \A k \in 1..9 : text.unit # byteUnits[k].suffix
  <2>1. DOMAIN byteUnits = 1..9
    BY DEF byteUnits
  <2> DEFINE matching == {i \in DOMAIN byteUnits : byteUnits[i].suffix \in Endings(text.unit)}
  <2>2. matching = {9}
    BY <1>2, <1>6, <2>1 DEF Endings
  <2>3. Min(matching) = 9
    BY <2>2 DEF Min
  <2>4. byteUnits[9].suffix # text.unit
    BY <1>6
  <2> QED
    BY <2>2, <2>3, <2>4 DEF ParseByteSize
<1> QED
  BY <1>3, <1>5, <1>6

(* A configuration that was parsed is the one written, and valid. *)
LEMMA ParsedConfig ==
    ASSUME NEW in \in Inputs, NEW c \in Parse(in.doc)
    PROVE  LET raw == Decoded(in.doc)
           IN  /\ c.policy = raw.policy /\ c.rate = raw.rate
               /\ c.capacity > 0 /\ ReadAs(raw.capacity, c.capacity)
               /\ raw.rate \in [nan : BOOLEAN, num : Int, den : Nat \ {0}]
               /\ ~BadRate(raw.rate)
<1> DEFINE raw == Decoded(in.doc)
<1>1. /\ DOMAIN raw = DOMAIN Default
      /\ \A f \in DOMAIN Default : raw[f] = IF f \in DOMAIN in.doc THEN in.doc[f] ELSE Default[f]
  BY DEF Decoded
<1>2. {"capacity", "rate", "policy"} \subseteq DOMAIN Default
  BY DEF Default
<1>3. raw.capacity.tenths \in Int
  <2>1. Default["capacity"].tenths \in Int
    BY DEF Default
  <2> QED
    BY <1>1, <1>2, <2>1, InputsAssumption
<1>4. raw.rate \in [nan : BOOLEAN, num : Int, den : Nat \ {0}]
  <2>1. Default["rate"] \in [nan : BOOLEAN, num : Int, den : Nat \ {0}]
    BY DEF Default
  <2> QED
    BY <1>1, <1>2, <2>1, InputsAssumption
<1>5. PICK n \in ParseByteSize(raw.capacity) : c = [raw EXCEPT !["capacity"] = n] /\ Validate(c) = {}
  BY DEF Parse
<1>6. c["capacity"] = n /\ c["policy"] = raw["policy"] /\ c["rate"] = raw["rate"]
  <2> HIDE DEF raw
  <2> QED
    BY <1>1, <1>2, <1>5
<1>7. ~(c["capacity"] <= 0)
  BY <1>5 DEF Validate
<1>8. ~BadRate(c["rate"])
  BY <1>5 DEF Validate
<1>9. n \in Int /\ (n > 0 => ReadAs(raw.capacity, n))
  <2> HIDE DEF raw
  <2> QED
    BY <1>3, SizeAsWritten
<1> HIDE DEF raw
<1>10. n > 0
  BY <1>6, <1>7, <1>9
<1> QED
  BY <1>4, <1>6, <1>8, <1>9, <1>10 DEF raw

(* A valid rate whose interval is not positive is not a number, or its     *)
(* period rounds to something beyond int64.                                *)
LEMMA BadInterval ==
    ASSUME NEW rate \in [nan : BOOLEAN, num : Int, den : Nat \ {0}], ~BadRate(rate),
           NEW d \in FrameInterval(rate), ~(d > 0)
    PROVE  rate.nan \/ Second * rate.den * (Sig + 1) >= (MaxInt + 1) * Sig * rate.num
<1> SUFFICES ASSUME ~rate.nan PROVE Second * rate.den * (Sig + 1) >= (MaxInt + 1) * Sig * rate.num
  OBVIOUS
<1>1. /\ rate.num \in Nat \ {0} /\ rate.den \in Nat \ {0}
      /\ ~(rate.num > MaxFrameRateHz * rate.den)
  BY DEF BadRate
<1> DEFINE p == Second * rate.den
           g == rate.num
<1>2. Second \in Nat \ {0} /\ MaxFrameRateHz \in Nat /\ 2 * MaxFrameRateHz <= Second
  BY ConfigAssumption
<1>3. p \in Nat \ {0} /\ 2 * g <= p /\ g \in Nat \ {0}
  <2>1. (2 * MaxFrameRateHz) * rate.den <= Second * rate.den
    BY <1>1, <1>2, Products
  <2>2. MaxFrameRateHz * rate.den \in Nat /\ p \in Nat \ {0}
    BY <1>1, <1>2, Products
  <2>3. (2 * MaxFrameRateHz) * rate.den = 2 * (MaxFrameRateHz * rate.den)
    BY <1>1, <1>2
  <2>4. 2 * (MaxFrameRateHz * rate.den) <= p
    BY <2>1, <2>3
  <2> HIDE DEF p
  <2> QED
    BY <1>1, <2>2, <2>4
<1>4. d \in RoundedToInt64(p, g)
  BY <1>1 DEF FrameInterval
<1> HIDE DEF p, g
<1>5. (MaxInt + 1) * Sig * g <= p * (Sig + 1)
  BY <1>3, <1>4, IntervalRounded
<1>6. (MaxInt + 1) * Sig * g \in Int /\ p * (Sig + 1) \in Int
  BY <1>3, SigFacts, IntFacts
<1>7. p * (Sig + 1) >= (MaxInt + 1) * Sig * g
  BY <1>5, <1>6
<1> QED
  BY <1>7 DEF p, g

(* What every other step leaves of the configuration. *)
Settled ==
    /\ UNCHANGED startVars
    /\ pc' = pc \/ (pc \notin Early /\ pc' # "policy")
    /\ exit' = exit \/ exit' # "panic"
    /\ Len(log') # 0 => Len(log) # 0 \/ pc \notin Early

LEMMA SettledSteps ==
    ASSUME DemoInv,
           \/ Start \/ Spawn \/ TakeTick \/ FrameStats \/ FrameSeq \/ Encode \/ EncodeFails
           \/ PublishEnd \/ Cancel \/ Close \/ Exit \/ TakeDone \/ ContextEnds \/ Tick \/ Generate \/ Drain
           \/ UNCHANGED vars
    PROVE  Settled
<1> USE DEF Settled, startVars, Early
<1>1. CASE Start \/ Spawn \/ TakeTick \/ FrameStats \/ FrameSeq \/ Encode \/ EncodeFails
  BY <1>1 DEF Start, Spawn, TakeTick, FrameStats, FrameSeq, Encode, EncodeFails
<1>2. CASE PublishEnd \/ Cancel \/ Close \/ Exit \/ TakeDone \/ ContextEnds \/ Tick \/ Drain \/ UNCHANGED vars
  BY <1>2 DEF PublishEnd, Cancel, Close, Exit, TakeDone, ContextEnds, Tick, Drain, vars
<1>3. CASE Generate
  <2>1. Len(log) = 0 => gen = "off"
    BY DEF DemoInv, PhaseInv
  <2>2. gen # "off" /\ UNCHANGED mainVars
    BY <1>3 DEF Generate, Generates, GenReturn, GenRound, GenGet, GenLookup, GenPublish, GenPut, GenEvict,
                GenInsert, GenRefused
  <2> QED
    BY <2>1, <2>2 DEF mainVars
<1> QED
  BY <1>1, <1>2, <1>3

LEMMA ConfigInductive ==
    ASSUME DemoInv, ConfigInv, [Next]_vars
    PROVE  ConfigInv'
<1>1. CASE Load
  <2>1. pc = "load" /\ cfg' \in Parse(doc) /\ pc' = "policy" /\ doc' = doc /\ log' = log /\ exit' = exit
    BY <1>1 DEF Load
  <2>2. Len(log) = 0 /\ exit = "none"
    BY <2>1 DEF DemoInv, PhaseInv
  <2> QED
    BY <2>1, <2>2 DEF ConfigInv, Early
<1>2. CASE ResolvePolicy
  <2>1. /\ pc = "policy" /\ pc' = "start" /\ log' = log /\ exit' = exit /\ UNCHANGED <<doc, flag, cfg>>
        /\ policy' = PolicyName /\ PolicyName \in Registered \cup {PolicyNone}
    BY <1>2 DEF ResolvePolicy, IsKnown
  <2>2. PolicyName' = PolicyName
    BY <2>1 DEF PolicyName
  <2>3. Configured' /\ exit = "none"
    BY <2>1, <2>2 DEF ConfigInv, Configured, DemoInv, PhaseInv
  <2> QED
    BY <2>1, <2>3 DEF ConfigInv
<1>3. CASE LoadFails \/ UnknownPolicy
  <2>1. pc \in {"load", "policy"} /\ pc' = "exited" /\ exit' = "error" /\ log' = log /\ UNCHANGED startVars
    BY <1>3 DEF LoadFails, UnknownPolicy, Fail
  <2>2. Len(log) = 0
    BY <2>1 DEF DemoInv, PhaseInv
  <2> QED
    BY <2>1, <2>2 DEF ConfigInv, Early, startVars
<1>4. CASE NewTicker
  <2>1. /\ pc = "ticker" /\ pc' \notin Early /\ log' = log /\ UNCHANGED startVars
        /\ exit' = exit \/ (exit' = "panic" /\ \E d \in FrameInterval(cfg.rate) : ~(d > 0))
    BY <1>4 DEF NewTicker, Early
  <2>2. Configured /\ Configured'
    BY <2>1 DEF ConfigInv, Configured, Early, startVars, PolicyName
  <2>3. exit = "none"
    BY <2>1 DEF DemoInv, PhaseInv
  <2> QED
    BY <2>1, <2>2, <2>3 DEF ConfigInv, Early, startVars
<1>5. CASE Settled
  <2>1. Configured => Configured'
    BY <1>5 DEF Settled, startVars, Configured, PolicyName
  <2> QED
    BY <1>5, <2>1 DEF Settled, startVars, ConfigInv, Early
<1> QED
  BY <1>1, <1>2, <1>3, <1>4, <1>5, SettledSteps DEF Next, Main

(* StartsAsConfigured for every configuration file, flag, word size,       *)
(* mantissa length and set of registered policies: main starts with what   *)
(* was written, exactly or up to two roundings and a truncation, and the   *)
(* ticker panics only for a rate Validate should have refused (main.go:    *)
(* 44-64, 93; config.go:40-77, 191-197; validate.go:54).                   *)
THEOREM DemoStartsAsConfigured == Spec => []StartsAsConfigured
<1>1. Init => ConfigInv
  <2> SUFFICES ASSUME Init PROVE ConfigInv
    OBVIOUS
  <2>1. Len(log) = 0
    BY EmptySeq DEF Init
  <2> QED
    BY <2>1 DEF Init, ConfigInv, Early
<1>2. ASSUME DemoInv, ConfigInv PROVE StartsAsConfigured
  <2>1. PICK in \in Inputs : doc = in.doc
    BY <1>2 DEF ConfigInv
  <2>2. log # << >> => Configured
    BY <1>2, EmptySeq DEF DemoInv, TypeInv, ConfigInv
  <2>3. ASSUME Configured PROVE cfg.policy = Decoded(doc).policy /\ cfg.rate = Decoded(doc).rate
    BY <2>1, <2>3, ParsedConfig DEF Configured
  <2>4. ASSUME Configured
        PROVE  /\ policy = (IF flag # Blank THEN flag ELSE Decoded(doc).policy)
               /\ policy \in Registered \cup {PolicyNone}
               /\ cfg.capacity > 0 /\ ReadAs(Decoded(doc).capacity, cfg.capacity)
    BY <2>1, <2>3, <2>4, ParsedConfig DEF Configured, PolicyName
  <2>5. ASSUME exit = "panic"
        PROVE  LET rate == Decoded(doc).rate
               IN  rate.nan \/ Second * rate.den * (Sig + 1) >= (MaxInt + 1) * Sig * rate.num
    <3>1. Configured /\ \E d \in FrameInterval(cfg.rate) : ~(d > 0)
      BY <1>2, <2>5 DEF ConfigInv
    <3>2. PICK d \in FrameInterval(Decoded(doc).rate) : ~(d > 0)
      BY <2>3, <3>1
    <3>3. Decoded(doc).rate \in [nan : BOOLEAN, num : Int, den : Nat \ {0}] /\ ~BadRate(Decoded(doc).rate)
      BY <2>1, <3>1, ParsedConfig DEF Configured
    <3> QED
      BY <3>2, <3>3, BadInterval
  <2> QED
    BY <2>2, <2>4, <2>5 DEF StartsAsConfigured, ReadAs
<1> QED
  BY <1>1, <1>2, ConfigInductive, DemoInvariant, PTL DEF Spec
=============================================================================
