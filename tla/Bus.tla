-------------------------------- MODULE Bus --------------------------------
(***************************************************************************)
(* The event bus (events/bus.go): goroutines publish to subscribers that   *)
(* own a bounded Go channel each.  Publish holds the read lock of b.mu     *)
(* while it goes through the subscribers one by one, so publishers         *)
(* interleave; Subscribe, Unsubscribe and Close hold the write lock, so    *)
(* each is one action.  Consumers receive at any time or never.            *)
(*                                                                         *)
(* Events are abstracted to their type, and a channel's buffer to how many *)
(* events are in it.                                                       *)
(***************************************************************************)
EXTENDS Integers, FiniteSets, SequencesExt

CONSTANTS
    Publishers,   \* goroutines that publish
    Names,        \* subscriber names
    Types,        \* event types
    Unknown,      \* an event type past maxType, which no filter can hold
    Buffers,      \* buf arguments of Subscribe
    Filters,      \* types arguments of Subscribe
    MaxEvents,    \* bound on the number of Publish calls
    MaxSubs       \* bound on the number of Subscribe calls

VARIABLES
    chans,        \* every subscriber ever made, by number
    subs,         \* name -> its subscriber (MemBus.subs)
    order,        \* registered subscribers in delivery order (MemBus.order)
    closed,       \* MemBus.closed
    pc,           \* publishers: "idle", or "publish" with the read lock held
    event,        \* the event type being published
    todo,         \* subscribers that publisher has not reached yet
    published,    \* number of Publish calls so far
    panicked      \* a send on, or a close of, a closed channel happened

vars == <<chans, subs, order, closed, pc, event, todo, published, panicked>>

ASSUME BusAssumption ==
    /\ Unknown \in Types /\ Filters \subseteq SUBSET Types
    /\ IsFiniteSet(Publishers) /\ Buffers \subseteq Int /\ MaxEvents \in Nat /\ MaxSubs \in Nat

ReadLocked == \E t \in Publishers : pc[t] = "publish"

(* A subscriber without types wants every event. *)
wants(s, e) == s.all \/ e \in s.filter

-----------------------------------------------------------------------------
Init ==
    /\ chans = << >> /\ subs = << >> /\ order = << >>
    /\ closed = FALSE
    /\ pc = [t \in Publishers |-> "idle"]
    /\ event = [t \in Publishers |-> Unknown]
    /\ todo = [t \in Publishers |-> << >>]
    /\ published = 0
    /\ panicked = FALSE

(* RLock and the closed check.  offered is a history variable: the wanted  *)
(* events published while the subscriber was registered.                   *)
Publish(t, e) ==
    /\ pc[t] = "idle" /\ published < MaxEvents
    /\ published' = published + 1
    /\ IF closed
         THEN UNCHANGED <<chans, pc, event, todo>>
         ELSE /\ pc' = [pc EXCEPT ![t] = "publish"]
              /\ event' = [event EXCEPT ![t] = e]
              /\ todo' = [todo EXCEPT ![t] = order]
              /\ chans' = [i \in DOMAIN chans |->
                             IF i \in ToSet(order) /\ wants(chans[i], e)
                             THEN [chans[i] EXCEPT !.offered = @ + 1] ELSE chans[i]]
    /\ UNCHANGED <<subs, order, closed, panicked>>

(* Mutant of Sent: a dropped event is not counted. *)
SentUncounted(s) ==
    IF s.waiting THEN [s EXCEPT !.waiting = FALSE, !.got = @ + 1]
    ELSE IF s.queued < s.cap THEN [s EXCEPT !.queued = @ + 1]
    ELSE s

(* The select with a default: hand over to a blocked receiver, buffer, or  *)
(* drop and count.                                                         *)
Sent(s) ==
    IF s.waiting THEN [s EXCEPT !.waiting = FALSE, !.got = @ + 1]
    ELSE IF s.queued < s.cap THEN [s EXCEPT !.queued = @ + 1]
    ELSE [s EXCEPT !.dropped = @ + 1]

(* Mutant of Deliver: the send has no default and waits for room. *)
DeliverBlocking(t) ==
    LET i == Head(todo[t])
    IN  /\ pc[t] = "publish" /\ todo[t] # << >>
        /\ wants(chans[i], event[t]) => chans[i].waiting \/ chans[i].queued < chans[i].cap
        /\ chans' = IF wants(chans[i], event[t]) THEN [chans EXCEPT ![i] = Sent(@)] ELSE chans
        /\ todo' = [todo EXCEPT ![t] = Tail(@)]
        /\ UNCHANGED <<subs, order, closed, pc, event, published, panicked>>

(* One round of Publish's loop. *)
Deliver(t) ==
    LET i == Head(todo[t])
    IN  /\ pc[t] = "publish" /\ todo[t] # << >>
        /\ chans' = IF wants(chans[i], event[t]) THEN [chans EXCEPT ![i] = Sent(@)] ELSE chans
        /\ panicked' = (panicked \/ (wants(chans[i], event[t]) /\ ~chans[i].open))
        /\ todo' = [todo EXCEPT ![t] = Tail(@)]
        /\ UNCHANGED <<subs, order, closed, pc, event, published>>

(* The deferred RUnlock. *)
PublishEnd(t) ==
    /\ pc[t] = "publish" /\ todo[t] = << >>
    /\ pc' = [pc EXCEPT ![t] = "idle"]
    /\ event' = [event EXCEPT ![t] = Unknown]
    /\ UNCHANGED <<chans, subs, order, closed, todo, published, panicked>>

-----------------------------------------------------------------------------
(* close wakes a blocked receiver; what is buffered can still be received. *)
Closed(s) == [s EXCEPT !.open = FALSE, !.waiting = FALSE]

(* removeLocked: what is left of the bus without the named subscriber. *)
removeLocked(name) ==
    IF name \in DOMAIN subs
    THEN [chans |-> [chans EXCEPT ![subs[name]] = Closed(@)],
          subs  |-> [x \in DOMAIN subs \ {name} |-> subs[x]],
          order |-> RemoveFirst(order, subs[name]),
          panic |-> ~chans[subs[name]].open]
    ELSE [chans |-> chans, subs |-> subs, order |-> order, panic |-> FALSE]

(* The subscriber built from the arguments of Subscribe. *)
subscriber(buf, types) ==
    [cap |-> IF buf < 0 THEN 0 ELSE buf, all |-> types = {}, filter |-> types \ {Unknown},
     queued |-> 0, waiting |-> FALSE, open |-> TRUE, dropped |-> 0, got |-> 0, offered |-> 0]

(* Mutant of Subscribe: an earlier subscriber of that name is not removed. *)
SubscribeKeepsOld(name, buf, types) ==
    LET s  == subscriber(buf, types)
        id == Len(chans) + 1
    IN  /\ ~ReadLocked /\ Len(chans) < MaxSubs
        /\ IF closed
             THEN chans' = Append(chans, Closed(s)) /\ UNCHANGED <<subs, order, panicked>>
             ELSE /\ chans' = Append(chans, s)
                  /\ subs' = [x \in DOMAIN subs \cup {name} |-> IF x = name THEN id ELSE subs[x]]
                  /\ order' = Append(order, id)
                  /\ UNCHANGED panicked
        /\ UNCHANGED <<closed, pc, event, todo, published>>

Subscribe(name, buf, types) ==
    LET s  == subscriber(buf, types)
        id == Len(chans) + 1
        r  == removeLocked(name)
    IN  /\ ~ReadLocked /\ Len(chans) < MaxSubs
        /\ IF closed
             THEN chans' = Append(chans, Closed(s)) /\ UNCHANGED <<subs, order, panicked>>
             ELSE /\ chans' = Append(r.chans, s)
                  /\ subs' = [x \in DOMAIN r.subs \cup {name} |-> IF x = name THEN id ELSE r.subs[x]]
                  /\ order' = Append(r.order, id)
                  /\ panicked' = (panicked \/ r.panic)
        /\ UNCHANGED <<closed, pc, event, todo, published>>

(* Mutant of Unsubscribe: it does not wait for publishers to be done. *)
UnsubscribeUnlocked(name) ==
    LET r == removeLocked(name)
    IN  /\ chans' = r.chans /\ subs' = r.subs /\ order' = r.order
        /\ panicked' = (panicked \/ r.panic)
        /\ UNCHANGED <<closed, pc, event, todo, published>>

Unsubscribe(name) ==
    LET r == removeLocked(name)
    IN  /\ ~ReadLocked
        /\ chans' = r.chans /\ subs' = r.subs /\ order' = r.order
        /\ panicked' = (panicked \/ r.panic)
        /\ UNCHANGED <<closed, pc, event, todo, published>>

Close ==
    /\ ~ReadLocked /\ ~closed
    /\ closed' = TRUE
    /\ chans' = [i \in DOMAIN chans |-> IF i \in ToSet(order) THEN Closed(chans[i]) ELSE chans[i]]
    /\ panicked' = (panicked \/ \E i \in ToSet(order) : ~chans[i].open)
    /\ subs' = << >> /\ order' = << >>
    /\ UNCHANGED <<pc, event, todo, published>>

-----------------------------------------------------------------------------
(* A consumer takes a buffered event, or blocks on an empty open channel.  *)
Receive(i) ==
    /\ chans[i].queued > 0
    /\ chans' = [chans EXCEPT ![i].queued = @ - 1, ![i].got = @ + 1]
    /\ UNCHANGED <<subs, order, closed, pc, event, todo, published, panicked>>

Wait(i) ==
    /\ chans[i].queued = 0 /\ chans[i].open /\ ~chans[i].waiting
    /\ chans' = [chans EXCEPT ![i].waiting = TRUE]
    /\ UNCHANGED <<subs, order, closed, pc, event, todo, published, panicked>>

Next ==
    \/ \E t \in Publishers : (\E e \in Types : Publish(t, e)) \/ Deliver(t) \/ PublishEnd(t)
    \/ \E name \in Names : Unsubscribe(name)
    \/ \E name \in Names, buf \in Buffers, types \in Filters : Subscribe(name, buf, types)
    \/ \E i \in DOMAIN chans : Receive(i) \/ Wait(i)
    \/ Close

(* A publisher in its loop is eventually scheduled; nothing is assumed of  *)
(* the consumers.                                                          *)
Spec == Init /\ [][Next]_vars /\ \A t \in Publishers : WF_vars(Deliver(t) \/ PublishEnd(t))

-----------------------------------------------------------------------------
(* NeverPanics: no event is sent on a closed channel and no channel is     *)
(* closed twice, whatever subscribers come and go while others publish     *)
(* (bus.go:160-162, 175).                                                  *)
NeverPanics == ~panicked

(* OpenIffRegistered: the channels that are open are exactly the ones the  *)
(* bus will deliver to and close, so no consumer is left waiting on a      *)
(* forgotten channel, in particular after Close or after a name is taken   *)
(* over (bus.go:96-97, 113-122, 146-158).                                  *)
OpenIffRegistered ==
    /\ {i \in DOMAIN chans : chans[i].open} = ToSet(order)
    /\ ToSet(order) = {subs[x] : x \in DOMAIN subs}
    /\ Len(order) = Cardinality(DOMAIN subs)

(* EveryEventAccounted: each event a subscriber wants is received, in its  *)
(* buffer, counted as dropped, or still to be delivered by a publisher     *)
(* (bus.go:50-58, "acceptable, counted failure").                          *)
EveryEventAccounted ==
    \A i \in DOMAIN chans :
       chans[i].offered = chans[i].got + chans[i].queued + chans[i].dropped
           + Cardinality({t \in Publishers : i \in ToSet(todo[t]) /\ wants(chans[i], event[t])})

(* PublishReturns: Publish never blocks, even if no consumer ever receives *)
(* (bus.go:70-72).                                                         *)
PublishReturns == \A t \in Publishers : pc[t] = "publish" ~> pc[t] = "idle"
=============================================================================
