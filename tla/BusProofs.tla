----------------------------- MODULE BusProofs -----------------------------
(***************************************************************************)
(* Proofs about the event bus, for any finite set of publishers and any    *)
(* names, types and buffer sizes: it never panics, it closes what it       *)
(* forgets and nothing else, and it accounts for every event.              *)
(***************************************************************************)
EXTENDS Bus, BasicLemmas, FunctionTheorems

Sub == [cap : Nat, all : BOOLEAN, filter : SUBSET Types, queued : Nat, waiting : BOOLEAN,
        open : BOOLEAN, dropped : Nat, got : Nat, offered : Nat]

TypeInv ==
    /\ chans \in Seq(Sub) /\ order \in Seq(Nat)
    /\ subs \in [DOMAIN subs -> Nat]
    /\ pc \in [Publishers -> {"idle", "publish"}]
    /\ event \in [Publishers -> Types]
    /\ todo \in [Publishers -> Seq(Nat)]

(* The open channels are the registered ones, each registered once and     *)
(* under one name.                                                         *)
Registered(c, s, o) ==
    /\ Distinct(o)
    /\ \A i \in Nat : i \in ToSet(o) <=> i \in 1..Len(c) /\ c[i].open
    /\ \A i \in Nat : i \in ToSet(o) <=> \E x \in DOMAIN s : s[x] = i
    /\ \A x, y \in DOMAIN s : s[x] = s[y] => x = y

(* What a publisher has still to do is registered, and is nothing unless   *)
(* it holds the read lock.                                                 *)
TodoInv ==
    \A t \in Publishers :
       /\ Distinct(todo[t]) /\ ToSet(todo[t]) \subseteq ToSet(order)
       /\ pc[t] = "idle" => todo[t] = << >>

BusInv ==
    /\ TypeInv /\ Registered(chans, subs, order) /\ TodoInv
    /\ NeverPanics /\ EveryEventAccounted

(* The events counted for a subscriber. *)
Counted(s) == s.got + s.queued + s.dropped

(* The publishers that still have to deliver to subscriber i. *)
Pending(i) == {t \in Publishers : i \in ToSet(todo[t]) /\ wants(chans[i], event[t])}

-----------------------------------------------------------------------------
(* Sending counts one event more and changes neither filter nor channel. *)
LEMMA SentFacts ==
    ASSUME NEW s \in Sub
    PROVE  /\ Sent(s) \in Sub /\ Counted(Sent(s)) = Counted(s) + 1
           /\ Sent(s).offered = s.offered /\ Sent(s).open = s.open
           /\ Sent(s).all = s.all /\ Sent(s).filter = s.filter
<1>1. CASE s.waiting
  <2>1. Sent(s) = [s EXCEPT !.waiting = FALSE, !.got = @ + 1]
    BY <1>1 DEF Sent
  <2>2. Sent(s) \in Sub
    <3>1. s.got + 1 \in Nat
      BY DEF Sub
    <3> QED
      BY <2>1, <3>1 DEF Sub
  <2>3. /\ Sent(s).got = s.got + 1 /\ Sent(s).queued = s.queued /\ Sent(s).dropped = s.dropped
        /\ Sent(s).offered = s.offered /\ Sent(s).open = s.open
        /\ Sent(s).all = s.all /\ Sent(s).filter = s.filter
    BY <2>1 DEF Sub
  <2>4. Counted(Sent(s)) = Counted(s) + 1
    BY <2>3 DEF Counted, Sub
  <2> QED
    BY <2>2, <2>3, <2>4
<1>2. CASE ~s.waiting /\ s.queued < s.cap
  BY <1>2 DEF Sub, Sent, Counted
<1>3. CASE ~s.waiting /\ ~(s.queued < s.cap)
  BY <1>3 DEF Sub, Sent, Counted
<1> QED
  BY <1>1, <1>2, <1>3

(* Closing a channel counts nothing. *)
LEMMA ClosedFacts ==
    ASSUME NEW s \in Sub
    PROVE  /\ Closed(s) \in Sub /\ Counted(Closed(s)) = Counted(s)
           /\ Closed(s).offered = s.offered /\ Closed(s).open = FALSE
BY DEF Sub, Closed, Counted

(* A new subscriber has seen no event. *)
LEMMA SubscriberFacts ==
    ASSUME NEW buf \in Buffers, NEW types \in Filters
    PROVE  /\ subscriber(buf, types) \in Sub /\ subscriber(buf, types).open = TRUE
           /\ subscriber(buf, types).offered = Counted(subscriber(buf, types))
<1>1. buf \in Int /\ types \in SUBSET Types
  BY BusAssumption
<1> QED
  BY <1>1 DEF subscriber, Sub, Counted

(* The account of EveryEventAccounted, by subscriber. *)
LEMMA AccountIsPending ==
    EveryEventAccounted <=>
      \A i \in DOMAIN chans : chans[i].offered = Counted(chans[i]) + Cardinality(Pending(i))
BY DEF EveryEventAccounted, Counted, Pending

(* While nobody holds the read lock no delivery is pending. *)
LEMMA QuietFacts ==
    ASSUME BusInv, ~ReadLocked
    PROVE  /\ \A t \in Publishers : todo[t] = << >>
           /\ \A i \in DOMAIN chans : chans[i].offered = Counted(chans[i])
<1>1. \A t \in Publishers : todo[t] = << >>
  BY DEF BusInv, TypeInv, TodoInv, ReadLocked
<1>2. \A i : Pending(i) = {}
  BY <1>1 DEF Pending, ToSet
<1>3. ASSUME NEW i \in DOMAIN chans PROVE chans[i].offered = Counted(chans[i])
  <2>1. chans[i].offered = Counted(chans[i]) + 0
    BY <1>2, FS_EmptySet, AccountIsPending DEF BusInv
  <2>2. chans[i] \in Sub
    BY LenProperties, ElementOfSeq DEF BusInv, TypeInv
  <2> QED
    BY <2>1, <2>2 DEF Sub, Counted
<1> QED
  BY <1>1, <1>3

(* A step under the write lock keeps the account if every subscriber has   *)
(* counted what it was offered.                                            *)
LEMMA QuietStep ==
    ASSUME BusInv, ~ReadLocked, pc' = pc, event' = event, todo' = todo,
           chans' \in Seq(Sub), order' \in Seq(Nat), subs' \in [DOMAIN subs' -> Nat],
           Registered(chans, subs, order)', ~panicked',
           \A i \in DOMAIN chans' : chans'[i].offered = Counted(chans'[i])
    PROVE  BusInv'
<1>1. \A t \in Publishers : todo'[t] = << >>
  BY QuietFacts
<1>2. TypeInv' /\ NeverPanics'
  BY DEF BusInv, TypeInv, NeverPanics
<1>3. TodoInv'
  BY <1>1, EmptySeq DEF TodoInv, Distinct, ToSet
<1>4. \A i : Pending(i)' = {}
  BY <1>1 DEF Pending, ToSet
<1>5. ASSUME NEW i \in DOMAIN chans'
      PROVE  chans'[i].offered = Counted(chans'[i]) + Cardinality(Pending(i)')
  <2>1. chans'[i] \in Sub
    BY LenProperties, ElementOfSeq
  <2>2. Counted(chans'[i]) + 0 = Counted(chans'[i])
    BY <2>1 DEF Sub, Counted
  <2> QED
    BY <1>4, <2>2, FS_EmptySet
<1>6. EveryEventAccounted'
  BY <1>5 DEF EveryEventAccounted, Counted, Pending
<1> QED
  BY <1>2, <1>3, <1>6 DEF BusInv

(* What removeLocked leaves: the named subscriber is closed, taken out of  *)
(* the order and forgotten, and nothing is closed twice.                   *)
LEMMA RemoveLockedFacts ==
    ASSUME BusInv, ~ReadLocked, NEW name, NEW r, r = removeLocked(name)
    PROVE  /\ r.chans \in Seq(Sub) /\ Len(r.chans) = Len(chans)
           /\ r.order \in Seq(Nat) /\ r.subs \in [DOMAIN r.subs -> Nat] /\ name \notin DOMAIN r.subs
           /\ r.panic = FALSE
           /\ Registered(r.chans, r.subs, r.order)
           /\ \A i \in 1..Len(chans) : r.chans[i].offered = Counted(r.chans[i])
<1>0. /\ chans \in Seq(Sub) /\ order \in Seq(Nat) /\ subs \in [DOMAIN subs -> Nat]
      /\ Registered(chans, subs, order) /\ Len(chans) \in Nat /\ DOMAIN chans = 1..Len(chans)
      /\ \A i \in 1..Len(chans) : chans[i] \in Sub /\ chans[i].offered = Counted(chans[i])
  BY QuietFacts, LenProperties, ElementOfSeq DEF BusInv, TypeInv
<1>1. CASE name \notin DOMAIN subs
  <2>1. r = [chans |-> chans, subs |-> subs, order |-> order, panic |-> FALSE]
    BY <1>1 DEF removeLocked
  <2>2. r.chans = chans /\ r.subs = subs /\ r.order = order /\ r.panic = FALSE
    BY <2>1
  <2> QED
    BY <1>0, <1>1, <2>2
<1>2. CASE name \in DOMAIN subs
  <2> DEFINE c == subs[name]
  <2>1. /\ r.chans = [chans EXCEPT ![c] = Closed(@)]
        /\ r.subs = [x \in DOMAIN subs \ {name} |-> subs[x]]
        /\ r.order = RemoveFirst(order, c)
        /\ r.panic = ~chans[c].open
    BY <1>2 DEF removeLocked
  <2>2. c \in Nat /\ c \in ToSet(order) /\ c \in 1..Len(chans) /\ chans[c].open
    BY <1>0, <1>2 DEF Registered
  <2> HIDE DEF c
  <2>3. /\ r.chans \in Seq(Sub) /\ Len(r.chans) = Len(chans)
        /\ \A i \in 1..Len(chans) : r.chans[i] = IF i = c THEN Closed(chans[i]) ELSE chans[i]
    <3>1. Closed(chans[c]) \in Sub
      BY <1>0, <2>2, ClosedFacts
    <3> QED
      BY <1>0, <2>1, <2>2, <3>1, ExceptSeq
  <2>4. \A i \in 1..Len(chans) : r.chans[i].offered = Counted(r.chans[i])
    <3> SUFFICES ASSUME NEW i \in 1..Len(chans)
                 PROVE  r.chans[i].offered = Counted(r.chans[i])
      OBVIOUS
    <3>1. chans[i] \in Sub /\ chans[i].offered = Counted(chans[i])
      BY <1>0
    <3>2. r.chans[i] = Closed(chans[i]) \/ r.chans[i] = chans[i]
      BY <2>3
    <3>3. Closed(chans[i]).offered = Counted(Closed(chans[i]))
      BY <3>1, ClosedFacts
    <3> QED
      BY <3>1, <3>2, <3>3
  <2>5. r.order \in Seq(Nat) /\ Distinct(r.order) /\ ToSet(r.order) = ToSet(order) \ {c}
    BY <1>0, <2>1, RemoveFirstFacts DEF Registered
  <2>6. /\ DOMAIN r.subs = DOMAIN subs \ {name}
        /\ \A x \in DOMAIN subs \ {name} : r.subs[x] = subs[x]
        /\ r.subs \in [DOMAIN r.subs -> Nat]
    BY <1>0, <2>1
  <2>7. \A i \in Nat : i \in ToSet(r.order) <=> i \in 1..Len(r.chans) /\ r.chans[i].open
    <3> SUFFICES ASSUME NEW i \in Nat
                 PROVE  i \in ToSet(r.order) <=> i \in 1..Len(chans) /\ r.chans[i].open
      BY <2>3
    <3>1. CASE i = c
      BY <1>0, <2>2, <2>3, <2>5, <3>1, ClosedFacts
    <3>2. CASE i # c
      BY <1>0, <2>3, <2>5, <3>2 DEF Registered
    <3> QED
      BY <3>1, <3>2
  <2>8. \A i \in Nat : i \in ToSet(r.order) <=> \E x \in DOMAIN r.subs : r.subs[x] = i
    <3> SUFFICES ASSUME NEW i \in Nat
                 PROVE  i \in ToSet(order) \ {c} <=> \E x \in DOMAIN subs \ {name} : subs[x] = i
      BY <2>5, <2>6
    <3> QED
      BY <1>0, <1>2 DEF Registered, c
  <2>9. \A x, y \in DOMAIN r.subs : r.subs[x] = r.subs[y] => x = y
    BY <1>0, <2>6 DEF Registered
  <2>10. Registered(r.chans, r.subs, r.order)
    BY <2>5, <2>7, <2>8, <2>9 DEF Registered
  <2>11. r.panic = FALSE
    BY <2>1, <2>2
  <2> QED
    BY <2>3, <2>4, <2>5, <2>6, <2>10, <2>11
<1> QED
  BY <1>1, <1>2

-----------------------------------------------------------------------------
(* Subscribe: the old holder of the name is closed, the new one is added. *)
LEMMA SubscribeKeepsInv ==
    ASSUME BusInv, NEW name \in Names, NEW buf \in Buffers, NEW types \in Filters,
           Subscribe(name, buf, types)
    PROVE  BusInv'
<1> DEFINE s == subscriber(buf, types)
           id == Len(chans) + 1
           r  == removeLocked(name)
<1>0. /\ ~ReadLocked /\ pc' = pc /\ event' = event /\ todo' = todo
      /\ IF closed
           THEN chans' = Append(chans, Closed(s)) /\ UNCHANGED <<subs, order, panicked>>
           ELSE /\ chans' = Append(r.chans, s)
                /\ subs' = [x \in DOMAIN r.subs \cup {name} |-> IF x = name THEN id ELSE r.subs[x]]
                /\ order' = Append(r.order, id)
                /\ panicked' = (panicked \/ r.panic)
  BY DEF Subscribe
<1>1. s \in Sub /\ s.open = TRUE /\ s.offered = Counted(s)
  BY SubscriberFacts
<1>2. /\ chans \in Seq(Sub) /\ order \in Seq(Nat) /\ subs \in [DOMAIN subs -> Nat] /\ Len(chans) \in Nat
      /\ Registered(chans, subs, order) /\ ~panicked
      /\ \A i \in 1..Len(chans) : chans[i].offered = Counted(chans[i])
  BY <1>0, QuietFacts, LenProperties DEF BusInv, TypeInv, NeverPanics
<1>3. CASE closed
  <2>1. /\ chans' = Append(chans, Closed(s)) /\ subs' = subs /\ order' = order /\ panicked' = panicked
    BY <1>0, <1>3
  <2>2. Closed(s) \in Sub /\ Closed(s).offered = Counted(Closed(s)) /\ Closed(s).open = FALSE
    BY <1>1, ClosedFacts
  <2> HIDE DEF s
  <2>3. /\ chans' \in Seq(Sub) /\ Len(chans') = Len(chans) + 1 /\ DOMAIN chans' = 1..Len(chans) + 1
        /\ \A i \in 1..Len(chans) : chans'[i] = chans[i]
        /\ chans'[Len(chans) + 1] = Closed(s)
    BY <1>2, <2>1, <2>2, AppendProperties, LenProperties
  <2>4. \A i \in DOMAIN chans' : i \in 1..Len(chans) \/ i = Len(chans) + 1
    BY <1>2, <2>3
  <2>5. \A i \in DOMAIN chans' : chans'[i].offered = Counted(chans'[i])
    BY <1>2, <2>2, <2>3, <2>4
  <2>6. \A i \in Nat : i \in ToSet(order) <=> i \in 1..Len(chans') /\ chans'[i].open
    <3> SUFFICES ASSUME NEW i \in Nat
                 PROVE  i \in ToSet(order) <=> i \in 1..Len(chans') /\ chans'[i].open
      OBVIOUS
    <3>1. i \in ToSet(order) <=> i \in 1..Len(chans) /\ chans[i].open
      BY <1>2 DEF Registered
    <3>2. i \in 1..Len(chans') <=> i \in 1..Len(chans) \/ i = Len(chans) + 1
      BY <1>2, <2>3
    <3> QED
      BY <2>2, <2>3, <3>1, <3>2
  <2>7. Registered(chans, subs, order)'
    BY <1>2, <2>1, <2>6 DEF Registered
  <2> QED
    BY <1>0, <1>2, <2>1, <2>3, <2>5, <2>7, QuietStep DEF BusInv, NeverPanics
<1>4. CASE ~closed
  <2>1. /\ chans' = Append(r.chans, s)
        /\ subs' = [x \in DOMAIN r.subs \cup {name} |-> IF x = name THEN id ELSE r.subs[x]]
        /\ order' = Append(r.order, id)
        /\ panicked' = (panicked \/ r.panic)
    BY <1>0, <1>4
  <2>2. /\ r.chans \in Seq(Sub) /\ Len(r.chans) = Len(chans)
        /\ r.order \in Seq(Nat) /\ r.subs \in [DOMAIN r.subs -> Nat] /\ name \notin DOMAIN r.subs
        /\ r.panic = FALSE
        /\ Registered(r.chans, r.subs, r.order)
        /\ \A i \in 1..Len(chans) : r.chans[i].offered = Counted(r.chans[i])
    BY <1>0, RemoveLockedFacts
  <2>3. id \in Nat /\ id = Len(chans) + 1 /\ id \notin 1..Len(chans)
    BY <1>2
  <2> HIDE DEF s, r, id
  <2>4. /\ chans' \in Seq(Sub) /\ Len(chans') = id /\ DOMAIN chans' = 1..id
        /\ \A i \in 1..Len(chans) : chans'[i] = r.chans[i]
        /\ chans'[id] = s
    BY <1>1, <2>1, <2>2, <2>3, AppendProperties, LenProperties
  <2>5. \A i \in Nat : i \in 1..id <=> i \in 1..Len(chans) \/ i = id
    BY <1>2, <2>3
  <2>6. \A i \in DOMAIN chans' : chans'[i].offered = Counted(chans'[i])
    BY <1>1, <2>2, <2>4, <2>5
  <2>7. id \notin ToSet(r.order)
    BY <2>2, <2>3 DEF Registered
  <2>8. order' \in Seq(Nat) /\ Distinct(order') /\ ToSet(order') = ToSet(r.order) \cup {id}
    BY <2>1, <2>2, <2>3, <2>7, AppendFacts DEF Registered
  <2>9. /\ DOMAIN subs' = DOMAIN r.subs \cup {name} /\ subs'[name] = id
        /\ \A x \in DOMAIN r.subs : subs'[x] = r.subs[x]
        /\ subs' \in [DOMAIN subs' -> Nat]
    BY <2>1, <2>2, <2>3
  <2>10. \A i \in Nat : i \in ToSet(order') <=> i \in 1..Len(chans') /\ chans'[i].open
    <3> SUFFICES ASSUME NEW i \in Nat
                 PROVE  i \in ToSet(r.order) \cup {id} <=> i \in 1..id /\ chans'[i].open
      BY <2>4, <2>8
    <3>1. i \in ToSet(r.order) <=> i \in 1..Len(chans) /\ r.chans[i].open
      BY <2>2 DEF Registered
    <3> QED
      BY <1>1, <2>4, <2>5, <3>1
  <2>11. \A i \in Nat : i \in ToSet(order') <=> \E x \in DOMAIN subs' : subs'[x] = i
    BY <2>2, <2>8, <2>9 DEF Registered
  <2>12. \A x, y \in DOMAIN subs' : subs'[x] = subs'[y] => x = y
    <3>1. \A x \in DOMAIN r.subs : r.subs[x] # id
      BY <2>2, <2>3, <2>7 DEF Registered
    <3> QED
      BY <2>2, <2>9, <3>1 DEF Registered
  <2>13. Registered(chans, subs, order)'
    BY <2>8, <2>10, <2>11, <2>12 DEF Registered
  <2>14. ~panicked'
    BY <2>1, <2>2 DEF BusInv, NeverPanics
  <2> QED
    BY <1>0, <2>4, <2>6, <2>8, <2>9, <2>13, <2>14, QuietStep
<1> QED
  BY <1>3, <1>4

(* Unsubscribe: what removeLocked leaves. *)
LEMMA UnsubscribeKeepsInv ==
    ASSUME BusInv, NEW name \in Names, Unsubscribe(name)
    PROVE  BusInv'
<1> DEFINE r == removeLocked(name)
<1>1. /\ ~ReadLocked /\ pc' = pc /\ event' = event /\ todo' = todo
      /\ chans' = r.chans /\ subs' = r.subs /\ order' = r.order
      /\ panicked' = (panicked \/ r.panic)
  BY DEF Unsubscribe
<1>2. /\ r.chans \in Seq(Sub) /\ Len(r.chans) = Len(chans)
      /\ r.order \in Seq(Nat) /\ r.subs \in [DOMAIN r.subs -> Nat] /\ name \notin DOMAIN r.subs
      /\ r.panic = FALSE
      /\ Registered(r.chans, r.subs, r.order)
      /\ \A i \in 1..Len(chans) : r.chans[i].offered = Counted(r.chans[i])
  BY <1>1, RemoveLockedFacts
<1> HIDE DEF r
<1>3. Registered(chans, subs, order)'
  BY <1>1, <1>2 DEF Registered
<1>4. ~panicked'
  BY <1>1, <1>2 DEF BusInv, NeverPanics
<1>5. DOMAIN chans' = 1..Len(chans)
  BY <1>1, <1>2, LenProperties
<1> QED
  BY <1>1, <1>2, <1>3, <1>4, <1>5, QuietStep

(* Close: every registered channel is closed, once, and forgotten. *)
LEMMA CloseKeepsInv ==
    ASSUME BusInv, Close
    PROVE  BusInv'
<1>1. /\ ~ReadLocked /\ pc' = pc /\ event' = event /\ todo' = todo
      /\ chans' = [i \in DOMAIN chans |-> IF i \in ToSet(order) THEN Closed(chans[i]) ELSE chans[i]]
      /\ panicked' = (panicked \/ \E i \in ToSet(order) : ~chans[i].open)
      /\ subs' = << >> /\ order' = << >>
  BY DEF Close
<1>2. /\ chans \in Seq(Sub) /\ order \in Seq(Nat) /\ Len(chans) \in Nat /\ DOMAIN chans = 1..Len(chans)
      /\ Registered(chans, subs, order) /\ ~panicked
      /\ \A i \in 1..Len(chans) : chans[i] \in Sub /\ chans[i].offered = Counted(chans[i])
  BY <1>1, QuietFacts, LenProperties, ElementOfSeq DEF BusInv, TypeInv, NeverPanics
<1>3. \A i \in 1..Len(chans) :
        /\ chans'[i] = IF i \in ToSet(order) THEN Closed(chans[i]) ELSE chans[i]
        /\ chans'[i] \in Sub
        /\ chans'[i].offered = Counted(chans'[i])
  <2> SUFFICES ASSUME NEW i \in 1..Len(chans)
               PROVE  /\ chans'[i] = IF i \in ToSet(order) THEN Closed(chans[i]) ELSE chans[i]
                      /\ chans'[i] \in Sub
                      /\ chans'[i].offered = Counted(chans'[i])
    OBVIOUS
  <2>1. chans'[i] = IF i \in ToSet(order) THEN Closed(chans[i]) ELSE chans[i]
    BY <1>1, <1>2
  <2>2. chans[i] \in Sub /\ chans[i].offered = Counted(chans[i])
    BY <1>2
  <2>3. Closed(chans[i]) \in Sub /\ Closed(chans[i]).offered = Counted(Closed(chans[i]))
    BY <2>2, ClosedFacts
  <2> QED
    BY <2>1, <2>2, <2>3
<1>4. chans' \in Seq(Sub) /\ Len(chans') = Len(chans) /\ DOMAIN chans' = 1..Len(chans)
  <2>1. chans' \in [1..Len(chans) -> Sub]
    BY <1>1, <1>2, <1>3
  <2> QED
    BY <1>2, <2>1, FunctionIsSeq
<1>5. \A i \in 1..Len(chans) : ~chans'[i].open
  <2> SUFFICES ASSUME NEW i \in 1..Len(chans)
               PROVE  ~chans'[i].open
    OBVIOUS
  <2>1. CASE i \in ToSet(order)
    BY <1>2, <1>3, <2>1, ClosedFacts
  <2>2. CASE i \notin ToSet(order)
    BY <1>2, <1>3, <2>2 DEF Registered
  <2> QED
    BY <2>1, <2>2
<1>6. ToSet(order') = {} /\ order' \in Seq(Nat) /\ Distinct(order') /\ DOMAIN subs' = {}
  BY <1>1, EmptySeq DEF Distinct, ToSet
<1>7. Registered(chans, subs, order)' /\ subs' \in [DOMAIN subs' -> Nat]
  BY <1>1, <1>4, <1>5, <1>6 DEF Registered
<1>8. ~panicked'
  <2>1. ToSet(order) \subseteq Nat
    BY <1>2, ToSetMember
  <2> QED
    BY <1>1, <1>2, <2>1 DEF Registered
<1> QED
  BY <1>1, <1>3, <1>4, <1>6, <1>7, <1>8, QuietStep

-----------------------------------------------------------------------------
(* A step that opens, closes and registers nothing keeps the registration. *)
LEMMA SameRegistration ==
    ASSUME TypeInv, Registered(chans, subs, order), subs' = subs, order' = order,
           chans' \in [1..Len(chans) -> Sub],
           \A i \in 1..Len(chans) : chans'[i].open = chans[i].open
    PROVE  /\ chans' \in Seq(Sub) /\ Len(chans') = Len(chans) /\ DOMAIN chans' = 1..Len(chans)
           /\ Registered(chans, subs, order)'
<1>1. Len(chans) \in Nat
  BY LenProperties DEF TypeInv
<1>2. chans' \in Seq(Sub) /\ Len(chans') = Len(chans) /\ DOMAIN chans' = 1..Len(chans)
  BY <1>1, FunctionIsSeq
<1> QED
  BY <1>2 DEF Registered

(* A consumer's step moves events within its own channel. *)
LEMMA ConsumerStep ==
    ASSUME BusInv, NEW i \in DOMAIN chans, NEW s \in Sub,
           chans' = [chans EXCEPT ![i] = s], Counted(s) = Counted(chans[i]),
           s.offered = chans[i].offered, s.open = chans[i].open,
           s.all = chans[i].all, s.filter = chans[i].filter,
           subs' = subs, order' = order, pc' = pc, event' = event, todo' = todo, panicked' = panicked
    PROVE  BusInv'
<1>1. /\ chans \in [1..Len(chans) -> Sub] /\ DOMAIN chans = 1..Len(chans)
      /\ TypeInv /\ Registered(chans, subs, order)
  BY LenProperties DEF BusInv, TypeInv
<1>2. /\ chans' \in [1..Len(chans) -> Sub]
      /\ \A j \in 1..Len(chans) : chans'[j] = IF j = i THEN s ELSE chans[j]
  BY <1>1
<1>3. \A j \in 1..Len(chans) :
        /\ Counted(chans'[j]) = Counted(chans[j])
        /\ chans'[j].offered = chans[j].offered /\ chans'[j].open = chans[j].open
        /\ \A e : wants(chans'[j], e) = wants(chans[j], e)
  BY <1>2 DEF wants
<1>4. chans' \in Seq(Sub) /\ DOMAIN chans' = 1..Len(chans) /\ Registered(chans, subs, order)'
  BY <1>1, <1>2, <1>3, SameRegistration
<1>5. \A j \in 1..Len(chans) : Pending(j)' = Pending(j)
  BY <1>3 DEF Pending
<1>6. ASSUME NEW j \in DOMAIN chans'
      PROVE  chans'[j].offered = Counted(chans'[j]) + Cardinality(Pending(j)')
  BY <1>1, <1>3, <1>4, <1>5, AccountIsPending DEF BusInv
<1>7. EveryEventAccounted'
  BY <1>6 DEF EveryEventAccounted, Counted, Pending
<1>8. TypeInv' /\ TodoInv' /\ NeverPanics'
  BY <1>4 DEF BusInv, TypeInv, TodoInv, NeverPanics
<1> QED
  BY <1>4, <1>7, <1>8 DEF BusInv

(* Receive: an event goes from the buffer to the consumer. *)
LEMMA ReceiveKeepsInv ==
    ASSUME BusInv, NEW i \in DOMAIN chans, Receive(i)
    PROVE  BusInv'
<1> DEFINE s == [chans[i] EXCEPT !.queued = @ - 1, !.got = @ + 1]
<1>1. chans[i] \in Sub /\ DOMAIN chans = 1..Len(chans) /\ chans[i].queued > 0
  BY LenProperties, ElementOfSeq DEF BusInv, TypeInv, Receive
<1>2. chans' = [chans EXCEPT ![i] = s]
  BY <1>1 DEF Receive
<1>3. s \in Sub
  <2>1. chans[i].queued - 1 \in Nat /\ chans[i].got + 1 \in Nat
    BY <1>1 DEF Sub
  <2> QED
    BY <1>1, <2>1 DEF Sub
<1>4. /\ s.queued = chans[i].queued - 1 /\ s.got = chans[i].got + 1 /\ s.dropped = chans[i].dropped
      /\ s.offered = chans[i].offered /\ s.open = chans[i].open
      /\ s.all = chans[i].all /\ s.filter = chans[i].filter
  BY <1>1 DEF Sub
<1> HIDE DEF s
<1>5. Counted(s) = Counted(chans[i])
  BY <1>1, <1>4 DEF Counted, Sub
<1> QED
  BY <1>2, <1>3, <1>4, <1>5, ConsumerStep DEF Receive

(* Wait: a consumer blocks. *)
LEMMA WaitKeepsInv ==
    ASSUME BusInv, NEW i \in DOMAIN chans, Wait(i)
    PROVE  BusInv'
<1> DEFINE s == [chans[i] EXCEPT !.waiting = TRUE]
<1>1. chans[i] \in Sub /\ DOMAIN chans = 1..Len(chans)
  BY LenProperties, ElementOfSeq DEF BusInv, TypeInv
<1>2. chans' = [chans EXCEPT ![i] = s]
  BY DEF Wait
<1>3. s \in Sub
  BY <1>1 DEF Sub
<1>4. /\ s.queued = chans[i].queued /\ s.got = chans[i].got /\ s.dropped = chans[i].dropped
      /\ s.offered = chans[i].offered /\ s.open = chans[i].open
      /\ s.all = chans[i].all /\ s.filter = chans[i].filter
  BY <1>1 DEF Sub
<1> HIDE DEF s
<1>5. Counted(s) = Counted(chans[i])
  BY <1>4 DEF Counted
<1> QED
  BY <1>2, <1>3, <1>4, <1>5, ConsumerStep DEF Wait

(* Publish: every registered subscriber that wants the event is owed it. *)
LEMMA PublishKeepsInv ==
    ASSUME BusInv, NEW t \in Publishers, NEW e \in Types, Publish(t, e)
    PROVE  BusInv'
<1>0. /\ pc[t] = "idle" /\ subs' = subs /\ order' = order /\ panicked' = panicked
      /\ TypeInv /\ TodoInv /\ Registered(chans, subs, order) /\ ~panicked
  BY DEF Publish, BusInv, NeverPanics
<1>1. CASE closed
  <2>1. chans' = chans /\ pc' = pc /\ event' = event /\ todo' = todo
    BY <1>1 DEF Publish
  <2>2. TypeInv' /\ TodoInv' /\ NeverPanics' /\ Registered(chans, subs, order)'
    BY <1>0, <2>1 DEF TypeInv, TodoInv, NeverPanics, Registered
  <2>3. EveryEventAccounted'
    BY <2>1 DEF BusInv, EveryEventAccounted
  <2> QED
    BY <2>2, <2>3 DEF BusInv
<1>2. CASE ~closed
  <2> DEFINE Owed(i) == i \in ToSet(order) /\ wants(chans[i], e)
  <2>1. /\ pc' = [pc EXCEPT ![t] = "publish"]
        /\ event' = [event EXCEPT ![t] = e]
        /\ todo' = [todo EXCEPT ![t] = order]
        /\ chans' = [i \in DOMAIN chans |->
                        IF Owed(i) THEN [chans[i] EXCEPT !.offered = @ + 1] ELSE chans[i]]
    BY <1>2 DEF Publish
  <2>2. /\ chans \in [1..Len(chans) -> Sub] /\ DOMAIN chans = 1..Len(chans)
        /\ order \in Seq(Nat) /\ todo[t] = << >> /\ ToSet(todo[t]) = {}
    BY <1>0, LenProperties DEF TypeInv, TodoInv, ToSet
  <2> HIDE DEF Owed
  <2>3. ASSUME NEW i \in 1..Len(chans)
        PROVE  /\ chans'[i] \in Sub /\ chans'[i].open = chans[i].open
               /\ Counted(chans'[i]) = Counted(chans[i])
               /\ chans'[i].offered = IF Owed(i) THEN chans[i].offered + 1 ELSE chans[i].offered
               /\ \A x : wants(chans'[i], x) = wants(chans[i], x)
    <3>1. chans[i] \in Sub /\ chans'[i] = IF Owed(i) THEN [chans[i] EXCEPT !.offered = @ + 1] ELSE chans[i]
      BY <2>1, <2>2
    <3>2. CASE Owed(i)
      <4>1. chans'[i] = [chans[i] EXCEPT !.offered = chans[i].offered + 1]
        BY <3>1, <3>2
      <4>2. /\ chans'[i] \in Sub /\ chans'[i].offered = chans[i].offered + 1
            /\ chans'[i].got = chans[i].got /\ chans'[i].queued = chans[i].queued
            /\ chans'[i].dropped = chans[i].dropped /\ chans'[i].open = chans[i].open
            /\ chans'[i].all = chans[i].all /\ chans'[i].filter = chans[i].filter
        BY SMTT(30), <3>1, <4>1 DEF Sub
      <4> QED
        BY <3>2, <4>2 DEF Counted, wants
    <3>3. CASE ~Owed(i)
      BY <3>1, <3>3
    <3> QED
      BY <3>2, <3>3
  <2>4. chans' \in [1..Len(chans) -> Sub]
    BY <2>1, <2>2, <2>3
  <2>5. /\ chans' \in Seq(Sub) /\ DOMAIN chans' = 1..Len(chans) /\ Registered(chans, subs, order)'
    BY <1>0, <2>3, <2>4, SameRegistration
  <2>6. TypeInv'
    BY <1>0, <2>1, <2>2, <2>5 DEF TypeInv
  <2>7. TodoInv'
    BY <1>0, <2>1 DEF TypeInv, TodoInv, Registered
  <2>8. ASSUME NEW i \in DOMAIN chans'
        PROVE  chans'[i].offered = Counted(chans'[i]) + Cardinality(Pending(i)')
    <3>1. i \in 1..Len(chans) /\ chans[i] \in Sub
      BY <2>2, <2>5, <2>8
    <3>2. IsFiniteSet(Pending(i)) /\ Cardinality(Pending(i)) \in Nat /\ t \notin Pending(i)
      BY <2>2, BusAssumption, FS_Subset, FS_CardinalityType DEF Pending
    <3>3. chans[i].offered = Counted(chans[i]) + Cardinality(Pending(i))
      BY <2>2, <3>1, AccountIsPending DEF BusInv
    <3>4. ASSUME NEW u \in Publishers
          PROVE  u \in Pending(i)' <=> u \in Pending(i) \/ (u = t /\ Owed(i))
      <4>1. u \in Pending(i)' <=> i \in ToSet(todo'[u]) /\ wants(chans[i], event'[u])
        BY <2>3, <3>1 DEF Pending
      <4>2. CASE u = t
        <5>1. todo'[u] = order /\ event'[u] = e
          BY <1>0, <2>1, <4>2 DEF TypeInv
        <5> QED
          BY <3>2, <4>1, <4>2, <5>1 DEF Owed
      <4>3. CASE u # t
        <5>1. todo'[u] = todo[u] /\ event'[u] = event[u]
          BY <1>0, <2>1, <4>3 DEF TypeInv
        <5> QED
          BY <4>1, <4>3, <5>1 DEF Pending
      <4> QED
        BY <4>2, <4>3
    <3>5. Pending(i) \subseteq Publishers /\ Pending(i)' \subseteq Publishers
      BY DEF Pending
    <3>6. CASE Owed(i)
      <4>1. Pending(i)' = Pending(i) \cup {t}
        BY <3>4, <3>5, <3>6
      <4>2. Cardinality(Pending(i)') = Cardinality(Pending(i)) + 1
        BY <3>2, <4>1, FS_AddElement
      <4>3. Counted(chans[i]) \in Nat
        BY <3>1 DEF Counted, Sub
      <4> QED
        BY <2>3, <3>1, <3>2, <3>3, <3>6, <4>2, <4>3
    <3>7. CASE ~Owed(i)
      <4>1. Pending(i)' = Pending(i)
        BY <3>4, <3>5, <3>7
      <4> QED
        BY <2>3, <3>1, <3>3, <3>7, <4>1
    <3> QED
      BY <3>6, <3>7
  <2>9. EveryEventAccounted'
    BY <2>8 DEF EveryEventAccounted, Counted, Pending
  <2> QED
    BY <1>0, <2>5, <2>6, <2>7, <2>9 DEF BusInv, NeverPanics
<1> QED
  BY <1>1, <1>2

(* Deliver: the next subscriber counts the event it is owed, on a channel  *)
(* that is open because the read lock is held.                             *)
LEMMA DeliverKeepsInv ==
    ASSUME BusInv, NEW t \in Publishers, Deliver(t)
    PROVE  BusInv'
<1> DEFINE h == Head(todo[t])
           w == wants(chans[h], event[t])
<1>1. /\ pc[t] = "publish" /\ todo[t] # << >>
      /\ chans' = IF w THEN [chans EXCEPT ![h] = Sent(@)] ELSE chans
      /\ panicked' = (panicked \/ (w /\ ~chans[h].open))
      /\ todo' = [todo EXCEPT ![t] = Tail(@)]
      /\ subs' = subs /\ order' = order /\ pc' = pc /\ event' = event
      /\ TypeInv /\ TodoInv /\ Registered(chans, subs, order) /\ ~panicked
  BY DEF Deliver, BusInv, NeverPanics
<1>2. /\ chans \in [1..Len(chans) -> Sub] /\ DOMAIN chans = 1..Len(chans) /\ chans \in Seq(Sub)
      /\ order \in Seq(Nat) /\ todo[t] \in Seq(Nat) /\ Distinct(todo[t])
      /\ ToSet(todo[t]) \subseteq ToSet(order) /\ ToSet(order) \subseteq Nat
  BY <1>1, LenProperties, ToSetMember DEF TypeInv, TodoInv
<1>3. /\ h \in ToSet(todo[t]) /\ Tail(todo[t]) \in Seq(Nat) /\ Distinct(Tail(todo[t]))
      /\ ToSet(Tail(todo[t])) = ToSet(todo[t]) \ {h}
  BY <1>1, <1>2, TailFacts
<1> HIDE DEF h, w
<1>4. h \in 1..Len(chans) /\ chans[h].open /\ chans[h] \in Sub
  BY <1>1, <1>2, <1>3 DEF Registered
<1>5. \A u \in Publishers : todo'[u] = IF u = t THEN Tail(todo[t]) ELSE todo[u]
  BY <1>1 DEF TypeInv
<1>6. ASSUME NEW i \in 1..Len(chans)
      PROVE  /\ chans'[i] \in Sub /\ chans'[i].open = chans[i].open
             /\ chans'[i].offered = chans[i].offered
             /\ Counted(chans'[i]) = IF i = h /\ w THEN Counted(chans[i]) + 1 ELSE Counted(chans[i])
             /\ \A x : wants(chans'[i], x) = wants(chans[i], x)
  <2>1. chans[i] \in Sub /\ chans'[i] = IF i = h /\ w THEN Sent(chans[i]) ELSE chans[i]
    BY <1>1, <1>2, <1>4
  <2>2. CASE i = h /\ w
    BY <2>1, <2>2, SentFacts DEF wants
  <2>3. CASE ~(i = h /\ w)
    BY <2>1, <2>3
  <2> QED
    BY <2>2, <2>3
<1>7. chans' \in [1..Len(chans) -> Sub]
  <2>1. CASE w
    <3>1. Sent(chans[h]) \in Sub
      BY <1>4, SentFacts
    <3> QED
      BY <1>1, <1>2, <1>4, <2>1, <3>1
  <2>2. CASE ~w
    BY <1>1, <1>2, <2>2
  <2> QED
    BY <2>1, <2>2
<1>8. /\ chans' \in Seq(Sub) /\ DOMAIN chans' = 1..Len(chans) /\ Registered(chans, subs, order)'
  BY <1>1, <1>6, <1>7, SameRegistration
<1>9. TypeInv'
  BY <1>1, <1>3, <1>8 DEF TypeInv
<1>10. TodoInv'
  BY <1>1, <1>3, <1>5 DEF TodoInv
<1>11. NeverPanics'
  BY <1>1, <1>4 DEF NeverPanics
<1>12. ASSUME NEW i \in DOMAIN chans'
       PROVE  chans'[i].offered = Counted(chans'[i]) + Cardinality(Pending(i)')
  <2>1. i \in 1..Len(chans) /\ chans[i] \in Sub /\ Counted(chans[i]) \in Nat
    <3>1. i \in 1..Len(chans) /\ chans[i] \in Sub
      BY <1>2, <1>8, <1>12
    <3> QED
      BY <3>1 DEF Counted, Sub
  <2>2. IsFiniteSet(Pending(i)) /\ Cardinality(Pending(i)) \in Nat
    BY BusAssumption, FS_Subset, FS_CardinalityType DEF Pending
  <2>3. chans[i].offered = Counted(chans[i]) + Cardinality(Pending(i))
    BY <1>2, <2>1, AccountIsPending DEF BusInv
  <2>4. ASSUME NEW u \in Publishers
        PROVE  u \in Pending(i)' <=> u \in Pending(i) /\ ~(u = t /\ i = h)
    <3>1. u \in Pending(i)' <=> i \in ToSet(todo'[u]) /\ wants(chans[i], event[u])
      BY <1>1, <1>6, <2>1 DEF Pending
    <3>2. u \in Pending(i) <=> i \in ToSet(todo[u]) /\ wants(chans[i], event[u])
      BY DEF Pending
    <3>3. CASE u = t
      BY <1>3, <1>5, <3>1, <3>2, <3>3
    <3>4. CASE u # t
      BY <1>5, <3>1, <3>2, <3>4
    <3> QED
      BY <3>3, <3>4
  <2>5. Pending(i) \subseteq Publishers /\ Pending(i)' \subseteq Publishers
    BY DEF Pending
  <2>6. CASE i = h /\ w
    <3>1. t \in Pending(i)
      BY <1>3, <2>6 DEF Pending, w
    <3>2. Pending(i)' = Pending(i) \ {t}
      BY <2>4, <2>5, <2>6
    <3>3. Cardinality(Pending(i)') = Cardinality(Pending(i)) - 1
      BY <2>2, <3>1, <3>2, FS_RemoveElement
    <3> QED
      BY <1>6, <2>1, <2>2, <2>3, <2>6, <3>3
  <2>7. CASE ~(i = h /\ w)
    <3>1. i = h => t \notin Pending(i)
      BY <2>7 DEF Pending, w
    <3>2. Pending(i)' = Pending(i)
      BY <2>4, <2>5, <3>1
    <3> QED
      BY <1>6, <2>1, <2>3, <2>7, <3>2
  <2> QED
    BY <2>6, <2>7
<1>13. EveryEventAccounted'
  BY <1>12 DEF EveryEventAccounted, Counted, Pending
<1> QED
  BY <1>8, <1>9, <1>10, <1>11, <1>13 DEF BusInv

(* PublishEnd: nothing was left to deliver. *)
LEMMA PublishEndKeepsInv ==
    ASSUME BusInv, NEW t \in Publishers, PublishEnd(t)
    PROVE  BusInv'
<1>1. /\ pc' = [pc EXCEPT ![t] = "idle"] /\ event' = [event EXCEPT ![t] = Unknown]
      /\ chans' = chans /\ subs' = subs /\ order' = order /\ todo' = todo /\ panicked' = panicked
      /\ todo[t] = << >> /\ TypeInv /\ TodoInv /\ Registered(chans, subs, order)
  BY DEF PublishEnd, BusInv
<1>2. TypeInv' /\ TodoInv' /\ NeverPanics' /\ Registered(chans, subs, order)'
  BY <1>1, BusAssumption DEF BusInv, TypeInv, TodoInv, NeverPanics, Registered
<1>3. \A i : Pending(i)' = Pending(i)
  <2>1. ToSet(todo[t]) = {}
    BY <1>1 DEF ToSet
  <2>2. \A u \in Publishers : u # t => event'[u] = event[u]
    BY <1>1 DEF TypeInv
  <2> QED
    BY <1>1, <2>1, <2>2 DEF Pending
<1>4. EveryEventAccounted'
  <2>1. \A i \in DOMAIN chans' : chans'[i].offered = Counted(chans'[i]) + Cardinality(Pending(i)')
    BY <1>1, <1>3, AccountIsPending DEF BusInv
  <2> QED
    BY <2>1 DEF EveryEventAccounted, Counted, Pending
<1> QED
  BY <1>2, <1>4 DEF BusInv

-----------------------------------------------------------------------------
(* A new bus: nobody is registered and nothing is owed. *)
LEMMA InitInv == Init => BusInv
<1> SUFFICES ASSUME Init PROVE BusInv
  OBVIOUS
<1>1. TypeInv /\ Registered(chans, subs, order) /\ TodoInv
  BY EmptySeq, BusAssumption DEF Init, TypeInv, Registered, TodoInv, Distinct, ToSet
<1>2. NeverPanics
  BY DEF Init, NeverPanics
<1>3. EveryEventAccounted
  BY DEF Init, EveryEventAccounted
<1> QED
  BY <1>1, <1>2, <1>3 DEF BusInv

(* Registration, pending deliveries and accounts stay consistent whatever  *)
(* publishers, subscribers and consumers interleave (bus.go).              *)
THEOREM BusInvariant == Spec => []BusInv
<1>1. BusInv /\ [Next]_vars => BusInv'
  <2> SUFFICES ASSUME BusInv, [Next]_vars PROVE BusInv'
    OBVIOUS
  <2>1. CASE \E t \in Publishers : (\E e \in Types : Publish(t, e)) \/ Deliver(t) \/ PublishEnd(t)
    BY <2>1, PublishKeepsInv, DeliverKeepsInv, PublishEndKeepsInv
  <2>2. CASE \E name \in Names : Unsubscribe(name)
    BY <2>2, UnsubscribeKeepsInv
  <2>3. CASE \E name \in Names, buf \in Buffers, types \in Filters : Subscribe(name, buf, types)
    BY <2>3, SubscribeKeepsInv
  <2>4. CASE \E i \in DOMAIN chans : Receive(i) \/ Wait(i)
    BY <2>4, ReceiveKeepsInv, WaitKeepsInv
  <2>5. CASE Close
    BY <2>5, CloseKeepsInv
  <2>6. CASE UNCHANGED vars
    <3>1. TypeInv' /\ TodoInv' /\ NeverPanics' /\ Registered(chans, subs, order)'
      BY <2>6 DEF vars, BusInv, TypeInv, TodoInv, NeverPanics, Registered
    <3>2. EveryEventAccounted'
      BY <2>6 DEF vars, BusInv, EveryEventAccounted
    <3> QED
      BY <3>1, <3>2 DEF BusInv
  <2> QED
    BY <2>1, <2>2, <2>3, <2>4, <2>5, <2>6 DEF Next
<1> QED
  BY <1>1, InitInv, PTL DEF Spec

(* No send on a closed channel and no second close: Publish's read lock    *)
(* keeps every channel it will reach registered, and so open (bus.go:73-91).*)
THEOREM BusNeverPanics == Spec => []NeverPanics
<1>1. BusInv => NeverPanics
  BY DEF BusInv
<1> QED
  BY <1>1, BusInvariant, PTL

(* The open channels are exactly the registered ones, one per name.        *)
THEOREM BusOpenIffRegistered == Spec => []OpenIffRegistered
<1>1. ASSUME BusInv PROVE OpenIffRegistered
  <2>1. /\ chans \in Seq(Sub) /\ DOMAIN chans = 1..Len(chans) /\ Len(chans) \in Nat
        /\ order \in Seq(Nat) /\ ToSet(order) \subseteq Nat /\ subs \in [DOMAIN subs -> Nat]
        /\ Registered(chans, subs, order)
    BY <1>1, LenProperties, ToSetMember DEF BusInv, TypeInv
  <2>2. {i \in DOMAIN chans : chans[i].open} = ToSet(order)
    BY <2>1 DEF Registered
  <2>3. ToSet(order) = {subs[x] : x \in DOMAIN subs}
    <3>1. \A x \in DOMAIN subs : subs[x] \in Nat
      BY <2>1
    <3> QED
      BY <2>1, <3>1 DEF Registered
  <2>4. ExistsBijection(DOMAIN subs, ToSet(order))
    <3>1. subs \in [DOMAIN subs -> ToSet(order)]
      BY <2>1, <2>3
    <3>2. subs \in Bijection(DOMAIN subs, ToSet(order))
      BY <2>1, <2>3, <3>1 DEF Registered, Bijection, Injection, Surjection, IsInjective
    <3> QED
      BY <3>2 DEF ExistsBijection
  <2>5. ExistsBijection(ToSet(order), DOMAIN subs)
    BY <2>4, Fun_ExistsBijSymmetric
  <2>6. IsFiniteSet(ToSet(order)) /\ Cardinality(ToSet(order)) = Len(order)
    BY <2>1, DistinctCardinality DEF Registered
  <2>7. Len(order) = Cardinality(DOMAIN subs)
    BY <2>5, <2>6, FS_Bijection
  <2> QED
    BY <2>2, <2>3, <2>7 DEF OpenIffRegistered
<1> QED
  BY <1>1, BusInvariant, PTL

(* Every event a subscriber wants is received, buffered, counted as        *)
(* dropped or still owed by one publisher.                                 *)
THEOREM BusEveryEventAccounted == Spec => []EveryEventAccounted
<1>1. BusInv => EveryEventAccounted
  BY DEF BusInv
<1> QED
  BY <1>1, BusInvariant, PTL
=============================================================================
