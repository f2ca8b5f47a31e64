----------------------------- MODULE LFUProofs -----------------------------
(* The buckets of LFU stay in step with its index through increments,      *)
(* ageing in any map order, removals and rebuilds, and LFU implements the  *)
(* policy contract.  The loops of ageLocked and Rebuild are recursive      *)
(* functions on the number of rounds; what they preserve is shown by       *)
(* looking at the first round that would not preserve it.                  *)
EXTENDS LFU, BasicLemmas

(* The keys in D, and only those, are in the buckets b, each once and at   *)
(* the frequency the index x gives it.                                     *)
Filed(b, x, D) ==
    /\ D \subseteq Keys
    /\ DOMAIN b \subseteq 1..MaxFreq
    /\ \A f \in DOMAIN b : b[f] \in Seq(Keys) /\ b[f] # << >> /\ Distinct(b[f])
    /\ \A f \in DOMAIN b : ToSet(b[f]) = {k \in D : x[k] = f}
    /\ \A k \in D : x[k] \in DOMAIN b

BucketInv ==
    /\ Filed(buckets, items, DOMAIN items)
    /\ n = Cardinality(DOMAIN items) /\ metadata = n * lfuPerEntryBytes

AgeInv ==
    /\ ageMax \in Nat /\ ageCnt \in Nat
    /\ ageMax > 0 => ageCnt < ageMax

(* The list s has what came before, according to o, behind what came after. *)
NewestFirst(s, o) == \A i, j \in 1..Len(s) : <<s[i], s[j]>> \in o => i > j

(* The history compares tracked keys of one frequency, as their list does. *)
Recorded(b, x, o) ==
    /\ \A f \in DOMAIN b : NewestFirst(b[f], o)
    /\ \A j, k : <<j, k>> \in o => j \in DOMAIN x /\ k \in DOMAIN x /\ x[j] = x[k]

OrderInv == Recorded(buckets, items, older)

(* What was offered is tracked, at the lowest frequency there is, and      *)
(* oldest first; what came before it was offered as well, and before it.   *)
AnswerInv ==
    /\ answer \in Seq(DOMAIN items)
    /\ \A i \in 1..Len(answer), k \in DOMAIN items : items[answer[i]] <= items[k]
    /\ \A i \in 1..Len(answer), k \in DOMAIN items :
          <<k, answer[i]>> \in older => \E h \in 1..Len(answer) : h < i /\ answer[h] = k

LFUInv == BucketInv /\ AgeInv /\ OrderInv /\ AnswerInv

-----------------------------------------------------------------------------
(* Lists in the order of arrival *)

(* Taking an element out leaves the others in their order. *)
LEMMA RemoveFirstNewest ==
    ASSUME NEW S, NEW s \in Seq(S), Distinct(s), NEW e \in ToSet(s), NEW o, NewestFirst(s, o)
    PROVE  NewestFirst(RemoveFirst(s, e), o)
<1>0. Len(s) \in Nat
  BY LenProperties
<1>1. PICK k \in 1..Len(s) : s[k] = e
  BY ToSetMember
<1>2. {i \in 1..Len(s) : s[i] = e} = {k}
  BY <1>1 DEF Distinct
<1>3. Min({k}) = k
  BY DEF Min
<1>4. SelectInSeq(s, LAMBDA v : v = e) = k
  BY <1>2, <1>3 DEF SelectInSeq
<1>5. RemoveFirst(s, e) = RemoveAt(s, k)
  BY <1>1, <1>4 DEF RemoveFirst
<1> DEFINE l == RemoveAt(s, k)
<1>6. Len(l) = Len(s) - 1 /\ \A i \in 1..Len(s) - 1 : l[i] = IF i < k THEN s[i] ELSE s[i + 1]
  BY RemoveAtFacts
<1> HIDE DEF l
<1>7. ASSUME NEW i \in 1..Len(l), NEW j \in 1..Len(l), <<l[i], l[j]>> \in o PROVE i > j
  <2> DEFINE x == IF i < k THEN i ELSE i + 1
             y == IF j < k THEN j ELSE j + 1
  <2>1. i \in 1..Len(s) - 1 /\ j \in 1..Len(s) - 1 /\ x \in 1..Len(s) /\ y \in 1..Len(s)
    BY <1>0, <1>6
  <2>2. l[i] = s[x] /\ l[j] = s[y]
    BY <1>6, <2>1
  <2> HIDE DEF x, y
  <2>3. x > y
    BY <1>7, <2>1, <2>2 DEF NewestFirst
  <2> QED
    BY <1>0, <2>1, <2>3 DEF x, y
<1> QED
  BY <1>5, <1>7 DEF NewestFirst, l

(* An element that came after all others belongs in front of them. *)
LEMMA ConsNewest ==
    ASSUME NEW S, NEW s \in Seq(S), NEW e \in S, e \notin ToSet(s), NEW o, NewestFirst(s, o),
           NEW q, \A x, y : <<x, y>> \in q => x # e /\ (y = e \/ <<x, y>> \in o)
    PROVE  NewestFirst(Cons(e, s), q)
<1> DEFINE m == Cons(e, s)
<1>1. /\ Len(m) = Len(s) + 1 /\ Len(s) \in Nat /\ m[1] = e
      /\ \A i \in 1..Len(s) : m[i + 1] = s[i]
  BY ConsFacts, LenProperties
<1>2. \A i \in 1..Len(s) : s[i] # e
  BY ToSetMember
<1> HIDE DEF m
<1>3. ASSUME NEW i \in 1..Len(m), NEW j \in 1..Len(m), <<m[i], m[j]>> \in q PROVE i > j
  <2>1. i # 1
    BY <1>1, <1>3
  <2>2. CASE j = 1
    BY <1>1, <2>1, <2>2
  <2>3. CASE j # 1
    <3>1. i - 1 \in 1..Len(s) /\ j - 1 \in 1..Len(s) /\ (i - 1) + 1 = i /\ (j - 1) + 1 = j
      BY <1>1, <2>1, <2>3
    <3>2. m[i] = s[i - 1] /\ m[j] = s[j - 1] /\ m[j] # e
      BY <1>1, <1>2, <3>1, SMTT(30)
    <3>3. <<s[i - 1], s[j - 1]>> \in o
      BY <1>3, <3>2
    <3>4. i - 1 > j - 1
      BY <3>1, <3>3 DEF NewestFirst
    <3> QED
      BY <1>1, <3>4
  <2> QED
    BY <2>2, <2>3
<1> QED
  BY <1>3 DEF NewestFirst, m

-----------------------------------------------------------------------------
(* The bucket map *)

(* Removing a key's element leaves the other keys filed. *)
LEMMA DetachedFiled ==
    ASSUME NEW b, NEW x, NEW D, Filed(b, x, D), NEW k \in D
    PROVE  Filed(Detached(b, x, k), x, D \ {k})
<1> DEFINE f == x[k]
           s == RemoveFirst(b[f], k)
           c == SetList(b, f, s)
<1>1. /\ f \in DOMAIN b /\ b[f] \in Seq(Keys) /\ Distinct(b[f])
      /\ ToSet(b[f]) = {y \in D : x[y] = f}
  BY DEF Filed
<1>2. Detached(b, x, k) = c
  BY <1>1 DEF Detached, At
<1>3. s \in Seq(Keys) /\ Distinct(s) /\ ToSet(s) = ToSet(b[f]) \ {k}
  BY <1>1, RemoveFirstFacts
<1>4. s = << >> <=> ToSet(s) = {}
  BY <1>3, EmptyIffNothing
<1>5. /\ s = << >> => DOMAIN c = DOMAIN b \ {f}
      /\ s # << >> => DOMAIN c = DOMAIN b \cup {f}
      /\ \A y \in DOMAIN c : c[y] = IF y = f THEN s ELSE b[y]
  BY DEF SetList
<1> HIDE DEF c, s
<1>6. DOMAIN c \subseteq DOMAIN b
  BY <1>1, <1>5
<1>7. ASSUME NEW g \in DOMAIN c
      PROVE  c[g] \in Seq(Keys) /\ c[g] # << >> /\ Distinct(c[g]) /\ ToSet(c[g]) = {y \in D \ {k} : x[y] = g}
  <2>1. CASE g = f
    <3>1. s # << >> /\ c[g] = s
      BY <1>5, <1>7, <2>1
    <3> QED
      BY <1>1, <1>3, <2>1, <3>1
  <2>2. CASE g # f
    <3>1. c[g] = b[g] /\ g \in DOMAIN b
      BY <1>5, <1>6, <2>2
    <3> QED
      BY <2>2, <3>1 DEF Filed
  <2> QED
    BY <2>1, <2>2
<1>8. ASSUME NEW y \in D \ {k} PROVE x[y] \in DOMAIN c
  <2>1. x[y] \in DOMAIN b
    BY DEF Filed
  <2>2. CASE x[y] = f
    <3>1. y \in ToSet(s)
      BY <1>1, <1>3, <2>2
    <3> QED
      BY <1>4, <1>5, <2>2, <3>1
  <2>3. CASE x[y] # f
    BY <1>5, <2>1, <2>3
  <2> QED
    BY <2>2, <2>3
<1> QED
  BY <1>2, <1>6, <1>7, <1>8 DEF Filed

(* Pushing a key files it. *)
LEMMA PushedFiled ==
    ASSUME NEW b, NEW x, NEW D, Filed(b, x, D), NEW k \in Keys, k \notin D, NEW f \in 1..MaxFreq,
           D \subseteq DOMAIN x
    PROVE  /\ Filed(Pushed(b, x, k, f).buckets, Pushed(b, x, k, f).items, D \cup {k})
           /\ DOMAIN Pushed(b, x, k, f).items = DOMAIN x \cup {k}
<1> DEFINE l == At(b, f)
           s == Cons(k, l)
           c == SetList(b, f, s)
           z == [y \in DOMAIN x \cup {k} |-> IF y = k THEN f ELSE x[y]]
<1>1. Pushed(b, x, k, f).buckets = c /\ Pushed(b, x, k, f).items = z
  BY DEF Pushed
<1>2. At(b, f) \in Seq(Keys) /\ Distinct(At(b, f)) /\ ToSet(At(b, f)) = {y \in D : x[y] = f}
  <2>1. CASE f \in DOMAIN b
    BY <2>1 DEF At, Filed
  <2>2. CASE f \notin DOMAIN b
    <3>1. At(b, f) = << >> /\ {y \in D : x[y] = f} = {}
      BY <2>2 DEF At, Filed
    <3> QED
      BY <3>1, EmptyFacts
  <2> QED
    BY <2>1, <2>2
<1> HIDE DEF l
<1>3. s \in Seq(Keys) /\ Distinct(s) /\ ToSet(s) = {y \in D : x[y] = f} \cup {k}
  <2>1. l \in Seq(Keys) /\ Distinct(l) /\ k \notin ToSet(l) /\ ToSet(l) = {y \in D : x[y] = f}
    BY <1>2 DEF l
  <2>0. l \in Seq(Keys)
    BY <2>1
  <2>2. s \in Seq(Keys)
    BY <2>0, ConsFacts
  <2>3. ToSet(s) = ToSet(l) \cup {k}
    BY <2>0, ConsFacts
  <2>4. Distinct(s)
    BY <2>1, ConsDistinct
  <2> QED
    BY <2>1, <2>2, <2>3, <2>4
<1> HIDE DEF s
<1>4. s # << >>
  BY <1>3, EmptyIffNothing
<1>5. /\ DOMAIN c = DOMAIN b \cup {f}
      /\ \A y \in DOMAIN c : c[y] = IF y = f THEN s ELSE b[y]
  BY <1>4 DEF SetList
<1>6. /\ DOMAIN z = DOMAIN x \cup {k} /\ z[k] = f
      /\ \A y \in D : z[y] = x[y]
  <2>1. \A y \in D : y # k /\ y \in DOMAIN x
    OBVIOUS
  <2> QED
    BY <2>1, Zenon
<1> HIDE DEF c, z
<1>7. ASSUME NEW g \in DOMAIN c
      PROVE  /\ c[g] \in Seq(Keys) /\ c[g] # << >> /\ Distinct(c[g])
             /\ ToSet(c[g]) = {y \in D \cup {k} : z[y] = g}
  <2>1. CASE g = f
    <3>1. c[g] = s
      BY <1>5, <2>1
    <3>2. {y \in D \cup {k} : z[y] = g} = {y \in D : x[y] = f} \cup {k}
      BY <1>6, <2>1
    <3> QED
      BY <1>3, <1>4, <3>1, <3>2
  <2>2. CASE g # f
    <3>1. c[g] = b[g] /\ g \in DOMAIN b
      BY <1>5, <2>2
    <3>2. {y \in D \cup {k} : z[y] = g} = {y \in D : x[y] = g}
      BY <1>6, <2>2
    <3> QED
      BY <3>1, <3>2 DEF Filed
  <2> QED
    BY <2>1, <2>2
<1>8. ASSUME NEW y \in D \cup {k} PROVE z[y] \in DOMAIN c
  BY <1>5, <1>6 DEF Filed
<1>9. Filed(c, z, D \cup {k})
  BY <1>5, <1>7, <1>8 DEF Filed
<1> QED
  BY <1>1, <1>6, <1>9

(* An increment moves one key to another list. *)
LEMMA IncrementedFiled ==
    ASSUME Filed(buckets, items, DOMAIN items), NEW k \in DOMAIN items
    PROVE  /\ Filed(Incremented(k).buckets, Incremented(k).items, DOMAIN items)
           /\ DOMAIN Incremented(k).items = DOMAIN items
<1> DEFINE g == NextFreq(items[k])
           b == Detached(buckets, items, k)
<1>1. CASE g = items[k]
  BY <1>1 DEF Incremented
<1>2. CASE g # items[k]
  <2>1. Incremented(k) = Pushed(b, items, k, g)
    BY <1>2 DEF Incremented
  <2>2. g \in 1..MaxFreq
    BY FreqAssumption DEF NextFreq, Filed
  <2>3. Filed(b, items, DOMAIN items \ {k})
    BY DetachedFiled
  <2>0. k \in Keys
    BY DEF Filed
  <2> HIDE DEF b, g
  <2>4. /\ Filed(Pushed(b, items, k, g).buckets, Pushed(b, items, k, g).items, (DOMAIN items \ {k}) \cup {k})
        /\ DOMAIN Pushed(b, items, k, g).items = DOMAIN items \cup {k}
    BY <2>0, <2>2, <2>3, PushedFiled
  <2>5. (DOMAIN items \ {k}) \cup {k} = DOMAIN items /\ DOMAIN items \cup {k} = DOMAIN items
    OBVIOUS
  <2> QED
    BY <2>1, <2>4, <2>5
<1> QED
  BY <1>1, <1>2

(* Removing a key's element keeps the other keys in their order. *)
LEMMA DetachedOrdered ==
    ASSUME NEW b, NEW x, NEW D, Filed(b, x, D), NEW k \in D, NEW o, \A f \in DOMAIN b : NewestFirst(b[f], o)
    PROVE  \A f \in DOMAIN Detached(b, x, k) : NewestFirst(Detached(b, x, k)[f], o)
<1> DEFINE f == x[k]
           s == RemoveFirst(b[f], k)
           c == SetList(b, f, s)
<1>1. f \in DOMAIN b /\ b[f] \in Seq(Keys) /\ Distinct(b[f]) /\ k \in ToSet(b[f])
  BY DEF Filed
<1>2. Detached(b, x, k) = c
  BY <1>1 DEF Detached, At
<1>3. NewestFirst(s, o)
  BY <1>1, RemoveFirstNewest
<1>4. DOMAIN c \subseteq DOMAIN b /\ \A y \in DOMAIN c : c[y] = IF y = f THEN s ELSE b[y]
  BY <1>1 DEF SetList
<1> HIDE DEF c, s
<1> QED
  BY <1>2, <1>3, <1>4

(* Pushing a key that came last keeps the lists in their order. *)
LEMMA PushedOrdered ==
    ASSUME NEW b, NEW x, NEW D, Filed(b, x, D), NEW k \in Keys, k \notin D, NEW f \in 1..MaxFreq,
           NEW o, \A g \in DOMAIN b : NewestFirst(b[g], o),
           NEW q, \A y, z : <<y, z>> \in q => y # k /\ (z = k \/ <<y, z>> \in o)
    PROVE  \A g \in DOMAIN Pushed(b, x, k, f).buckets : NewestFirst(Pushed(b, x, k, f).buckets[g], q)
<1> DEFINE s == Cons(k, At(b, f))
           c == SetList(b, f, s)
<1>1. Pushed(b, x, k, f).buckets = c
  BY DEF Pushed
<1>2. At(b, f) \in Seq(Keys) /\ k \notin ToSet(At(b, f)) /\ NewestFirst(At(b, f), o)
  <2>1. CASE f \in DOMAIN b
    BY <2>1 DEF At, Filed
  <2>2. CASE f \notin DOMAIN b
    <3>1. At(b, f) = << >>
      BY <2>2 DEF At
    <3> QED
      BY <3>1, EmptyFacts DEF NewestFirst
  <2> QED
    BY <2>1, <2>2
<1>3. NewestFirst(s, q) /\ s # << >>
  <2>1. NewestFirst(s, q)
    BY <1>2, ConsNewest
  <2>2. s \in Seq(Keys) /\ ToSet(s) = ToSet(At(b, f)) \cup {k}
    BY <1>2, ConsFacts
  <2> QED
    BY <2>1, <2>2, EmptyIffNothing
<1> HIDE DEF s
<1>4. DOMAIN c = DOMAIN b \cup {f} /\ \A y \in DOMAIN c : c[y] = IF y = f THEN s ELSE b[y]
  BY <1>3 DEF SetList
<1> HIDE DEF c
<1>5. ASSUME NEW g \in DOMAIN c, g # f PROVE NewestFirst(c[g], q)
  <2>1. g \in DOMAIN b /\ c[g] = b[g] /\ NewestFirst(b[g], o)
    BY <1>4, <1>5
  <2>2. b[g] \in Seq(Keys) /\ k \notin ToSet(b[g])
    BY <2>1 DEF Filed
  <2>3. \A i \in 1..Len(b[g]) : b[g][i] # k
    BY <2>2, ToSetMember
  <2> QED
    BY <2>1, <2>3 DEF NewestFirst
<1> QED
  BY <1>1, <1>3, <1>4, <1>5

(* The history records an increment, and an insert, as the lists do. *)
LEMMA IncrementRecorded ==
    ASSUME Filed(buckets, items, DOMAIN items), OrderInv, NEW k \in DOMAIN items
    PROVE  Recorded(Incremented(k).buckets, Incremented(k).items, Arrived(Incremented(k), k))
<1> DEFINE g == NextFreq(items[k])
           b == Detached(buckets, items, k)
           st == Pushed(b, items, k, g)
           q == Left(k) \cup {<<j, k>> : j \in {x \in DOMAIN items \ {k} : items[x] = g}}
<1>1. CASE g = items[k]
  BY <1>1 DEF Incremented, Arrived, OrderInv
<1>2. CASE g # items[k]
  <2>1. Incremented(k) = st
    BY <1>2 DEF Incremented
  <2>2. g \in 1..MaxFreq /\ k \in Keys
    BY FreqAssumption DEF NextFreq, Filed
  <2>3. Filed(b, items, DOMAIN items \ {k}) /\ \A f \in DOMAIN b : NewestFirst(b[f], older)
    BY DetachedFiled, DetachedOrdered DEF OrderInv, Recorded
  <2>4. st.items = [y \in DOMAIN items |-> IF y = k THEN g ELSE items[y]]
    BY DEF Pushed
  <2> HIDE DEF b, g
  <2>5. Arrived(st, k) = q
    BY <1>2, <2>4 DEF Arrived
  <2>6. \A y, z : <<y, z>> \in q =>
           y # k /\ ((z = k /\ y \in DOMAIN items /\ items[y] = g) \/ (z # k /\ <<y, z>> \in older))
    BY DEF Left
  <2> HIDE DEF q
  <2>7. \A f \in DOMAIN st.buckets : NewestFirst(st.buckets[f], q)
    BY <2>2, <2>3, <2>6, PushedOrdered, SMTT(30)
  <2> HIDE DEF st
  <2>8. \A y, z : <<y, z>> \in q => y \in DOMAIN st.items /\ z \in DOMAIN st.items /\ st.items[y] = st.items[z]
    BY <2>4, <2>6 DEF OrderInv, Recorded
  <2> QED
    BY <2>1, <2>5, <2>7, <2>8 DEF Recorded
<1> QED
  BY <1>1, <1>2

LEMMA InsertRecorded ==
    ASSUME Filed(buckets, items, DOMAIN items), OrderInv, NEW k \in Keys, k \notin DOMAIN items
    PROVE  LET st == Pushed(buckets, items, k, 1) IN Recorded(st.buckets, st.items, Arrived(st, k))
<1> DEFINE st == Pushed(buckets, items, k, 1)
           q == Left(k) \cup {<<j, k>> : j \in {x \in DOMAIN items \ {k} : items[x] = 1}}
<1>1. 1 \in 1..MaxFreq
  BY FreqAssumption
<1>2. st.items = [y \in DOMAIN items \cup {k} |-> IF y = k THEN 1 ELSE items[y]]
  BY DEF Pushed
<1>3. Arrived(st, k) = q
  BY <1>2 DEF Arrived
<1>4. \A y, z : <<y, z>> \in q =>
         y # k /\ ((z = k /\ y \in DOMAIN items /\ items[y] = 1) \/ (z # k /\ <<y, z>> \in older))
  BY DEF Left
<1> HIDE DEF q
<1>5. \A f \in DOMAIN st.buckets : NewestFirst(st.buckets[f], q)
  BY <1>1, <1>4, PushedOrdered DEF OrderInv, Recorded
<1> HIDE DEF st
<1>6. \A y, z : <<y, z>> \in q => y \in DOMAIN st.items /\ z \in DOMAIN st.items /\ st.items[y] = st.items[z]
  BY <1>2, <1>4 DEF OrderInv, Recorded
<1> QED
  BY <1>3, <1>5, <1>6 DEF Recorded, st

(* A history that records nothing. *)
LEMMA NothingRecorded == ASSUME older' = {} PROVE OrderInv'
BY DEF OrderInv, Recorded, NewestFirst

-----------------------------------------------------------------------------
(* Ageing *)

(* One round moves a whole list, and leaves the other frequencies present. *)
LEMMA HalveFiled ==
    ASSUME NEW st, Filed(st.buckets, st.items, DOMAIN st.items), NEW oldF \in DOMAIN st.buckets
    PROVE  /\ Filed(Halve(st, oldF).buckets, Halve(st, oldF).items, DOMAIN st.items)
           /\ DOMAIN Halve(st, oldF).items = DOMAIN st.items
           /\ DOMAIN st.buckets \ {oldF} \subseteq DOMAIN Halve(st, oldF).buckets
<1> DEFINE b == st.buckets
           x == st.items
           D == DOMAIN x
           newF == IF oldF \div 2 < 1 THEN 1 ELSE oldF \div 2
           l == At(b, newF)
           r == Reverse(b[oldF])
           s == r \o l
           c == SetList(SetList(b, newF, s), oldF, << >>)
           z == [k \in D |-> IF k \in ToSet(b[oldF]) THEN newF ELSE x[k]]
<1>0. Filed(b, x, D) /\ oldF \in DOMAIN b
  OBVIOUS
<1>1. CASE newF = oldF
  BY <1>1 DEF Halve
<1>2. ASSUME newF # oldF
      PROVE  /\ Filed(c, z, D) /\ DOMAIN z = D
             /\ DOMAIN b \ {oldF} \subseteq DOMAIN c
  <2>1. oldF \in 1..MaxFreq /\ newF \in 1..MaxFreq
    BY FreqAssumption DEF Filed
  <2>2. /\ b[oldF] \in Seq(Keys) /\ Distinct(b[oldF]) /\ b[oldF] # << >>
        /\ ToSet(b[oldF]) = {k \in D : x[k] = oldF}
    BY <1>0 DEF Filed
  <2>3. r \in Seq(Keys) /\ Distinct(r) /\ ToSet(r) = {k \in D : x[k] = oldF}
    BY <2>2, ReverseFacts
  <2>4. l \in Seq(Keys) /\ Distinct(l) /\ ToSet(l) = {k \in D : x[k] = newF}
    <3>1. CASE newF \in DOMAIN b
      BY <1>0, <3>1 DEF At, Filed
    <3>2. CASE newF \notin DOMAIN b
      <4>1. l = << >> /\ {k \in D : x[k] = newF} = {}
        BY <1>0, <3>2 DEF At, Filed
      <4> QED
        BY <4>1, EmptyFacts
    <3> QED
      BY <3>1, <3>2
  <2> HIDE DEF r, l, newF
  <2>5. s \in Seq(Keys) /\ Distinct(s) /\ ToSet(s) = ToSet(r) \cup ToSet(l)
    <3>1. ToSet(r) \cap ToSet(l) = {}
      BY <1>2, <2>3, <2>4
    <3> QED
      BY <2>3, <2>4, <3>1, ConcatFacts
  <2>6. s # << >>
    <3>1. ToSet(b[oldF]) # {}
      BY <2>2, EmptyIffNothing
    <3>2. ToSet(s) # {}
      BY <2>2, <2>3, <2>5, <3>1
    <3> HIDE DEF s
    <3> QED
      BY <2>5, <3>2, EmptyIffNothing
  <2> HIDE DEF s
  <2>7. /\ DOMAIN c = (DOMAIN b \cup {newF}) \ {oldF}
        /\ \A y \in DOMAIN c : c[y] = IF y = newF THEN s ELSE b[y]
    BY <1>2, <2>6 DEF SetList
  <2>8. /\ DOMAIN z = D
        /\ \A k \in D : z[k] = IF x[k] = oldF THEN newF ELSE x[k]
    BY <2>2
  <2> HIDE DEF c, z, D, b, x
  <2>9. ASSUME NEW g \in DOMAIN c
        PROVE  c[g] \in Seq(Keys) /\ c[g] # << >> /\ Distinct(c[g]) /\ ToSet(c[g]) = {k \in D : z[k] = g}
    <3>1. CASE g = newF
      <4>1. c[g] = s
        BY <2>7, <3>1
      <4>2. {k \in D : z[k] = g} = {k \in D : x[k] = oldF} \cup {k \in D : x[k] = newF}
        BY <1>2, <2>8, <3>1
      <4> QED
        BY <2>3, <2>4, <2>5, <2>6, <4>1, <4>2
    <3>2. CASE g # newF
      <4>1. c[g] = b[g] /\ g \in DOMAIN b /\ g # oldF
        BY <2>7, <3>2
      <4>2. {k \in D : z[k] = g} = {k \in D : x[k] = g}
        BY <2>8, <3>2, <4>1
      <4> QED
        BY <1>0, <4>1, <4>2 DEF Filed
    <3> QED
      BY <3>1, <3>2
  <2>10. \A k \in D : z[k] \in DOMAIN c
    BY <1>0, <1>2, <2>7, <2>8 DEF Filed
  <2>11. D \subseteq Keys /\ DOMAIN c \subseteq 1..MaxFreq
    BY <1>0, <2>1, <2>7 DEF Filed
  <2>12. Filed(c, z, D)
    BY <2>9, <2>10, <2>11 DEF Filed
  <2> QED
    BY <2>7, <2>8, <2>12
<1>3. CASE newF # oldF
  <2>1. Halve(st, oldF).buckets = c /\ Halve(st, oldF).items = z
    BY <1>3 DEF Halve
  <2> QED
    BY <1>2, <1>3, <2>1
<1> QED
  BY <1>1, <1>3

(* The state after each round. *)
Ageing(st, order) ==
    CHOOSE r : r = [i \in 0..Len(order) |-> IF i = 0 THEN st ELSE Halve(r[i - 1], order[i])]

(* There is such a function: take the least number of rounds without one.  *)
LEMMA AgeingRounds ==
    ASSUME NEW st, NEW order, Len(order) \in Nat
    PROVE  /\ Aged(st, order) = Ageing(st, order)[Len(order)]
           /\ Ageing(st, order)[0] = st
           /\ \A i \in 1..Len(order) : Ageing(st, order)[i] = Halve(Ageing(st, order)[i - 1], order[i])
<1> DEFINE Rounds(m, r) == r = [i \in 0..m |-> IF i = 0 THEN st ELSE Halve(r[i - 1], order[i])]
           T == {m \in Nat : ~ \E r : Rounds(m, r)}
<1>1. T = {}
  <2> SUFFICES ASSUME T # {} PROVE FALSE
    OBVIOUS
  <2>1. T \in SUBSET Nat
    OBVIOUS
  <2>2. PICK m \in T : \A y \in T : m <= y
    <3> HIDE DEF T
    <3> QED
      BY <2>1, LeastNat
  <2>3. m \in Nat /\ ~ \E r : Rounds(m, r)
    OBVIOUS
  <2>4. m # 0
    <3>1. Rounds(0, [i \in 0..0 |-> st])
      OBVIOUS
    <3> QED
      BY <2>3, <3>1
  <2>5. m - 1 \in Nat /\ m - 1 \notin T
    <3> HIDE DEF T, Rounds
    <3> QED
      BY <2>2, <2>3, <2>4
  <2>6. PICK h : Rounds(m - 1, h)
    <3> HIDE DEF Rounds
    <3> QED
      BY <2>5
  <2> DEFINE g == [i \in 0..m |-> IF i = m THEN Halve(h[m - 1], order[m]) ELSE h[i]]
  <2>7. \A i \in 0..m : g[i] = IF i = 0 THEN st ELSE Halve(g[i - 1], order[i])
    <3> SUFFICES ASSUME NEW i \in 0..m
                 PROVE  g[i] = IF i = 0 THEN st ELSE Halve(g[i - 1], order[i])
      OBVIOUS
    <3>1. CASE i = 0
      BY <2>4, <2>5, <2>6, <3>1
    <3>2. CASE i # 0
      <4>1. i - 1 \in 0..m - 1 /\ i - 1 # m /\ i - 1 \in 0..m
        BY <2>3, <3>2
      <4>2. g[i - 1] = h[i - 1]
        BY <4>1
      <4>3. CASE i = m
        BY <3>2, <4>2, <4>3
      <4>4. CASE i # m
        <5>1. i \in 0..m - 1 /\ g[i] = h[i]
          BY <2>3, <4>4
        <5>2. h[i] = Halve(h[i - 1], order[i])
          BY <2>6, <3>2, <5>1
        <5> QED
          BY <3>2, <4>2, <5>1, <5>2
      <4> QED
        BY <4>3, <4>4
    <3> QED
      BY <3>1, <3>2
  <2>8. Rounds(m, g)
    <3>1. g = [i \in 0..m |-> g[i]]
      OBVIOUS
    <3> HIDE DEF g
    <3> QED
      BY <2>7, <3>1
  <2> QED
    BY <2>3, <2>8
<1>2. \E r : Rounds(Len(order), r)
  BY <1>1
<1>3. Rounds(Len(order), Ageing(st, order))
  BY <1>2 DEF Ageing
<1>4. Aged(st, order) = Ageing(st, order)[Len(order)]
  BY DEF Aged, Ageing
<1> HIDE DEF T
<1>5. \A i \in 0..Len(order) :
         Ageing(st, order)[i] = IF i = 0 THEN st ELSE Halve(Ageing(st, order)[i - 1], order[i])
  BY <1>3
<1> QED
  BY <1>4, <1>5

(* A whole ageing pass, in any order of the frequencies present at its     *)
(* start: the frequencies still to come keep their lists.                  *)
LEMMA AgedFiled ==
    ASSUME NEW st, Filed(st.buckets, st.items, DOMAIN st.items),
           NEW order \in SetToSeqs(DOMAIN st.buckets)
    PROVE  /\ Filed(Aged(st, order).buckets, Aged(st, order).items, DOMAIN st.items)
           /\ DOMAIN Aged(st, order).items = DOMAIN st.items
<1> DEFINE r == Ageing(st, order)
           m == Len(order)
           Good(i) == /\ Filed(r[i].buckets, r[i].items, DOMAIN st.items)
                      /\ DOMAIN r[i].items = DOMAIN st.items
                      /\ \A j \in i + 1..m : order[j] \in DOMAIN r[i].buckets
           T == {i \in 0..m : ~Good(i)}
<1>1. /\ order \in Seq(DOMAIN st.buckets) /\ Distinct(order) /\ m \in Nat
      /\ \A j \in 1..m : order[j] \in DOMAIN st.buckets
  <2>1. DOMAIN st.buckets \subseteq 1..MaxFreq
    BY DEF Filed
  <2>2. IsFiniteSet(1..MaxFreq)
    BY FreqAssumption, FS_Interval
  <2>3. IsFiniteSet(DOMAIN st.buckets)
    BY <2>1, <2>2, FS_Subset
  <2>4. order \in Seq(DOMAIN st.buckets) /\ Distinct(order)
    BY <2>3, OrderFacts
  <2> QED
    BY <2>4, LenProperties, ElementOfSeq
<1>2. /\ Aged(st, order) = r[m] /\ r[0] = st
      /\ \A i \in 1..m : r[i] = Halve(r[i - 1], order[i])
  BY <1>1, AgeingRounds
<1> HIDE DEF r
<1>3. Good(0)
  BY <1>1, <1>2
<1>4. ASSUME NEW i \in 1..m, Good(i - 1) PROVE Good(i)
  <2>1. /\ i \in (i - 1) + 1..m /\ i - 1 \in Nat
        /\ \A j \in i + 1..m : j \in (i - 1) + 1..m /\ j \in 1..m /\ j # i
    BY <1>1
  <2>2. order[i] \in DOMAIN r[i - 1].buckets
    BY <1>4, <2>1
  <2>3. /\ Filed(r[i].buckets, r[i].items, DOMAIN r[i - 1].items)
        /\ DOMAIN r[i].items = DOMAIN r[i - 1].items
        /\ DOMAIN r[i - 1].buckets \ {order[i]} \subseteq DOMAIN r[i].buckets
    BY <1>2, <1>4, <2>2, HalveFiled
  <2>4. ASSUME NEW j \in i + 1..m PROVE order[j] \in DOMAIN r[i].buckets
    <3>1. order[j] # order[i]
      BY <1>1, <2>1 DEF Distinct
    <3>2. order[j] \in DOMAIN r[i - 1].buckets
      BY <1>4, <2>1
    <3> QED
      BY <2>3, <3>1, <3>2
  <2> QED
    BY <1>4, <2>3, <2>4
<1> HIDE DEF Good
<1>5. T = {}
  <2> SUFFICES ASSUME T # {} PROVE FALSE
    OBVIOUS
  <2>1. T \in SUBSET Nat
    BY <1>1
  <2>2. PICK i \in T : \A y \in T : i <= y
    <3> HIDE DEF T
    <3> QED
      BY <2>1, LeastNat
  <2>3. i # 0
    BY <1>3
  <2>4. i \in 1..m /\ i - 1 \in 0..m /\ i - 1 \notin T
    BY <1>1, <2>2, <2>3
  <2> QED
    BY <1>4, <2>4
<1>6. m \in 0..m
  BY <1>1
<1>7. Good(m)
  BY <1>5, <1>6
<1> QED
  BY <1>2, <1>7 DEF Good

-----------------------------------------------------------------------------
(* Rebuilding *)

(* The state after each entry. *)
Adopting(entries, count) ==
    CHOOSE r : r = [i \in 0..Len(entries) |->
                      IF i = 0 THEN [buckets |-> << >>, items |-> << >>]
                      ELSE Pushed(r[i - 1].buckets, r[i - 1].items, entries[i], Clamp(count[entries[i]]))]

LEMMA AdoptingRounds ==
    ASSUME NEW entries, NEW count, Len(entries) \in Nat
    PROVE  /\ Adopted(entries, count) = Adopting(entries, count)[Len(entries)]
           /\ Adopting(entries, count)[0] = [buckets |-> << >>, items |-> << >>]
           /\ \A i \in 1..Len(entries) :
                 Adopting(entries, count)[i] =
                    Pushed(Adopting(entries, count)[i - 1].buckets, Adopting(entries, count)[i - 1].items,
                           entries[i], Clamp(count[entries[i]]))
<1> DEFINE st == [buckets |-> << >>, items |-> << >>]
           Push(s, i) == Pushed(s.buckets, s.items, entries[i], Clamp(count[entries[i]]))
           Rounds(m, r) == r = [i \in 0..m |-> IF i = 0 THEN st ELSE Push(r[i - 1], i)]
           T == {m \in Nat : ~ \E r : Rounds(m, r)}
<1> HIDE DEF st, Push
<1>1. T = {}
  <2> SUFFICES ASSUME T # {} PROVE FALSE
    OBVIOUS
  <2>1. T \in SUBSET Nat
    OBVIOUS
  <2>2. PICK m \in T : \A y \in T : m <= y
    <3> HIDE DEF T
    <3> QED
      BY <2>1, LeastNat
  <2>3. m \in Nat /\ ~ \E r : Rounds(m, r)
    OBVIOUS
  <2>4. m # 0
    <3> DEFINE s == [i \in 0..0 |-> st]
    <3>1. s = [i \in 0..0 |-> IF i = 0 THEN st ELSE Push(s[i - 1], i)]
      OBVIOUS
    <3> HIDE DEF s
    <3>2. Rounds(0, s)
      BY <3>1
    <3> QED
      BY <2>3, <3>2
  <2>5. m - 1 \in Nat /\ m - 1 \notin T
    <3> HIDE DEF T, Rounds
    <3> QED
      BY <2>2, <2>3, <2>4
  <2>6. PICK h : Rounds(m - 1, h)
    <3> HIDE DEF Rounds
    <3> QED
      BY <2>5
  <2> DEFINE g == [i \in 0..m |-> IF i = m THEN Push(h[m - 1], m) ELSE h[i]]
  <2>7. \A i \in 0..m : g[i] = IF i = 0 THEN st ELSE Push(g[i - 1], i)
    <3> SUFFICES ASSUME NEW i \in 0..m
                 PROVE  g[i] = IF i = 0 THEN st ELSE Push(g[i - 1], i)
      OBVIOUS
    <3>1. CASE i = 0
      BY <2>4, <2>5, <2>6, <3>1
    <3>2. CASE i # 0
      <4>1. i - 1 \in 0..m - 1 /\ i - 1 # m /\ i - 1 \in 0..m
        BY <2>3, <3>2
      <4>2. g[i - 1] = h[i - 1]
        BY <4>1
      <4>3. CASE i = m
        BY <3>2, <4>2, <4>3
      <4>4. CASE i # m
        <5>1. i \in 0..m - 1 /\ g[i] = h[i]
          BY <2>3, <4>4
        <5>2. h[i] = Push(h[i - 1], i)
          BY <2>6, <3>2, <5>1
        <5> QED
          BY <3>2, <4>2, <5>1, <5>2
      <4> QED
        BY <4>3, <4>4
    <3> QED
      BY <3>1, <3>2
  <2>8. Rounds(m, g)
    <3>1. g = [i \in 0..m |-> g[i]]
      OBVIOUS
    <3> HIDE DEF g
    <3> QED
      BY <2>7, <3>1
  <2> QED
    BY <2>3, <2>8
<1>2. \E r : Rounds(Len(entries), r)
  BY <1>1
<1>3. Rounds(Len(entries), Adopting(entries, count))
  BY <1>2 DEF Adopting, st, Push
<1>4. Adopted(entries, count) = Adopting(entries, count)[Len(entries)]
  BY DEF Adopted, Adopting
<1> HIDE DEF T
<1>5. \A i \in 0..Len(entries) :
         Adopting(entries, count)[i] = IF i = 0 THEN st ELSE Push(Adopting(entries, count)[i - 1], i)
  BY <1>3
<1>6. Adopting(entries, count)[0] = st
  BY <1>5
<1>7. \A i \in 1..Len(entries) : Adopting(entries, count)[i] = Push(Adopting(entries, count)[i - 1], i)
  BY <1>5
<1> QED
  BY <1>4, <1>6, <1>7 DEF st, Push

(* Every entry ends up filed once, at a frequency in range. *)
LEMMA AdoptedFiled ==
    ASSUME NEW entries \in Seq(Keys), Distinct(entries), NEW count \in [ToSet(entries) -> Counts]
    PROVE  /\ Filed(Adopted(entries, count).buckets, Adopted(entries, count).items, ToSet(entries))
           /\ DOMAIN Adopted(entries, count).items = ToSet(entries)
<1> DEFINE r == Adopting(entries, count)
           m == Len(entries)
           Sofar(i) == {entries[j] : j \in 1..i}
           Good(i) == Filed(r[i].buckets, r[i].items, Sofar(i)) /\ DOMAIN r[i].items = Sofar(i)
           T == {i \in 0..m : ~Good(i)}
<1>1. /\ m \in Nat /\ \A j \in 1..m : entries[j] \in Keys /\ entries[j] \in ToSet(entries)
      /\ ToSet(entries) = Sofar(m)
  BY LenProperties, ElementOfSeq, ToSetMember
<1>2. /\ Adopted(entries, count) = r[m] /\ r[0] = [buckets |-> << >>, items |-> << >>]
      /\ \A i \in 1..m : r[i] = Pushed(r[i - 1].buckets, r[i - 1].items, entries[i], Clamp(count[entries[i]]))
  BY <1>1, AdoptingRounds
<1> HIDE DEF r
<1>3. Good(0)
  <2>1. r[0].buckets = << >> /\ r[0].items = << >> /\ Sofar(0) = {}
    BY <1>2
  <2>2. DOMAIN << >> = {}
    OBVIOUS
  <2> QED
    BY <2>1, <2>2 DEF Filed
<1>4. ASSUME NEW i \in 1..m, Good(i - 1) PROVE Good(i)
  <2>1. Clamp(count[entries[i]]) \in 1..MaxFreq
    <3>1. count[entries[i]] \in Nat
      BY <1>1, FreqAssumption
    <3> QED
      BY <3>1, FreqAssumption DEF Clamp
  <2>2. entries[i] \in Keys /\ entries[i] \notin Sofar(i - 1)
    BY <1>1 DEF Distinct
  <2>3. Sofar(i) = Sofar(i - 1) \cup {entries[i]}
    <3>1. \A j : j \in 1..i <=> j \in 1..(i - 1) \/ j = i
      BY <1>1
    <3> QED
      BY <3>1
  <2> DEFINE f == Clamp(count[entries[i]])
             D == Sofar(i - 1)
             k == entries[i]
             b == r[i - 1].buckets
             x == r[i - 1].items
  <2>4. Filed(b, x, D) /\ D \subseteq DOMAIN x /\ DOMAIN x = D /\ k \in Keys /\ k \notin D /\ f \in 1..MaxFreq
    BY <1>4, <2>1, <2>2
  <2>5. r[i] = Pushed(b, x, k, f)
    BY <1>2
  <2>6. Sofar(i) = D \cup {k}
    BY <2>3
  <2> HIDE DEF f, D, k, b, x, Sofar
  <2>7. Filed(Pushed(b, x, k, f).buckets, Pushed(b, x, k, f).items, D \cup {k})
    BY <2>4, PushedFiled
  <2>8. DOMAIN Pushed(b, x, k, f).items = DOMAIN x \cup {k}
    BY DEF Pushed
  <2> QED
    BY <2>4, <2>5, <2>6, <2>7, <2>8
<1> HIDE DEF Good
<1>5. T = {}
  <2> SUFFICES ASSUME T # {} PROVE FALSE
    OBVIOUS
  <2>1. T \in SUBSET Nat
    BY <1>1
  <2>2. PICK i \in T : \A y \in T : i <= y
    <3> HIDE DEF T
    <3> QED
      BY <2>1, LeastNat
  <2>3. i # 0
    BY <1>3
  <2>4. i \in 1..m /\ i - 1 \in 0..m /\ i - 1 \notin T
    BY <1>1, <2>2, <2>3
  <2> QED
    BY <1>4, <2>4
<1>6. m \in 0..m
  BY <1>1
<1>7. Good(m)
  BY <1>5, <1>6
<1> QED
  BY <1>1, <1>2, <1>7 DEF Good

-----------------------------------------------------------------------------
(* The actions *)

LEMMA AgePeriodFacts ==
    ASSUME NEW lambda \in Int
    PROVE  AgePeriod(lambda) \in Nat
<1>1. lambda > 0 => 100 \div lambda \in Int
  OBVIOUS
<1> QED
  BY <1>1 DEF AgePeriod

(* With nothing offered there is nothing to say about what was offered. *)
LEMMA NoAnswer == ASSUME answer' = << >> PROVE AnswerInv'
BY EmptySeq DEF AnswerInv

(* Removing and adding one key changes the count by one. *)
LEMMA TrackedCount ==
    ASSUME NEW D, D \subseteq Keys, NEW k
    PROVE  /\ Cardinality(D) \in Nat
           /\ k \in D => Cardinality(D \ {k}) = Cardinality(D) - 1
           /\ k \notin D => Cardinality(D \cup {k}) = Cardinality(D) + 1
<1>1. IsFiniteSet(D)
  BY KeysAssumption, FS_Subset
<1> QED
  BY <1>1, FS_CardinalityType, FS_AddElement, FS_RemoveElement

LEMMA OnAccessKeepsInv ==
    ASSUME LFUInv, NEW k \in Keys, OnAccess(k)
    PROVE  LFUInv'
<1>1. BucketInv'
  <2>1. /\ Filed(Incremented(k).buckets, Incremented(k).items, DOMAIN items)
        /\ DOMAIN Incremented(k).items = DOMAIN items
    BY IncrementedFiled DEF LFUInv, BucketInv, OnAccess
  <2>2. buckets' = Incremented(k).buckets /\ items' = Incremented(k).items /\ n' = n /\ metadata' = metadata
    BY DEF OnAccess
  <2> QED
    BY <2>1, <2>2 DEF LFUInv, BucketInv
<1>2. AgeInv'
  BY DEF LFUInv, AgeInv, OnAccess
<1>3. OrderInv'
  BY IncrementRecorded DEF LFUInv, BucketInv, OrderInv, OnAccess
<1> QED
  BY <1>1, <1>2, <1>3, NoAnswer DEF LFUInv, OnAccess

LEMMA OnAccessAgesKeepsInv ==
    ASSUME LFUInv, NEW k \in Keys, OnAccessAges(k)
    PROVE  LFUInv' /\ DOMAIN items' = DOMAIN items
<1> DEFINE st == Incremented(k)
<1>1. PICK order \in SetToSeqs(DOMAIN st.buckets) :
         buckets' = Aged(st, order).buckets /\ items' = Aged(st, order).items
  BY DEF OnAccessAges
<1>2. Filed(st.buckets, st.items, DOMAIN items) /\ DOMAIN st.items = DOMAIN items
  BY IncrementedFiled DEF LFUInv, BucketInv, OnAccessAges
<1> HIDE DEF st
<1>3. /\ Filed(Aged(st, order).buckets, Aged(st, order).items, DOMAIN items)
      /\ DOMAIN Aged(st, order).items = DOMAIN items
  BY <1>2, AgedFiled
<1>4. BucketInv' /\ DOMAIN items' = DOMAIN items
  <2>1. n' = n /\ metadata' = metadata
    BY DEF OnAccessAges
  <2> QED
    BY <1>1, <1>3, <2>1 DEF LFUInv, BucketInv
<1>5. AgeInv'
  BY DEF LFUInv, AgeInv, OnAccessAges
<1>6. OrderInv'
  BY NothingRecorded DEF OnAccessAges
<1> QED
  BY <1>4, <1>5, <1>6, NoAnswer DEF LFUInv, OnAccessAges

LEMMA OnInsertKeepsInv ==
    ASSUME LFUInv, NEW k \in Keys, OnInsert(k)
    PROVE  LFUInv' /\ DOMAIN items' = DOMAIN items \cup {k}
<1>0. /\ Filed(buckets, items, DOMAIN items) /\ DOMAIN items \subseteq Keys
      /\ n = Cardinality(DOMAIN items) /\ metadata = n * lfuPerEntryBytes
  BY DEF LFUInv, BucketInv, Filed
<1>1. BucketInv' /\ DOMAIN items' = DOMAIN items \cup {k}
  <2>1. CASE k \in DOMAIN items
    <3>1. /\ Filed(Incremented(k).buckets, Incremented(k).items, DOMAIN items)
          /\ DOMAIN Incremented(k).items = DOMAIN items
      BY <1>0, <2>1, IncrementedFiled
    <3>2. buckets' = Incremented(k).buckets /\ items' = Incremented(k).items /\ n' = n /\ metadata' = metadata
      BY <2>1 DEF OnInsert
    <3> QED
      BY <1>0, <2>1, <3>1, <3>2 DEF BucketInv
  <2>2. CASE k \notin DOMAIN items
    <3>0. 1 \in 1..MaxFreq
      BY FreqAssumption
    <3>1. Filed(Pushed(buckets, items, k, 1).buckets, Pushed(buckets, items, k, 1).items, DOMAIN items \cup {k})
      BY <1>0, <2>2, <3>0, PushedFiled
    <3>5. DOMAIN Pushed(buckets, items, k, 1).items = DOMAIN items \cup {k}
      BY DEF Pushed
    <3>2. /\ buckets' = Pushed(buckets, items, k, 1).buckets /\ items' = Pushed(buckets, items, k, 1).items
          /\ n' = n + 1 /\ metadata' = metadata + lfuPerEntryBytes
      BY <2>2 DEF OnInsert
    <3>3. Cardinality(DOMAIN items \cup {k}) = n + 1 /\ n \in Nat
      BY <1>0, <2>2, TrackedCount
    <3>4. metadata' = n' * lfuPerEntryBytes
      BY <1>0, <3>2, <3>3 DEF lfuPerEntryBytes
    <3> QED
      BY <3>1, <3>2, <3>3, <3>4, <3>5 DEF BucketInv
  <2> QED
    BY <2>1, <2>2
<1>2. AgeInv'
  BY DEF LFUInv, AgeInv, OnInsert
<1>3. OrderInv'
  <2>1. CASE k \in DOMAIN items
    BY <1>0, <2>1, IncrementRecorded DEF LFUInv, OrderInv, OnInsert
  <2>2. CASE k \notin DOMAIN items
    BY <1>0, <2>2, InsertRecorded DEF LFUInv, OrderInv, OnInsert
  <2> QED
    BY <2>1, <2>2
<1> QED
  BY <1>1, <1>2, <1>3, NoAnswer DEF LFUInv, OnInsert

LEMMA OnRemoveKeepsInv ==
    ASSUME LFUInv, NEW k \in Keys, OnRemove(k)
    PROVE  LFUInv' /\ DOMAIN items' = DOMAIN items \ {k}
<1>0. /\ Filed(buckets, items, DOMAIN items) /\ DOMAIN items \subseteq Keys
      /\ n = Cardinality(DOMAIN items) /\ metadata = n * lfuPerEntryBytes
  BY DEF LFUInv, BucketInv, Filed
<1>1. BucketInv' /\ DOMAIN items' = DOMAIN items \ {k}
  <2>1. CASE k \notin DOMAIN items
    <3>1. buckets' = buckets /\ items' = items /\ n' = n /\ metadata' = metadata
      BY <2>1 DEF OnRemove
    <3> QED
      BY <1>0, <2>1, <3>1 DEF BucketInv
  <2>2. CASE k \in DOMAIN items
    <3>1. /\ buckets' = Detached(buckets, items, k) /\ items' = [x \in DOMAIN items \ {k} |-> items[x]]
          /\ n' = n - 1 /\ metadata' = metadata - lfuPerEntryBytes
      BY <2>2 DEF OnRemove
    <3>2. Filed(buckets', items, DOMAIN items \ {k})
      BY <1>0, <2>2, <3>1, DetachedFiled
    <3>3. DOMAIN items' = DOMAIN items \ {k} /\ \A x \in DOMAIN items \ {k} : items'[x] = items[x]
      BY <3>1
    <3>4. Filed(buckets', items', DOMAIN items')
      BY <3>2, <3>3 DEF Filed
    <3>5. Cardinality(DOMAIN items \ {k}) = n - 1 /\ n \in Nat
      BY <1>0, <2>2, TrackedCount
    <3>6. metadata' = n' * lfuPerEntryBytes
      BY <1>0, <3>1, <3>5 DEF lfuPerEntryBytes
    <3> QED
      BY <3>1, <3>3, <3>4, <3>5, <3>6 DEF BucketInv
  <2> QED
    BY <2>1, <2>2
<1>2. AgeInv'
  BY DEF LFUInv, AgeInv, OnRemove
<1>3. OrderInv'
  <2>1. CASE k \notin DOMAIN items
    BY <2>1 DEF LFUInv, OrderInv, OnRemove
  <2>2. CASE k \in DOMAIN items
    <3>1. /\ buckets' = Detached(buckets, items, k) /\ items' = [x \in DOMAIN items \ {k} |-> items[x]]
          /\ older' = Left(k)
      BY <2>2 DEF OnRemove
    <3>2. \A f \in DOMAIN buckets' : NewestFirst(buckets'[f], older)
      BY <1>0, <2>2, <3>1, DetachedOrdered DEF LFUInv, OrderInv, Recorded
    <3>3. \A x, y : <<x, y>> \in older' => <<x, y>> \in older /\ x # k /\ y # k
      BY <3>1 DEF Left
    <3>4. \A f \in DOMAIN buckets' : NewestFirst(buckets'[f], older')
      BY <3>2, <3>3 DEF NewestFirst
    <3>5. \A x, y : <<x, y>> \in older' => x \in DOMAIN items' /\ y \in DOMAIN items' /\ items'[x] = items'[y]
      BY <3>1, <3>3 DEF LFUInv, OrderInv, Recorded
    <3> QED
      BY <3>4, <3>5 DEF OrderInv, Recorded
  <2> QED
    BY <2>1, <2>2
<1> QED
  BY <1>1, <1>2, <1>3, NoAnswer DEF LFUInv, OnRemove

LEMMA RebuildKeepsInv ==
    ASSUME LFUInv, NEW entries \in SetToAllKPermutations(Keys), NEW count \in [ToSet(entries) -> Counts],
           Rebuild(entries, count)
    PROVE  LFUInv' /\ DOMAIN items' = ToSet(entries)
<1>1. entries \in Seq(Keys) /\ Distinct(entries)
  BY PermutationFacts, KeysAssumption
<1>2. /\ Filed(Adopted(entries, count).buckets, Adopted(entries, count).items, ToSet(entries))
      /\ DOMAIN Adopted(entries, count).items = ToSet(entries)
  BY <1>1, AdoptedFiled
<1>3. Cardinality(ToSet(entries)) = Len(entries)
  BY <1>1, DistinctCardinality
<1>4. BucketInv' /\ DOMAIN items' = ToSet(entries)
  <2>1. /\ buckets' = Adopted(entries, count).buckets /\ items' = Adopted(entries, count).items
        /\ n' = Len(entries) /\ metadata' = Len(entries) * lfuPerEntryBytes
    BY DEF Rebuild
  <2> QED
    BY <1>2, <1>3, <2>1 DEF BucketInv
<1>5. AgeInv'
  BY DEF LFUInv, AgeInv, Rebuild
<1>6. OrderInv'
  BY NothingRecorded DEF Rebuild
<1> QED
  BY <1>4, <1>5, <1>6, NoAnswer DEF LFUInv, Rebuild

(* A new policy, and one that was reset, is empty. *)
LEMMA EmptyFiled == Filed(<< >>, << >>, DOMAIN << >>) /\ Cardinality(DOMAIN << >>) = 0
<1>1. DOMAIN << >> = {}
  OBVIOUS
<1> QED
  BY <1>1, FS_EmptySet DEF Filed

(* While a key is tracked, the lowest bucket is there, and whatever is in  *)
(* it is tracked at the lowest frequency.                                  *)
LEMMA LowestBucket ==
    ASSUME BucketInv, DOMAIN items # {}
    PROVE  /\ lowestFreq \in DOMAIN buckets /\ lowestFreq # 0
           /\ buckets[lowestFreq] \in Seq(Keys) /\ Len(buckets[lowestFreq]) \in Nat \ {0}
           /\ \A j \in 1..Len(buckets[lowestFreq]) :
                 /\ buckets[lowestFreq][j] \in DOMAIN items
                 /\ \A k \in DOMAIN items : items[buckets[lowestFreq][j]] <= items[k]
<1> DEFINE low == lowestFreq
<1>0. Filed(buckets, items, DOMAIN items)
  BY DEF BucketInv
<1>1. DOMAIN buckets # {} /\ DOMAIN buckets \in SUBSET Nat /\ 0 \notin DOMAIN buckets
  BY <1>0, FreqAssumption DEF Filed
<1>2. low = Min(DOMAIN buckets)
  BY <1>1 DEF lowestFreq
<1>3. Min(DOMAIN buckets) \in DOMAIN buckets /\ \A f \in DOMAIN buckets : Min(DOMAIN buckets) <= f
  BY <1>1, MinFacts
<1> HIDE DEF low
<1>4. low \in DOMAIN buckets /\ low # 0 /\ \A f \in DOMAIN buckets : low <= f
  BY <1>1, <1>2, <1>3
<1> DEFINE l == buckets[low]
<1>5. l \in Seq(Keys) /\ l # << >> /\ ToSet(l) = {k \in DOMAIN items : items[k] = low}
  BY <1>0, <1>4 DEF Filed
<1>6. \A k \in DOMAIN items : low <= items[k]
  BY <1>0, <1>4 DEF Filed
<1> HIDE DEF l
<1>7. Len(l) \in Nat \ {0}
  BY <1>5, LenProperties, EmptySeq
<1>8. \A j \in 1..Len(l) : l[j] \in ToSet(l)
  BY <1>5, ToSetMember
<1>9. \A j \in 1..Len(l) : l[j] \in DOMAIN items /\ \A k \in DOMAIN items : items[l[j]] <= items[k]
  BY <1>5, <1>6, <1>8
<1> QED
  BY <1>4, <1>5, <1>7, <1>9 DEF l, low

(* What came before a key of the lowest bucket is behind it there. *)
LEMMA LowestOrdered ==
    ASSUME BucketInv, OrderInv, DOMAIN items # {},
           NEW j \in 1..Len(buckets[lowestFreq]), NEW k, <<k, buckets[lowestFreq][j]>> \in older
    PROVE  \E i \in 1..Len(buckets[lowestFreq]) : i > j /\ buckets[lowestFreq][i] = k
<1> DEFINE l == buckets[lowestFreq]
<1>1. lowestFreq \in DOMAIN buckets /\ l \in Seq(Keys) /\ l[j] \in DOMAIN items
  BY LowestBucket
<1>2. ToSet(l) = {y \in DOMAIN items : items[y] = lowestFreq} /\ NewestFirst(l, older)
  BY <1>1 DEF BucketInv, Filed, OrderInv, Recorded
<1>3. l[j] \in ToSet(l)
  BY <1>1, ToSetMember
<1>4. k \in DOMAIN items /\ items[k] = items[l[j]]
  BY DEF OrderInv, Recorded
<1>5. k \in ToSet(l)
  BY <1>2, <1>3, <1>4
<1>6. PICK i \in 1..Len(l) : l[i] = k
  BY <1>1, <1>5, ToSetMember
<1> QED
  BY <1>2, <1>6 DEF NewestFirst

(* Without a tracked key there is no bucket. *)
LEMMA NoBucket ==
    ASSUME BucketInv, DOMAIN items = {}
    PROVE  DOMAIN buckets = {} /\ n = 0
<1>1. ASSUME NEW f \in DOMAIN buckets PROVE FALSE
  <2>1. buckets[f] \in Seq(Keys) /\ buckets[f] # << >> /\ ToSet(buckets[f]) = {}
    BY DEF BucketInv, Filed
  <2> QED
    BY <2>1, EmptyIffNothing
<1> QED
  BY <1>1, FS_EmptySet DEF BucketInv

(* The victim is tracked and at the lowest frequency. *)
LEMMA VictimKeepsInv ==
    ASSUME LFUInv, Victim
    PROVE  /\ LFUInv'
           /\ IF DOMAIN items = {} THEN answer' = << >> ELSE \E k \in DOMAIN items : answer' = <<k>>
<1>0. /\ buckets' = buckets /\ items' = items /\ n' = n /\ metadata' = metadata
      /\ ageCnt' = ageCnt /\ ageMax' = ageMax /\ older' = older
  BY DEF Victim
<1>1. BucketInv' /\ AgeInv' /\ OrderInv'
  BY <1>0 DEF LFUInv, BucketInv, AgeInv, OrderInv
<1>2. CASE DOMAIN items = {}
  <2>1. DOMAIN buckets = {}
    BY <1>2, NoBucket DEF LFUInv
  <2>2. answer' = << >>
    BY <2>1 DEF Victim, lowestFreq
  <2> QED
    BY <1>1, <1>2, <2>2, NoAnswer DEF LFUInv
<1>3. CASE DOMAIN items # {}
  <2> DEFINE l == buckets[lowestFreq]
  <2>1. /\ lowestFreq \in DOMAIN buckets /\ lowestFreq # 0
        /\ l \in Seq(Keys) /\ Len(l) \in Nat \ {0}
        /\ \A j \in 1..Len(l) : l[j] \in DOMAIN items /\ \A k \in DOMAIN items : items[l[j]] <= items[k]
    BY <1>3, LowestBucket DEF LFUInv
  <2>2. At(buckets, lowestFreq) = l
    BY <2>1 DEF At
  <2>3. answer' = IF lowestFreq = 0 \/ l = << >> THEN << >> ELSE <<Last(l)>>
    BY <2>2 DEF Victim
  <2> HIDE DEF l
  <2>4. l # << >> /\ Len(l) \in 1..Len(l)
    BY <2>1, EmptySeq
  <2>5. answer' = <<l[Len(l)]>> /\ l[Len(l)] \in DOMAIN items
    BY <2>1, <2>3, <2>4 DEF Last
  <2>6. /\ answer' \in Seq(DOMAIN items)
        /\ \A i \in 1..Len(answer'), k \in DOMAIN items : items[answer'[i]] <= items[k]
    BY <2>1, <2>4, <2>5
  <2>8. ASSUME NEW k, <<k, l[Len(l)]>> \in older PROVE FALSE
    <3>1. \E i \in 1..Len(l) : i > Len(l) /\ l[i] = k
      BY <1>3, <2>4, <2>8, LowestOrdered DEF LFUInv, l
    <3> QED
      BY <2>1, <3>1
  <2>9. \A i \in 1..Len(answer') : answer'[i] = l[Len(l)]
    BY <2>5
  <2>7. AnswerInv'
    BY <1>0, <2>6, <2>8, <2>9 DEF AnswerInv
  <2> QED
    BY <1>1, <1>3, <2>5, <2>7 DEF LFUInv
<1> QED
  BY <1>2, <1>3

(* Indices that go round a list. *)
LEMMA RemainderFacts ==
    ASSUME NEW i \in Nat, NEW m \in Nat \ {0}
    PROVE  i % m \in 0..m - 1 /\ i % m <= i /\ (i < m => i % m = i)
OBVIOUS

(* So are the candidates, of which there is one if a key is tracked. *)
LEMMA CandidatesKeepsInv ==
    ASSUME LFUInv, NEW b \in 0..MaxBatch, Candidates(b)
    PROVE  /\ LFUInv'
           /\ answer' \in Seq(DOMAIN items) /\ Len(answer') <= b
           /\ b > 0 /\ DOMAIN items # {} => answer' # << >>
<1>0. /\ buckets' = buckets /\ items' = items /\ n' = n /\ metadata' = metadata
      /\ ageCnt' = ageCnt /\ ageMax' = ageMax /\ older' = older
  BY DEF Candidates
<1>1. BucketInv' /\ AgeInv' /\ OrderInv'
  BY <1>0 DEF LFUInv, BucketInv, AgeInv, OrderInv
<1>2. b \in Nat /\ (n = 0 <=> DOMAIN items = {})
  <2>1. IsFiniteSet(DOMAIN items)
    BY KeysAssumption, FS_Subset DEF LFUInv, BucketInv, Filed
  <2> QED
    BY <2>1, BatchAssumption, FS_EmptySet DEF LFUInv, BucketInv
<1>3. CASE b <= 0 \/ n = 0
  <2>1. answer' = << >>
    BY <1>3 DEF Candidates
  <2> QED
    BY <1>1, <1>2, <1>3, <2>1, NoAnswer, EmptySeq DEF LFUInv
<1>4. CASE ~(b <= 0 \/ n = 0)
  <2> DEFINE l == buckets[lowestFreq]
             w == Reverse(l)
  <2>1. /\ l \in Seq(Keys) /\ Len(l) \in Nat \ {0}
        /\ \A j \in 1..Len(l) : l[j] \in DOMAIN items /\ \A k \in DOMAIN items : items[l[j]] <= items[k]
    BY <1>2, <1>4, LowestBucket DEF LFUInv
  <2>2. answer' = [i \in 1..b |-> w[((i - 1) % Len(w)) + 1]]
    BY <1>4 DEF Candidates
  <2> HIDE DEF l
  <2>3. Len(w) = Len(l) /\ \A j \in 1..Len(l) : w[j] = l[Len(l) - j + 1]
    BY <2>1, ReverseFacts
  <2> HIDE DEF w
  <2>4. \A j \in 1..Len(l) : w[j] \in DOMAIN items /\ \A k \in DOMAIN items : items[w[j]] <= items[k]
    <3>1. \A j \in 1..Len(l) : Len(l) - j + 1 \in 1..Len(l)
      BY <2>1
    <3> QED
      BY <2>1, <2>3, <3>1
  <2>5. \A i \in 1..b : ((i - 1) % Len(w)) + 1 \in 1..Len(l)
    BY <1>2, <2>1, <2>3
  <2>6. /\ answer' \in [1..b -> DOMAIN items]
        /\ \A i \in 1..b, k \in DOMAIN items : items[answer'[i]] <= items[k]
    BY <2>2, <2>4, <2>5
  <2>7. answer' \in Seq(DOMAIN items) /\ Len(answer') = b
    BY <1>2, <2>6, FunctionIsSeq
  <2>10. ASSUME NEW i \in 1..b, NEW k, <<k, answer'[i]>> \in older
         PROVE  \E h \in 1..b : h < i /\ answer'[h] = k
    <3> DEFINE at == ((i - 1) % Len(w)) + 1
    <3>1. at \in 1..Len(l) /\ at <= i /\ Len(l) - at + 1 \in 1..Len(l)
      <4>1. i - 1 \in Nat /\ Len(w) \in Nat \ {0}
        BY <1>2, <2>1, <2>3
      <4>2. (i - 1) % Len(w) \in 0..Len(w) - 1 /\ (i - 1) % Len(w) <= i - 1
        BY <4>1, RemainderFacts
      <4> HIDE DEF at
      <4> QED
        BY <1>2, <2>1, <2>3, <4>1, <4>2, SMTT(30) DEF at
    <3>2. answer'[i] = l[Len(l) - at + 1]
      BY <2>2, <2>3, <3>1
    <3> HIDE DEF at
    <3>3. PICK x \in 1..Len(l) : x > Len(l) - at + 1 /\ l[x] = k
      BY <1>2, <1>4, <2>10, <3>1, <3>2, LowestOrdered DEF LFUInv, l
    <3> DEFINE h == Len(l) - x + 1
    <3>4. h \in 1..Len(l) /\ h < at /\ h \in 1..b /\ h < i /\ Len(l) - h + 1 = x
      BY <1>2, <2>1, <3>1, <3>3
    <3>5. h - 1 \in Nat /\ h - 1 < Len(w) /\ Len(w) \in Nat \ {0}
      BY <2>1, <2>3, <3>4
    <3>6. (h - 1) % Len(w) = h - 1
      BY <3>5, RemainderFacts
    <3> HIDE DEF h
    <3>7. answer'[h] = w[((h - 1) % Len(w)) + 1] /\ (h - 1) + 1 = h
      BY <2>2, <3>4
    <3>8. answer'[h] = k
      BY <2>3, <3>3, <3>4, <3>6, <3>7
    <3> QED
      BY <3>4, <3>8
  <2>8. AnswerInv'
    BY <1>0, <2>6, <2>7, <2>10 DEF AnswerInv
  <2>9. answer' # << >> /\ Len(answer') <= b
    BY <1>2, <1>4, <2>7, EmptySeq
  <2> QED
    BY <1>1, <2>7, <2>8, <2>9 DEF LFUInv
<1> QED
  BY <1>3, <1>4

(* The calls that leave the buckets alone. *)
LEMMA QuietKeepsInv ==
    ASSUME LFUInv,
           MetadataBytes \/ (\E lambda \in Lambdas : SetParam(lambda)) \/ (\E k \in Keys : OnAccessUnknown(k))
    PROVE  LFUInv' /\ items' = items /\ answer' = << >>
<1>1. CASE MetadataBytes
  <2>1. /\ buckets' = buckets /\ items' = items /\ n' = n /\ answer' = << >>
        /\ ageCnt' = ageCnt /\ ageMax' = ageMax /\ metadata' = n * lfuPerEntryBytes /\ older' = older
    BY <1>1 DEF MetadataBytes, LFUInv, BucketInv
  <2> QED
    BY <2>1, NoAnswer DEF LFUInv, BucketInv, AgeInv, OrderInv
<1>2. ASSUME NEW lambda \in Lambdas, SetParam(lambda) PROVE LFUInv' /\ items' = items /\ answer' = << >>
  <2>1. /\ buckets' = buckets /\ items' = items /\ n' = n /\ answer' = << >> /\ metadata' = metadata
        /\ older' = older
    BY <1>2 DEF SetParam
  <2>2. AgePeriod(lambda) \in Nat
    BY LambdaAssumption, AgePeriodFacts
  <2>3. AgeInv'
    BY <1>2, <2>2 DEF SetParam, LFUInv, AgeInv
  <2>4. BucketInv' /\ OrderInv'
    BY <2>1 DEF LFUInv, BucketInv, OrderInv
  <2> QED
    BY <2>1, <2>3, <2>4, NoAnswer DEF LFUInv
<1>3. ASSUME NEW k \in Keys, OnAccessUnknown(k) PROVE LFUInv' /\ items' = items /\ answer' = << >>
  <2>1. /\ buckets' = buckets /\ items' = items /\ n' = n /\ answer' = << >> /\ metadata' = metadata
        /\ ageCnt' = ageCnt /\ ageMax' = ageMax /\ older' = older
    BY <1>3 DEF OnAccessUnknown
  <2> QED
    BY <2>1, NoAnswer DEF LFUInv, BucketInv, AgeInv, OrderInv
<1> QED
  BY <1>1, <1>2, <1>3

(* Every step keeps the invariant. *)
LEMMA StepKeepsInv ==
    ASSUME LFUInv, [Next]_vars
    PROVE  LFUInv'
<1>1. ASSUME NEW k \in Keys, OnAccess(k) \/ OnAccessAges(k) \/ OnInsert(k) \/ OnRemove(k) PROVE LFUInv'
  BY <1>1, OnAccessKeepsInv, OnAccessAgesKeepsInv, OnInsertKeepsInv, OnRemoveKeepsInv
<1>2. CASE MetadataBytes \/ (\E lambda \in Lambdas : SetParam(lambda)) \/ (\E k \in Keys : OnAccessUnknown(k))
  BY <1>2, QuietKeepsInv
<1>3. CASE Victim
  BY <1>3, VictimKeepsInv
<1>4. CASE Reset
  <2>1. /\ buckets' = << >> /\ items' = << >> /\ n' = 0 /\ metadata' = 0 /\ answer' = << >>
        /\ ageCnt' = 0 /\ ageMax' = ageMax /\ older' = {}
    BY <1>4 DEF Reset
  <2>2. BucketInv'
    BY <2>1, EmptyFiled DEF BucketInv, lfuPerEntryBytes
  <2>3. AgeInv'
    BY <2>1 DEF LFUInv, AgeInv
  <2> QED
    BY <2>1, <2>2, <2>3, NoAnswer, NothingRecorded DEF LFUInv
<1>5. ASSUME NEW b \in 0..MaxBatch, Candidates(b) PROVE LFUInv'
  BY <1>5, CandidatesKeepsInv
<1>6. ASSUME NEW entries \in SetToAllKPermutations(Keys), NEW count \in [ToSet(entries) -> Counts],
             Rebuild(entries, count)
      PROVE  LFUInv'
  BY <1>6, RebuildKeepsInv
<1>7. CASE UNCHANGED vars
  BY <1>7 DEF LFUInv, BucketInv, AgeInv, OrderInv, AnswerInv, vars
<1> QED
  BY <1>1, <1>2, <1>3, <1>4, <1>5, <1>6, <1>7 DEF Next

(* Buckets, index, counters and ageing stay consistent through every       *)
(* sequence of policy calls, in every map order (lfu.go).                  *)
THEOREM LFUInvariant == Spec => []LFUInv
<1>1. ASSUME Init PROVE LFUInv
  <2>1. AgePeriod(DefaultLambda) \in Nat
    BY LambdaAssumption, AgePeriodFacts
  <2>2. BucketInv
    BY <1>1, EmptyFiled DEF Init, BucketInv, lfuPerEntryBytes
  <2>3. AgeInv
    BY <1>1, <2>1 DEF Init, AgeInv
  <2>4. AnswerInv
    BY <1>1, EmptySeq DEF Init, AnswerInv
  <2>5. OrderInv
    BY <1>1 DEF Init, OrderInv, Recorded, NewestFirst
  <2> QED
    BY <2>2, <2>3, <2>4, <2>5 DEF LFUInv
<1> QED
  BY <1>1, StepKeepsInv, PTL DEF Spec

(* Every tracked key is in exactly one bucket, the one of its frequency,   *)
(* and no bucket is empty (lfu.go:48-57, 183-185, 231-233).                *)
THEOREM LFUBucketsMatchItems == Spec => []BucketsMatchItems
<1>1. ASSUME LFUInv PROVE BucketsMatchItems
  <2>1. Filed(buckets, items, DOMAIN items)
    BY <1>1 DEF LFUInv, BucketInv
  <2>2. ASSUME NEW f \in DOMAIN buckets PROVE Cardinality(ToSet(buckets[f])) = Len(buckets[f])
    BY <2>1, DistinctCardinality DEF Filed
  <2> QED
    BY <1>1, <2>1, <2>2 DEF BucketsMatchItems, LFUInv, BucketInv, Filed
<1> QED
  BY <1>1, LFUInvariant, PTL

(* No halving is skipped or delayed, also when the period is retuned       *)
(* (lfu.go:105-119, 155-161).                                              *)
THEOREM LFUAgeingOnTime == Spec => []AgeingOnTime
<1>1. LFUInv => AgeingOnTime
  BY DEF LFUInv, AgeInv, AgeingOnTime
<1> QED
  BY <1>1, LFUInvariant, PTL

(* Eviction candidates come lowest frequency first and oldest first, and   *)
(* no key left out should have come before one that is offered             *)
(* (lfu.go:240-242, 280-281).                                              *)
THEOREM LFUWorstFirst == Spec => []WorstFirst
<1>1. ASSUME LFUInv PROVE WorstFirst
  <2>1. DOMAIN answer = 1..Len(answer) /\ answer \in Seq(DOMAIN items)
    BY <1>1, LenProperties DEF LFUInv, AnswerInv
  <2>2. \A i \in 1..Len(answer) : answer[i] \in DOMAIN items
    BY <2>1, ElementOfSeq
  <2>3. \A k \in DOMAIN items : items[k] \in Int
    BY <1>1, FreqAssumption DEF LFUInv, BucketInv, Filed
  <2>4. \A i \in 1..Len(answer), k \in DOMAIN items :
           Worse(k, answer[i]) => \E h \in 1..Len(answer) : h < i /\ answer[h] = k
    BY <1>1, <2>2, <2>3 DEF LFUInv, AnswerInv, Worse
  <2>5. \A k : k \in ToSet(answer) <=> \E h \in 1..Len(answer) : answer[h] = k
    BY <2>1, ToSetMember
  <2> QED
    BY <2>1, <2>2, <2>4, <2>5 DEF WorstFirst
<1> QED
  BY <1>1, LFUInvariant, PTL

(* LFU implements the contract the cache core relies on (policy.go). *)
THEOREM LFUImplementsContract == Spec => ImplementsContract
<1>1. Init => Contract!Init
  BY DEF Init, Contract!Init
<1>2. ASSUME LFUInv, [Next]_vars PROVE [Contract!Next]_(Contract!vars)
  <2>1. CASE MetadataBytes \/ (\E lambda \in Lambdas : SetParam(lambda)) \/ (\E k \in Keys : OnAccessUnknown(k))
    <3>1. items' = items /\ answer' = << >>
      BY <1>2, <2>1, QuietKeepsInv
    <3> QED
      BY <3>1 DEF Contract!Next, Contract!Quiet
  <2>2. ASSUME NEW k \in Keys, OnAccess(k) PROVE Contract!Next
    <3>1. DOMAIN Incremented(k).items = DOMAIN items
      BY <1>2, <2>2, IncrementedFiled DEF LFUInv, BucketInv, OnAccess
    <3>2. DOMAIN items' = DOMAIN items /\ answer' = << >>
      BY <2>2, <3>1 DEF OnAccess
    <3> QED
      BY <3>2 DEF Contract!Next, Contract!Quiet
  <2>3. ASSUME NEW k \in Keys, OnAccessAges(k) PROVE Contract!Next
    <3>1. DOMAIN items' = DOMAIN items /\ answer' = << >>
      BY <1>2, <2>3, OnAccessAgesKeepsInv DEF OnAccessAges
    <3> QED
      BY <3>1 DEF Contract!Next, Contract!Quiet
  <2>4. ASSUME NEW k \in Keys, OnInsert(k) PROVE Contract!Next
    <3>1. DOMAIN items' = DOMAIN items \cup {k} /\ answer' = << >>
      BY <1>2, <2>4, OnInsertKeepsInv DEF OnInsert
    <3>2. Contract!OnInsert(k)
      BY <3>1 DEF Contract!OnInsert
    <3> QED
      BY <3>2 DEF Contract!Next
  <2>5. ASSUME NEW k \in Keys, OnRemove(k) PROVE Contract!Next
    <3>1. DOMAIN items' = DOMAIN items \ {k} /\ answer' = << >>
      BY <1>2, <2>5, OnRemoveKeepsInv DEF OnRemove
    <3>2. Contract!OnRemove(k)
      BY <3>1 DEF Contract!OnRemove
    <3> QED
      BY <3>2 DEF Contract!Next
  <2>6. CASE Victim
    <3>1. items' = items
      BY <2>6 DEF Victim
    <3>2. Contract!Victim
      BY <1>2, <2>6, <3>1, VictimKeepsInv DEF Contract!Victim
    <3> QED
      BY <3>2 DEF Contract!Next
  <2>7. CASE Reset
    <3>1. DOMAIN items' = {} /\ answer' = << >>
      BY <2>7 DEF Reset
    <3> QED
      BY <3>1 DEF Contract!Next, Contract!Reset, Contract!Rebuild
  <2>8. ASSUME NEW b \in 0..MaxBatch, Candidates(b) PROVE Contract!Next
    <3>1. items' = items
      BY <2>8 DEF Candidates
    <3>2. Contract!Candidates(b)
      BY <1>2, <2>8, <3>1, CandidatesKeepsInv DEF Contract!Candidates
    <3> QED
      BY <3>2 DEF Contract!Next
  <2>9. ASSUME NEW entries \in SetToAllKPermutations(Keys), NEW count \in [ToSet(entries) -> Counts],
               Rebuild(entries, count)
        PROVE  Contract!Next
    <3>1. DOMAIN items' = ToSet(entries) /\ answer' = << >>
      BY <1>2, <2>9, RebuildKeepsInv DEF Rebuild
    <3>2. DOMAIN items' \in SUBSET Keys
      BY <3>1, PermutationFacts, KeysAssumption, ToSetMember
    <3>3. Contract!Rebuild(DOMAIN items')
      BY <3>1 DEF Contract!Rebuild
    <3> QED
      BY <3>2, <3>3 DEF Contract!Next
  <2>10. CASE UNCHANGED vars
    BY <2>10 DEF vars, Contract!vars
  <2> QED
    BY <1>2, <2>1, <2>2, <2>3, <2>4, <2>5, <2>6, <2>7, <2>8, <2>9, <2>10 DEF Next
<1> QED
  BY <1>1, <1>2, LFUInvariant, PTL DEF ImplementsContract, Contract!Spec, Spec
=============================================================================
