---------------------------- MODULE BasicLemmas ----------------------------
(* Facts the proofs share: lists without repetition (the recency list, the *)
(* delivery order), least and greatest elements and ranks of sets of       *)
(* numbers (the walks over the ring), powers of two (its capacity), sums   *)
(* over finite sets (the metrics).                                         *)
EXTENDS SequencesExt, SequenceTheorems, FiniteSetTheorems, WellFoundedInduction, TLAPS

(* No element occurs twice. *)
Distinct(s) == \A i, j \in 1..Len(s) : s[i] = s[j] => i = j

(* The elements of a list are its entries, and come from its type. *)
LEMMA ToSetMember ==
    ASSUME NEW S, NEW s \in Seq(S)
    PROVE  /\ ToSet(s) = {s[i] : i \in 1..Len(s)}
           /\ ToSet(s) \subseteq S
           /\ \A x : x \in ToSet(s) <=> \E i \in 1..Len(s) : s[i] = x
BY LenProperties DEF ToSet

(* A list without repetition is as long as its set of elements is large. *)
LEMMA DistinctCardinality ==
    ASSUME NEW S, NEW s \in Seq(S), Distinct(s)
    PROVE  IsFiniteSet(ToSet(s)) /\ Cardinality(ToSet(s)) = Len(s)
<1>1. Len(s) \in Nat /\ s \in [1..Len(s) -> ToSet(s)] /\ DOMAIN s = 1..Len(s)
  BY LenProperties DEF ToSet
<1>2. s \in Bijection(1..Len(s), ToSet(s))
  BY <1>1 DEF Distinct, Bijection, Injection, Surjection, IsInjective, ToSet
<1>3. ExistsBijection(1..Len(s), ToSet(s))
  BY <1>2 DEF ExistsBijection
<1> QED
  BY <1>1, <1>3, FS_NatBijection, FS_CountingElements

(* Putting an element in front of a list. *)
LEMMA ConsFacts ==
    ASSUME NEW S, NEW s \in Seq(S), NEW e \in S
    PROVE  /\ Cons(e, s) \in Seq(S) /\ Len(Cons(e, s)) = Len(s) + 1
           /\ Cons(e, s)[1] = e
           /\ \A i \in 1..Len(s) : Cons(e, s)[i + 1] = s[i]
           /\ ToSet(Cons(e, s)) = ToSet(s) \cup {e}
<1>1. /\ Cons(e, s) \in Seq(S) /\ Len(Cons(e, s)) = Len(s) + 1 /\ Len(s) \in Nat
      /\ Cons(e, s)[1] = e
      /\ \A i \in 1..Len(s) + 1 : Cons(e, s)[i] = IF i = 1 THEN e ELSE s[i - 1]
  BY ConcatProperties DEF Cons
<1>2. \A i \in 1..Len(s) : Cons(e, s)[i + 1] = s[i]
  BY <1>1
<1>3. ToSet(Cons(e, s)) = ToSet(s) \cup {e}
  <2>1. ASSUME NEW x \in ToSet(Cons(e, s)) PROVE x \in ToSet(s) \cup {e}
    <3>1. PICK i \in 1..Len(s) + 1 : x = Cons(e, s)[i]
      BY <1>1, <2>1, ToSetMember
    <3>2. CASE i = 1
      BY <1>1, <3>1, <3>2
    <3>3. CASE i # 1
      <4>1. i - 1 \in 1..Len(s) /\ x = s[i - 1]
        BY <1>1, <3>1, <3>3
      <4> QED
        BY <4>1, ToSetMember
    <3> QED
      BY <3>2, <3>3
  <2>2. ASSUME NEW x \in ToSet(s) PROVE x \in ToSet(Cons(e, s))
    <3>1. PICK i \in 1..Len(s) : x = s[i]
      BY <2>2, ToSetMember
    <3>2. i + 1 \in 1..Len(Cons(e, s)) /\ Cons(e, s)[i + 1] = x
      BY <1>1, <1>2, <3>1
    <3> QED
      BY <1>1, <3>2, ToSetMember
  <2>3. e \in ToSet(Cons(e, s))
    <3>1. 1 \in 1..Len(Cons(e, s))
      BY <1>1
    <3> QED
      BY <1>1, <3>1, ToSetMember
  <2> QED
    BY <2>1, <2>2, <2>3
<1> QED
  BY <1>1, <1>2, <1>3

(* Putting a new element in front repeats nothing. *)
LEMMA ConsDistinct ==
    ASSUME NEW S, NEW s \in Seq(S), NEW e \in S, Distinct(s), e \notin ToSet(s)
    PROVE  Distinct(Cons(e, s))
<1>1. /\ Len(Cons(e, s)) = Len(s) + 1 /\ Len(s) \in Nat
      /\ \A i \in 1..Len(s) + 1 : Cons(e, s)[i] = IF i = 1 THEN e ELSE s[i - 1]
  BY ConcatProperties DEF Cons
<1> QED
  BY <1>1, ToSetMember DEF Distinct

(* The empty list, and when a list is empty. *)
LEMMA EmptyFacts ==
    ASSUME NEW S
    PROVE  << >> \in Seq(S) /\ Len(<< >>) = 0 /\ Distinct(<< >>) /\ ToSet(<< >>) = {}
BY EmptySeq DEF Distinct, ToSet

LEMMA EmptyIffNothing ==
    ASSUME NEW S, NEW s \in Seq(S)
    PROVE  s = << >> <=> ToSet(s) = {}
<1>1. Len(s) \in Nat /\ (s = << >> <=> Len(s) = 0)
  BY EmptySeq, LenProperties
<1>2. ToSet(s) = {} <=> Len(s) = 0
  BY <1>1, ToSetMember
<1> QED
  BY <1>1, <1>2

(* One list after another, with nothing in common. *)
LEMMA ConcatFacts ==
    ASSUME NEW S, NEW s \in Seq(S), NEW t \in Seq(S), Distinct(s), Distinct(t), ToSet(s) \cap ToSet(t) = {}
    PROVE  s \o t \in Seq(S) /\ Distinct(s \o t) /\ ToSet(s \o t) = ToSet(s) \cup ToSet(t)
<1> DEFINE u == s \o t
<1>1. /\ u \in Seq(S) /\ Len(u) = Len(s) + Len(t) /\ Len(s) \in Nat /\ Len(t) \in Nat
      /\ \A i \in 1..Len(s) + Len(t) : u[i] = IF i <= Len(s) THEN s[i] ELSE t[i - Len(s)]
  BY ConcatProperties, LenProperties
<1> HIDE DEF u
<1>2. /\ \A i \in 1..Len(s) : i \in 1..Len(u) /\ u[i] = s[i]
      /\ \A i \in 1..Len(t) : i + Len(s) \in 1..Len(u) /\ u[i + Len(s)] = t[i]
  <2>1. ASSUME NEW i \in 1..Len(s) PROVE i \in 1..Len(u) /\ u[i] = s[i]
    BY <1>1
  <2>2. ASSUME NEW i \in 1..Len(t) PROVE i + Len(s) \in 1..Len(u) /\ u[i + Len(s)] = t[i]
    <3>1. i + Len(s) \in 1..Len(s) + Len(t) /\ ~(i + Len(s) <= Len(s)) /\ (i + Len(s)) - Len(s) = i
      BY <1>1
    <3> QED
      BY <1>1, <3>1
  <2> QED
    BY <2>1, <2>2
<1>3. \A i \in 1..Len(u) : \/ i \in 1..Len(s) /\ u[i] = s[i]
                           \/ i > Len(s) /\ i - Len(s) \in 1..Len(t) /\ u[i] = t[i - Len(s)]
  BY <1>1
<1>4. /\ \A x : x \in ToSet(s) <=> \E i \in 1..Len(s) : s[i] = x
      /\ \A x : x \in ToSet(t) <=> \E i \in 1..Len(t) : t[i] = x
      /\ \A x : x \in ToSet(u) <=> \E i \in 1..Len(u) : u[i] = x
  BY SMTT(30), <1>1, ToSetMember
<1>5. ToSet(u) = ToSet(s) \cup ToSet(t)
  <2>1. ASSUME NEW x \in ToSet(u) PROVE x \in ToSet(s) \cup ToSet(t)
    BY <1>3, <1>4
  <2>2. ASSUME NEW x \in ToSet(s) PROVE x \in ToSet(u)
    BY <1>2, <1>4
  <2>3. ASSUME NEW x \in ToSet(t) PROVE x \in ToSet(u)
    BY <1>2, <1>4
  <2> QED
    BY <2>1, <2>2, <2>3
<1>6. ASSUME NEW i \in 1..Len(u), NEW j \in 1..Len(u), u[i] = u[j] PROVE i = j
  <2>1. CASE i \in 1..Len(s) /\ u[i] = s[i]
    <3>1. CASE j \in 1..Len(s) /\ u[j] = s[j]
      BY <1>6, <2>1, <3>1 DEF Distinct
    <3>2. CASE j > Len(s) /\ j - Len(s) \in 1..Len(t) /\ u[j] = t[j - Len(s)]
      BY <1>4, <1>6, <2>1, <3>2
    <3> QED
      BY <1>3, <3>1, <3>2
  <2>2. CASE i > Len(s) /\ i - Len(s) \in 1..Len(t) /\ u[i] = t[i - Len(s)]
    <3>1. CASE j \in 1..Len(s) /\ u[j] = s[j]
      BY <1>4, <1>6, <2>2, <3>1
    <3>2. CASE j > Len(s) /\ j - Len(s) \in 1..Len(t) /\ u[j] = t[j - Len(s)]
      <4>1. i - Len(s) = j - Len(s)
        BY <1>6, <2>2, <3>2 DEF Distinct
      <4> QED
        BY <1>1, <4>1
    <3> QED
      BY <1>3, <3>1, <3>2
  <2> QED
    BY <1>3, <2>1, <2>2
<1> QED
  BY <1>1, <1>5, <1>6 DEF Distinct, u

(* Taking the element at one position out of a list. *)
LEMMA RemoveAtFacts ==
    ASSUME NEW S, NEW s \in Seq(S), NEW k \in 1..Len(s)
    PROVE  /\ RemoveAt(s, k) \in Seq(S) /\ Len(RemoveAt(s, k)) = Len(s) - 1
           /\ \A i \in 1..Len(s) - 1 : RemoveAt(s, k)[i] = IF i < k THEN s[i] ELSE s[i + 1]
           /\ Distinct(s) => Distinct(RemoveAt(s, k)) /\ ToSet(RemoveAt(s, k)) = ToSet(s) \ {s[k]}
<1>0. Len(s) \in Nat /\ \A i \in 1..Len(s) : s[i] \in S
  BY LenProperties, ElementOfSeq
<1>1. /\ SubSeq(s, 1, k - 1) \in Seq(S) /\ Len(SubSeq(s, 1, k - 1)) = k - 1
      /\ \A i \in 1..k - 1 : SubSeq(s, 1, k - 1)[i] = s[i]
  <2>1. \A i \in 1..k - 1 : s[i] \in S
    BY <1>0
  <2> QED
    BY <1>0, <2>1, SubSeqProperties
<1>2. /\ SubSeq(s, k + 1, Len(s)) \in Seq(S) /\ Len(SubSeq(s, k + 1, Len(s))) = Len(s) - k
      /\ \A i \in 1..Len(s) - k : SubSeq(s, k + 1, Len(s))[i] = s[k + i]
  <2>1. \A i \in k + 1..Len(s) : s[i] \in S
    BY <1>0
  <2>2. /\ SubSeq(s, k + 1, Len(s)) \in Seq(S)
        /\ Len(SubSeq(s, k + 1, Len(s))) = IF k + 1 <= Len(s) THEN Len(s) - (k + 1) + 1 ELSE 0
        /\ \A i \in 1..Len(s) - (k + 1) + 1 : SubSeq(s, k + 1, Len(s))[i] = s[(k + 1) + i - 1]
    BY <1>0, <2>1, SubSeqProperties
  <2> QED
    BY <1>0, <2>2
<1>3. /\ RemoveAt(s, k) \in Seq(S) /\ Len(RemoveAt(s, k)) = Len(s) - 1
      /\ \A i \in 1..Len(s) - 1 : RemoveAt(s, k)[i] =
            IF i <= k - 1 THEN SubSeq(s, 1, k - 1)[i] ELSE SubSeq(s, k + 1, Len(s))[i - (k - 1)]
  <2>1. SUFFICES ASSUME NEW a \in Seq(S), NEW b \in Seq(S), Len(a) = k - 1, Len(b) = Len(s) - k
                 PROVE  /\ a \o b \in Seq(S) /\ Len(a \o b) = Len(s) - 1
                        /\ \A i \in 1..Len(s) - 1 :
                              (a \o b)[i] = IF i <= k - 1 THEN a[i] ELSE b[i - (k - 1)]
    BY <1>1, <1>2 DEF RemoveAt
  <2>2. /\ a \o b \in Seq(S) /\ Len(a \o b) = Len(a) + Len(b)
        /\ \A i \in 1..Len(a) + Len(b) : (a \o b)[i] = IF i <= Len(a) THEN a[i] ELSE b[i - Len(a)]
    BY ConcatProperties
  <2>3. Len(a) + Len(b) = Len(s) - 1
    BY <1>0, <2>1
  <2> QED
    BY <2>1, <2>2, <2>3
<1>4. \A i \in 1..Len(s) - 1 : RemoveAt(s, k)[i] = IF i < k THEN s[i] ELSE s[i + 1]
  <2> SUFFICES ASSUME NEW i \in 1..Len(s) - 1
               PROVE  RemoveAt(s, k)[i] = IF i < k THEN s[i] ELSE s[i + 1]
    OBVIOUS
  <2>1. CASE i < k
    <3>1. i <= k - 1 /\ i \in 1..k - 1
      BY <1>0, <2>1
    <3> QED
      BY <1>1, <1>3, <2>1, <3>1
  <2>2. CASE ~(i < k)
    <3>1. ~(i <= k - 1) /\ i - (k - 1) \in 1..Len(s) - k /\ k + (i - (k - 1)) = i + 1
      BY <1>0, <2>2
    <3>2. SubSeq(s, k + 1, Len(s))[i - (k - 1)] = s[k + (i - (k - 1))]
      BY <1>2, <3>1
    <3> QED
      BY <1>3, <2>2, <3>1, <3>2
  <2> QED
    BY <2>1, <2>2
<1>5. ASSUME Distinct(s) PROVE Distinct(RemoveAt(s, k))
  <2> DEFINE at(i) == IF i < k THEN i ELSE i + 1
  <2>1. \A i \in 1..Len(s) - 1 : at(i) \in 1..Len(s) /\ RemoveAt(s, k)[i] = s[at(i)]
    BY <1>0, <1>4
  <2>2. \A i, j \in 1..Len(s) - 1 : at(i) = at(j) => i = j
    BY <1>0
  <2> HIDE DEF at
  <2>3. \A i, j \in 1..Len(s) - 1 : RemoveAt(s, k)[i] = RemoveAt(s, k)[j] => i = j
    BY <1>5, <2>1, <2>2 DEF Distinct
  <2> QED
    BY <1>3, <2>3 DEF Distinct
<1>6. ASSUME Distinct(s) PROVE ToSet(RemoveAt(s, k)) = ToSet(s) \ {s[k]}
  <2>1. ASSUME NEW x \in ToSet(RemoveAt(s, k)) PROVE x \in ToSet(s) \ {s[k]}
    <3>1. PICK i \in 1..Len(s) - 1 : x = RemoveAt(s, k)[i]
      BY <1>3, <2>1, ToSetMember
    <3>2. PICK j \in 1..Len(s) : x = s[j] /\ j # k
      BY <1>0, <1>4, <3>1
    <3> QED
      BY <1>6, <3>2, ToSetMember DEF Distinct
  <2>2. ASSUME NEW x \in ToSet(s), x # s[k] PROVE x \in ToSet(RemoveAt(s, k))
    <3>1. PICK j \in 1..Len(s) : x = s[j] /\ j # k
      BY <2>2, ToSetMember
    <3>2. \E i \in 1..Len(s) - 1 : RemoveAt(s, k)[i] = x
      <4>1. CASE j < k
        BY <1>0, <1>4, <3>1, <4>1
      <4>2. CASE j > k
        <5>1. j - 1 \in 1..Len(s) - 1 /\ ~(j - 1 < k) /\ (j - 1) + 1 = j
          BY <1>0, <4>2
        <5> QED
          BY <1>4, <3>1, <5>1
      <4> QED
        BY <1>0, <3>1, <4>1, <4>2
    <3> QED
      BY <1>3, <3>2, ToSetMember
  <2> QED
    BY <2>1, <2>2
<1> QED
  BY <1>3, <1>4, <1>5, <1>6

(* A function on 1..m is a sequence of length m. *)
LEMMA FunctionIsSeq ==
    ASSUME NEW S, NEW m \in Nat, NEW f \in [1..m -> S]
    PROVE  f \in Seq(S) /\ Len(f) = m
<1>1. f \in Seq(S)
  BY SeqDef
<1> QED
  BY <1>1, LenProperties

(* Taking out the one place where an element occurs. *)
LEMMA RemoveFirstFacts ==
    ASSUME NEW S, NEW s \in Seq(S), Distinct(s), NEW e
    PROVE  /\ RemoveFirst(s, e) \in Seq(S) /\ Distinct(RemoveFirst(s, e))
           /\ ToSet(RemoveFirst(s, e)) = ToSet(s) \ {e}
<1>1. CASE \E i \in 1..Len(s) : s[i] = e
  <2>1. PICK k \in 1..Len(s) : s[k] = e
    BY <1>1
  <2>2. {i \in 1..Len(s) : s[i] = e} = {k}
    BY <2>1 DEF Distinct
  <2>3. Min({k}) = k
    BY DEF Min
  <2>4. SelectInSeq(s, LAMBDA v : v = e) = k
    BY <2>2, <2>3 DEF SelectInSeq
  <2>5. RemoveFirst(s, e) = RemoveAt(s, k)
    BY <1>1, <2>4 DEF RemoveFirst
  <2> QED
    BY <2>1, <2>5, RemoveAtFacts
<1>2. CASE ~ \E i \in 1..Len(s) : s[i] = e
  <2>1. RemoveFirst(s, e) = s
    BY <1>2 DEF RemoveFirst
  <2>2. e \notin ToSet(s)
    BY <1>2, ToSetMember
  <2> QED
    BY <2>1, <2>2
<1> QED
  BY <1>1, <1>2

(* Putting an element at the end of a list. *)
LEMMA AppendFacts ==
    ASSUME NEW S, NEW s \in Seq(S), NEW e \in S
    PROVE  /\ Append(s, e) \in Seq(S) /\ Len(Append(s, e)) = Len(s) + 1
           /\ ToSet(Append(s, e)) = ToSet(s) \cup {e}
           /\ Distinct(s) /\ e \notin ToSet(s) => Distinct(Append(s, e))
<1> DEFINE a == Append(s, e)
<1>1. /\ a \in Seq(S) /\ Len(a) = Len(s) + 1 /\ Len(s) \in Nat
      /\ a[Len(s) + 1] = e
      /\ \A i \in 1..Len(s) : a[i] = s[i]
  BY AppendProperties, LenProperties
<1> HIDE DEF a
<1>2. \A x : x \in ToSet(a) <=> \E i \in 1..Len(s) + 1 : a[i] = x
  BY <1>1, ToSetMember
<1>3. \A x : x \in ToSet(s) <=> \E i \in 1..Len(s) : s[i] = x
  BY ToSetMember
<1>4. ToSet(a) = ToSet(s) \cup {e}
  <2>1. ASSUME NEW x \in ToSet(a) PROVE x \in ToSet(s) \cup {e}
    <3>1. PICK i \in 1..Len(s) + 1 : a[i] = x
      BY <1>2, <2>1
    <3>2. i \in 1..Len(s) \/ i = Len(s) + 1
      BY <1>1
    <3> QED
      BY <1>1, <1>3, <3>1, <3>2
  <2>2. ASSUME NEW x \in ToSet(s) PROVE x \in ToSet(a)
    <3>1. PICK i \in 1..Len(s) : s[i] = x
      BY <1>3, <2>2
    <3>2. i \in 1..Len(s) + 1 /\ a[i] = x
      BY <1>1, <3>1
    <3> QED
      BY <1>2, <3>2
  <2>3. e \in ToSet(a)
    <3>1. Len(s) + 1 \in 1..Len(s) + 1
      BY <1>1
    <3> QED
      BY <1>1, <1>2, <3>1
  <2> QED
    BY <2>1, <2>2, <2>3
<1>5. ASSUME Distinct(s), e \notin ToSet(s), NEW i \in 1..Len(a), NEW j \in 1..Len(a), a[i] = a[j]
      PROVE  i = j
  <2>1. \A x \in 1..Len(a) : x \in 1..Len(s) \/ x = Len(s) + 1
    BY <1>1
  <2>2. \A x \in 1..Len(s) : a[x] # e
    BY <1>1, <1>3, <1>5
  <2> QED
    BY <1>1, <1>5, <2>1, <2>2 DEF Distinct
<1>6. Distinct(s) /\ e \notin ToSet(s) => Distinct(a)
  BY <1>5 DEF Distinct
<1> QED
  BY <1>1, <1>4, <1>6 DEF a

(* Taking the first element off a list. *)
LEMMA TailFacts ==
    ASSUME NEW S, NEW s \in Seq(S), s # << >>, Distinct(s)
    PROVE  /\ Head(s) \in ToSet(s) /\ Tail(s) \in Seq(S) /\ Distinct(Tail(s))
           /\ ToSet(Tail(s)) = ToSet(s) \ {Head(s)}
<1>1. /\ Tail(s) \in Seq(S) /\ Len(Tail(s)) = Len(s) - 1 /\ Len(s) \in Nat /\ Len(s) >= 1
      /\ \A i \in 1..Len(s) - 1 : Tail(s)[i] = s[i + 1]
      /\ Head(s) = s[1]
  BY HeadTailProperties, LenProperties, EmptySeq
<1>2. Distinct(Tail(s))
  BY <1>1 DEF Distinct
<1>3. Head(s) \in ToSet(s)
  <2>1. 1 \in 1..Len(s)
    BY <1>1
  <2> QED
    BY <1>1, <2>1, ToSetMember
<1>4. /\ \A x : x \in ToSet(s) <=> \E i \in 1..Len(s) : s[i] = x
      /\ \A x : x \in ToSet(Tail(s)) <=> \E i \in 1..Len(Tail(s)) : Tail(s)[i] = x
  BY <1>1, ToSetMember
<1>5. ASSUME NEW x \in ToSet(Tail(s)) PROVE x \in ToSet(s) \ {Head(s)}
  <2>1. PICK i \in 1..Len(s) - 1 : Tail(s)[i] = x
    BY <1>1, <1>4, <1>5
  <2>2. i + 1 \in 1..Len(s) /\ 1 \in 1..Len(s) /\ i + 1 # 1 /\ s[i + 1] = x
    BY <1>1, <2>1
  <2>3. x # s[1]
    BY <2>2 DEF Distinct
  <2> QED
    BY <1>1, <1>4, <2>2, <2>3
<1>6. ASSUME NEW x \in ToSet(s), x # Head(s) PROVE x \in ToSet(Tail(s))
  <2>1. PICK i \in 1..Len(s) : s[i] = x
    BY <1>4, <1>6
  <2>2. i - 1 \in 1..Len(s) - 1 /\ (i - 1) + 1 = i
    BY <1>1, <1>6, <2>1
  <2>3. Tail(s)[i - 1] = x
    BY <1>1, <2>1, <2>2
  <2> QED
    BY <1>1, <1>4, <2>2, <2>3
<1> QED
  BY <1>1, <1>2, <1>3, <1>5, <1>6

(* Reading a list back to front. *)
LEMMA ReverseFacts ==
    ASSUME NEW S, NEW s \in Seq(S)
    PROVE  /\ Reverse(s) \in Seq(S) /\ Len(Reverse(s)) = Len(s)
           /\ \A i \in 1..Len(s) : Reverse(s)[i] = s[Len(s) - i + 1]
           /\ ToSet(Reverse(s)) = ToSet(s)
           /\ Distinct(s) => Distinct(Reverse(s))
<1>1. Len(s) \in Nat /\ s \in [1..Len(s) -> S]
  BY LenProperties
<1>2. \A i \in 1..Len(s) : Len(s) - i + 1 \in 1..Len(s)
  BY <1>1
<1>3. /\ Reverse(s) \in [1..Len(s) -> S]
      /\ \A i \in 1..Len(s) : Reverse(s)[i] = s[Len(s) - i + 1]
  BY <1>1, <1>2 DEF Reverse
<1>4. Reverse(s) \in Seq(S) /\ Len(Reverse(s)) = Len(s)
  BY <1>1, <1>3, SeqDef, LenProperties
<1>5. ToSet(Reverse(s)) = ToSet(s)
  <2>1. ToSet(Reverse(s)) \subseteq ToSet(s)
    BY <1>2, <1>3, <1>4, ToSetMember
  <2>2. ASSUME NEW x \in ToSet(s) PROVE x \in ToSet(Reverse(s))
    <3>1. PICK i \in 1..Len(s) : s[i] = x
      BY <2>2, ToSetMember
    <3>2. Len(s) - i + 1 \in 1..Len(s) /\ Len(s) - (Len(s) - i + 1) + 1 = i
      BY <1>1
    <3>3. Reverse(s)[Len(s) - i + 1] = x
      BY <1>3, <3>1, <3>2
    <3> QED
      BY <1>4, <3>2, <3>3, ToSetMember
  <2> QED
    BY <2>1, <2>2
<1>6. Distinct(s) => Distinct(Reverse(s))
  BY <1>1, <1>2, <1>3, <1>4 DEF Distinct
<1> QED
  BY <1>3, <1>4, <1>5, <1>6

(* The orders in which a map's entries, or some of them, may come. *)
LEMMA OrderFacts ==
    ASSUME NEW S, IsFiniteSet(S), NEW s \in SetToSeqs(S)
    PROVE  s \in Seq(S) /\ Distinct(s)
<1>1. Cardinality(S) \in Nat
  BY FS_CardinalityType
<1>2. /\ s \in [1..Cardinality(S) -> S]
      /\ \A i, j \in 1..Cardinality(S) : i # j => s[i] # s[j]
  BY DEF SetToSeqs
<1>3. s \in Seq(S)
  BY <1>1, <1>2, SeqDef
<1>4. Len(s) = Cardinality(S)
  BY <1>1, <1>2, <1>3, LenProperties
<1> QED
  BY <1>2, <1>3, <1>4 DEF Distinct

LEMMA PermutationFacts ==
    ASSUME NEW S, IsFiniteSet(S), NEW s \in SetToAllKPermutations(S)
    PROVE  s \in Seq(S) /\ Distinct(s)
<1>1. PICK T \in SUBSET S : s \in SetToSeqs(T)
  BY DEF SetToAllKPermutations
<1>2. s \in Seq(T) /\ Distinct(s)
  BY <1>1, FS_Subset, OrderFacts
<1>3. Len(s) \in Nat /\ s \in [1..Len(s) -> T]
  BY <1>2, LenProperties
<1>4. s \in [1..Len(s) -> S]
  BY <1>3
<1> QED
  BY <1>2, <1>3, <1>4, SeqDef
-----------------------------------------------------------------------------
(* Facts about sets of numbers, for the ring and its walks. *)

(* A set of numbers has a least one. *)
LEMMA LeastNat ==
    ASSUME NEW T \in SUBSET Nat, T # {}
    PROVE  \E x \in T : \A y \in T : x <= y
<1> DEFINE R == {p \in Nat \X Nat : p[1] < p[2]}
<1>1. IsWellFoundedOn(R, Nat)
  BY NatLessThanWellFounded, Zenon DEF OpToRel
<1> HIDE DEF R
<1>2. \E x \in T : \A y \in T : ~(<<y, x>> \in R)
  BY <1>1, WFMin
<1>3. \A x, y \in Nat : ~(<<y, x>> \in R) => x <= y
  BY DEF R
<1> QED
  BY <1>2, <1>3

LEMMA MinFacts ==
    ASSUME NEW T \in SUBSET Nat, T # {}
    PROVE  Min(T) \in T /\ \A y \in T : Min(T) <= y
BY LeastNat DEF Min

(* A bounded one has a greatest: reflect it and take the least. *)
LEMMA MaxFacts ==
    ASSUME NEW n \in Nat, NEW T \in SUBSET (0..n), T # {}
    PROVE  Max(T) \in T /\ \A y \in T : y <= Max(T)
<1> DEFINE U == {u \in 0..n : n - u \in T}
<1>1. \A y \in T : n - y \in U
  OBVIOUS
<1>2. U \in SUBSET Nat /\ U # {}
  <2>1. U \subseteq Nat
    OBVIOUS
  <2>2. U # {}
    BY <1>1, Zenon
  <2> QED
    BY <2>1, <2>2
<1>3. PICK u \in U : \A v \in U : u <= v
  BY <1>2, LeastNat
<1>4. n - u \in T /\ u \in 0..n
  OBVIOUS
<1>5. \A y \in T : y \in 0..n /\ u <= n - y
  BY <1>1, <1>3
<1>6. \A y \in T : y <= n - u
  BY <1>4, <1>5
<1>7. \E x \in T : \A y \in T : x >= y
  BY <1>4, <1>6
<1>8. Max(T) \in T /\ \A y \in T : Max(T) >= y
  BY <1>7 DEF Max
<1> QED
  BY <1>8

(* The elements before d. *)
Below(S, d) == {e \in S : e < d}

LEMMA BelowFacts ==
    ASSUME NEW n \in Nat, NEW S \in SUBSET (0..n), NEW d
    PROVE  /\ Below(S, d) \in SUBSET S
           /\ IsFiniteSet(Below(S, d)) /\ Cardinality(Below(S, d)) \in Nat
<1>0. IsFiniteSet(0..n)
  BY FS_Interval
<1>1. IsFiniteSet(S)
  BY <1>0, FS_Subset
<1>2. Below(S, d) \in SUBSET S
  BY DEF Below
<1>3. IsFiniteSet(Below(S, d))
  BY <1>1, <1>2, FS_Subset
<1> QED
  BY <1>2, <1>3, FS_CardinalityType

(* With its greatest element m, a set has one element more than before m. *)
LEMMA GreatestRank ==
    ASSUME NEW n \in Nat, NEW S \in SUBSET (0..n), S # {}
    PROVE  \E m \in S : /\ \A y \in S : y <= m
                       /\ Cardinality(S) = Cardinality(Below(S, m)) + 1
<1>1. PICK m \in S : \A y \in S : y <= m
  BY MaxFacts
<1>2. S = Below(S, m) \cup {m} /\ m \notin Below(S, m)
  <2>1. m \in Int /\ \A y \in S : y \in Int /\ y <= m
    BY <1>1
  <2>2. \A y \in S : (y < m \/ y = m) /\ ~(m < m)
    BY <2>1
  <2> QED
    BY <2>2, Zenon DEF Below
<1>3. Cardinality(Below(S, m) \cup {m}) = Cardinality(Below(S, m)) + 1
  BY <1>2, BelowFacts, FS_AddElement
<1> QED
  BY <1>1, <1>2, <1>3

(* The elements of a bounded set have the ranks 0, 1, 2 and so on. *)
LEMMA RankedElement ==
    ASSUME NEW n \in Nat, NEW S \in SUBSET (0..n), NEW j \in 0..Cardinality(S) - 1
    PROVE  \E d \in S : Cardinality(Below(S, d)) = j
<1> DEFINE T == {d \in S : Cardinality(Below(S, d)) >= j}
<1>0. IsFiniteSet(0..n)
  BY FS_Interval
<1>1. IsFiniteSet(S)
  BY <1>0, FS_Subset
<1>9. Cardinality(S) \in Nat
  BY <1>1, FS_CardinalityType
<1>2. S # {}
  BY <1>9, FS_EmptySet
<1>3. PICK m \in S : Cardinality(S) = Cardinality(Below(S, m)) + 1
  BY <1>2, GreatestRank
<1>4. Cardinality(Below(S, m)) \in Nat
  BY BelowFacts
<1>5. m \in T
  BY <1>3, <1>4, <1>9
<1>6. PICK d \in T : \A y \in T : d <= y
  <2>1. T \in SUBSET Nat
    <3>1. T \subseteq S /\ S \subseteq Nat
      OBVIOUS
    <3> QED
      BY <3>1, Zenon
  <2> QED
    BY <1>5, <2>1, LeastNat
<1>7. Cardinality(Below(S, d)) \in Nat /\ Cardinality(Below(S, d)) >= j
  BY BelowFacts
<1>8. ASSUME Cardinality(Below(S, d)) > j PROVE FALSE
  <2>1. Below(S, d) \in SUBSET (0..n) /\ Below(S, d) # {}
    <3>1. Cardinality(Below(S, d)) # 0
      BY <1>7, <1>8
    <3> QED
      BY <3>1, BelowFacts, FS_EmptySet
  <2>2. PICK x \in Below(S, d) :
           /\ \A y \in Below(S, d) : y <= x
           /\ Cardinality(Below(S, d)) = Cardinality(Below(Below(S, d), x)) + 1
    BY <2>1, GreatestRank
  <2>3. x \in S /\ x < d
    BY DEF Below
  <2>6. Below(Below(S, d), x) = Below(S, x)
    <3>1. \A y \in S : y < x => y < d
      BY <2>3
    <3> QED
      BY <3>1 DEF Below
  <2>4. Cardinality(Below(S, x)) \in Nat
    BY BelowFacts
  <2>5. x \in T
    BY <1>7, <1>8, <2>2, <2>3, <2>4, <2>6
  <2> QED
    BY <1>6, <2>3, <2>5
<1> QED
  BY <1>7, <1>8

(* A power of two counts the subsets of a set. *)
LEMMA PowerOfTwo ==
    ASSUME NEW e \in Nat
    PROVE  2^e \in Nat /\ e <= 2^e
<1>1. IsFiniteSet(1..e) /\ Cardinality(1..e) = e
  BY FS_Interval
<1>2. IsFiniteSet(SUBSET (1..e)) /\ Cardinality(SUBSET (1..e)) = 2^e
  BY <1>1, FS_SUBSET
<1>3. [i \in 1..e |-> {i}] \in Injection(1..e, SUBSET (1..e))
  BY DEF Injection, IsInjective
<1>4. Cardinality(1..e) <= Cardinality(SUBSET (1..e))
  BY <1>2, <1>3, FS_Injection
<1>5. Cardinality(SUBSET (1..e)) \in Nat
  BY <1>2, FS_CardinalityType
<1> QED
  BY <1>1, <1>2, <1>4, <1>5

(* With one element more there are twice as many: those with it and those  *)
(* without it.                                                             *)
LEMMA PowerDoubles ==
    ASSUME NEW e \in Nat
    PROVE  2^(e + 1) = 2 * 2^e
<1> DEFINE A == SUBSET (1..e)
           B == {T \cup {e + 1} : T \in A}
           f == [T \in A |-> T \cup {e + 1}]
<1>1. SUBSET (1..e + 1) = A \cup B
  <2>1. ASSUME NEW U \in SUBSET (1..e + 1) PROVE U \in A \cup B
    <3>1. CASE e + 1 \in U
      <4>1. U \ {e + 1} \in A
        OBVIOUS
      <4>2. U = (U \ {e + 1}) \cup {e + 1}
        BY <3>1
      <4> QED
        BY <4>1, <4>2
    <3>2. CASE e + 1 \notin U
      BY <3>2
    <3> QED
      BY <3>1, <3>2
  <2>2. ASSUME NEW U \in A \cup B PROVE U \in SUBSET (1..e + 1)
    OBVIOUS
  <2> QED
    BY <2>1, <2>2
<1>2. A \cap B = {}
  <2>1. \A T \in A : e + 1 \notin T
    OBVIOUS
  <2> QED
    BY <2>1
<1>3. f \in Bijection(A, B)
  <2>1. \A T, U \in A : T \cup {e + 1} = U \cup {e + 1} => T = U
    <3>1. \A T \in A : T = (T \cup {e + 1}) \ {e + 1}
      OBVIOUS
    <3> QED
      BY <3>1
  <2>2. f \in [A -> B] /\ \A T \in A : f[T] = T \cup {e + 1}
    OBVIOUS
  <2>3. \A U \in B : \E T \in A : f[T] = U
    BY <2>2
  <2> HIDE DEF f, A, B
  <2>4. f \in Injection(A, B)
    BY <2>1, <2>2 DEF Injection, IsInjective
  <2>5. f \in Surjection(A, B)
    BY <2>2, <2>3 DEF Surjection
  <2> QED
    BY <2>4, <2>5 DEF Bijection
<1>4. /\ IsFiniteSet(1..e) /\ Cardinality(1..e) = e
      /\ IsFiniteSet(1..e + 1) /\ Cardinality(1..e + 1) = e + 1
  BY FS_Interval
<1>5. IsFiniteSet(A) /\ Cardinality(A) = 2^e /\ Cardinality(SUBSET (1..e + 1)) = 2^(e + 1)
  BY <1>4, FS_SUBSET
<1> HIDE DEF A, B, f
<1>6. IsFiniteSet(B) /\ Cardinality(B) = Cardinality(A)
  BY <1>3, <1>5, FS_Bijection DEF ExistsBijection
<1>7. Cardinality(A \cup B) = Cardinality(A) + Cardinality(B) - 0
  BY <1>2, <1>5, <1>6, FS_Union, FS_EmptySet
<1>8. Cardinality(A) \in Nat
  BY <1>5, FS_CardinalityType
<1>9. Cardinality(A \cup B) = 2 * Cardinality(A)
  BY <1>6, <1>7, <1>8
<1> QED
  BY <1>1, <1>5, <1>9
-----------------------------------------------------------------------------
(* A set of subsets of a finite set has a smallest member. *)
LEMMA SmallestSubset ==
    ASSUME NEW S, IsFiniteSet(S), NEW B \in SUBSET SUBSET S, B # {}
    PROVE  \E s \in B : \A x \in s : s \ {x} \notin B
<1> DEFINE T == {Cardinality(s) : s \in B}
<1>1. \A s \in B : IsFiniteSet(s) /\ Cardinality(s) \in Nat
  BY FS_Subset, FS_CardinalityType
<1>2. PICK n \in T : \A m \in T : n <= m
  <2>1. T \in SUBSET Nat /\ T # {}
    BY <1>1
  <2> HIDE DEF T
  <2> QED
    BY <2>1, LeastNat
<1>3. PICK s \in B : Cardinality(s) = n
  OBVIOUS
<1>4. ASSUME NEW x \in s, s \ {x} \in B PROVE FALSE
  <2>1. Cardinality(s \ {x}) = Cardinality(s) - 1
    BY <1>1, FS_RemoveElement
  <2>2. n <= Cardinality(s \ {x})
    BY <1>2, <1>4
  <2> QED
    BY <1>1, <1>3, <2>1, <2>2
<1> QED
  BY <1>4

(* Sums of a function over a finite set.  SumFunctionOnSet takes its       *)
(* elements in the order of Pick: Partial(f, S) is the function it applies *)
(* to S, with the sum over every subset.                                   *)
Pick(s) == CHOOSE x \in s : TRUE
IsPartial(f, D, g) == g = [s \in D |-> IF s = {} THEN 0 ELSE f[Pick(s)] + g[s \ {Pick(s)}]]
Partial(f, S) == CHOOSE g : IsPartial(f, SUBSET S, g)

LEMMA SumIsPartial ==
    ASSUME NEW f, NEW S
    PROVE  SumFunctionOnSet(f, S) = Partial(f, S)[S]
BY DEF SumFunctionOnSet, FoldFunctionOnSet, MapThenFoldSet, Partial, IsPartial, Pick

(* It exists: the sums over the subsets of n + 1 elements follow from the  *)
(* sums over those of n.                                                   *)
LEMMA PartialExists ==
    ASSUME NEW f, NEW S, IsFiniteSet(S)
    PROVE  IsPartial(f, SUBSET S, Partial(f, S))
<1> DEFINE Upto(n) == {s \in SUBSET S : Cardinality(s) <= n}
           Missing == {n \in Nat : ~ \E g : IsPartial(f, Upto(n), g)}
<1>0. \A s \in SUBSET S : IsFiniteSet(s) /\ Cardinality(s) \in Nat /\ (s # {} => Pick(s) \in s)
  BY FS_Subset, FS_CardinalityType DEF Pick
<1>1. ASSUME Missing # {} PROVE FALSE
  <2>1. PICK n \in Missing : \A m \in Missing : n <= m
    <3>1. Missing \in SUBSET Nat
      OBVIOUS
    <3> HIDE DEF Missing
    <3> QED
      BY <1>1, <3>1, LeastNat
  <2>2. CASE n = 0
    <3> DEFINE g == [s \in Upto(0) |-> 0]
    <3>1. \A s \in Upto(0) : s = {}
      BY <1>0, FS_EmptySet
    <3>2. IsPartial(f, Upto(0), g)
      BY <3>1 DEF IsPartial
    <3> QED
      BY <2>2, <3>2
  <2>3. CASE n # 0
    <3>1. n - 1 \in Nat /\ n - 1 \notin Missing
      <4>1. n \in Nat
        OBVIOUS
      <4> HIDE DEF Missing
      <4> QED
        BY <2>1, <2>3, <4>1
    <3>2. PICK g : IsPartial(f, Upto(n - 1), g)
      BY <3>1
    <3> DEFINE h == [s \in Upto(n) |-> IF s = {} THEN 0 ELSE f[Pick(s)] + g[s \ {Pick(s)}]]
    <3>3. \A s \in Upto(n) : s # {} => s \ {Pick(s)} \in Upto(n - 1) /\ s \ {Pick(s)} \in Upto(n)
      <4>1. ASSUME NEW s \in Upto(n), s # {} PROVE s \ {Pick(s)} \in Upto(n - 1) /\ s \ {Pick(s)} \in Upto(n)
        <5>1. Cardinality(s \ {Pick(s)}) = Cardinality(s) - 1
          BY <1>0, <4>1, FS_RemoveElement
        <5>2. Cardinality(s) \in Nat /\ n \in Nat /\ Cardinality(s) <= n
          BY <1>0
        <5> QED
          BY <5>1, <5>2
      <4> QED
        BY <4>1
    <3>4. \A s \in Upto(n - 1) : g[s] = IF s = {} THEN 0 ELSE f[Pick(s)] + g[s \ {Pick(s)}]
      BY <3>2 DEF IsPartial
    <3>5. \A s \in Upto(n) : h[s] = IF s = {} THEN 0 ELSE f[Pick(s)] + g[s \ {Pick(s)}]
      OBVIOUS
    <3>6. \A s \in Upto(n) : s # {} => h[s \ {Pick(s)}] = g[s \ {Pick(s)}]
      <4> HIDE DEF h, Upto
      <4> QED
        BY <3>3, <3>4, <3>5
    <3>7. IsPartial(f, Upto(n), h)
      BY <3>6 DEF IsPartial
    <3> HIDE DEF h
    <3> QED
      BY <3>7
  <2> QED
    BY <2>2, <2>3
<1>2. Cardinality(S) \in Nat /\ Upto(Cardinality(S)) = SUBSET S
  BY FS_Subset, FS_CardinalityType
<1>3. PICK g : IsPartial(f, SUBSET S, g)
  BY <1>1, <1>2
<1> QED
  BY <1>3 DEF Partial

(* The sums over the subsets do not depend on the set they are part of. *)
LEMMA PartialOfPart ==
    ASSUME NEW f, NEW S, IsFiniteSet(S), NEW P \in SUBSET S
    PROVE  Partial(f, S)[P] = Partial(f, P)[P]
<1> DEFINE B == {s \in SUBSET P : Partial(f, S)[s] # Partial(f, P)[s]}
<1>1. IsFiniteSet(P)
  BY FS_Subset
<1>2. IsPartial(f, SUBSET S, Partial(f, S)) /\ IsPartial(f, SUBSET P, Partial(f, P))
  BY <1>1, PartialExists
<1>3. ASSUME B # {} PROVE FALSE
  <2>1. PICK s \in B : \A x \in s : s \ {x} \notin B
    <3>1. B \in SUBSET SUBSET P
      OBVIOUS
    <3> HIDE DEF B
    <3> QED
      BY <1>1, <1>3, <3>1, SmallestSubset
  <2>2. CASE s = {}
    BY <1>2, <2>2 DEF IsPartial
  <2>3. CASE s # {}
    <3>1. Pick(s) \in s
      BY <2>3 DEF Pick
    <3>2. Partial(f, S)[s \ {Pick(s)}] = Partial(f, P)[s \ {Pick(s)}]
      BY <2>1, <3>1
    <3> QED
      BY <1>2, <2>3, <3>2 DEF IsPartial
  <2> QED
    BY <2>2, <2>3
<1> QED
  BY <1>3

(* A sum is 0 or one of its terms and the sum of the others. *)
LEMMA SumUnfolds ==
    ASSUME NEW f, NEW S, IsFiniteSet(S)
    PROVE  /\ S = {} => SumFunctionOnSet(f, S) = 0
           /\ S # {} => /\ Pick(S) \in S
                        /\ SumFunctionOnSet(f, S) = f[Pick(S)] + SumFunctionOnSet(f, S \ {Pick(S)})
<1>1. Partial(f, S)[S] = IF S = {} THEN 0 ELSE f[Pick(S)] + Partial(f, S)[S \ {Pick(S)}]
  <2> DEFINE g == Partial(f, S)
  <2>1. IsPartial(f, SUBSET S, g)
    BY PartialExists
  <2> HIDE DEF g
  <2>2. \A s \in SUBSET S : g[s] = IF s = {} THEN 0 ELSE f[Pick(s)] + g[s \ {Pick(s)}]
    BY <2>1 DEF IsPartial
  <2>3. g[S] = IF S = {} THEN 0 ELSE f[Pick(S)] + g[S \ {Pick(S)}]
    BY <2>2
  <2> QED
    BY <2>3 DEF g
<1>2. Partial(f, S)[S \ {Pick(S)}] = Partial(f, S \ {Pick(S)})[S \ {Pick(S)}]
  BY PartialOfPart
<1>3. S # {} => Pick(S) \in S
  BY DEF Pick
<1> QED
  BY <1>1, <1>2, <1>3, SumIsPartial

LEMMA SumType ==
    ASSUME NEW D, NEW f \in [D -> Int], NEW S \in SUBSET D, IsFiniteSet(S)
    PROVE  SumFunctionOnSet(f, S) \in Int
<1> DEFINE B == {s \in SUBSET S : SumFunctionOnSet(f, s) \notin Int}
<1>1. ASSUME B # {} PROVE FALSE
  <2>1. PICK s \in B : \A x \in s : s \ {x} \notin B
    <3>1. B \in SUBSET SUBSET S
      OBVIOUS
    <3> HIDE DEF B
    <3> QED
      BY <1>1, <3>1, SmallestSubset
  <2>2. IsFiniteSet(s) /\ SumFunctionOnSet(f, s) \notin Int
    BY FS_Subset
  <2>5. s # {}
    <3>1. s = {} => SumFunctionOnSet(f, s) = 0
      BY <2>2, SumUnfolds
    <3> HIDE DEF B
    <3> QED
      BY <2>2, <3>1
  <2>3. Pick(s) \in s /\ SumFunctionOnSet(f, s) = f[Pick(s)] + SumFunctionOnSet(f, s \ {Pick(s)})
    BY <2>2, <2>5, SumUnfolds
  <2>4. SumFunctionOnSet(f, s \ {Pick(s)}) \in Int
    BY <2>1, <2>3
  <2> QED
    BY <2>2, <2>3, <2>4
<1> QED
  BY <1>1

(* Any term may be taken out first. *)
LEMMA SumRemove ==
    ASSUME NEW D, NEW f \in [D -> Int], NEW S \in SUBSET D, IsFiniteSet(S), NEW x \in S
    PROVE  SumFunctionOnSet(f, S) = f[x] + SumFunctionOnSet(f, S \ {x})
<1> DEFINE Sum(s) == SumFunctionOnSet(f, s)
           B == {s \in SUBSET S : \E y \in s : Sum(s) # f[y] + Sum(s \ {y})}
<1>0. \A s \in SUBSET S : IsFiniteSet(s) /\ Sum(s) \in Int
  BY FS_Subset, SumType
<1>1. ASSUME B # {} PROVE FALSE
  <2>1. PICK s \in B : \A y \in s : s \ {y} \notin B
    <3>1. B \in SUBSET SUBSET S
      OBVIOUS
    <3> HIDE DEF B
    <3> QED
      BY <1>1, <3>1, SmallestSubset
  <2>2. PICK y \in s : Sum(s) # f[y] + Sum(s \ {y})
    OBVIOUS
  <2> DEFINE z == Pick(s)
  <2>3. z \in s /\ Sum(s) = f[z] + Sum(s \ {z})
    BY <1>0, SumUnfolds
  <2>4. z # y
    BY <2>2, <2>3
  <2>5. s \in SUBSET S /\ y \in s \ {z} /\ z \in s \ {y} /\ f[y] \in Int /\ f[z] \in Int
    BY <2>3, <2>4
  <2>6. Sum(s \ {z}) = f[y] + Sum((s \ {z}) \ {y})
    BY <2>1, <2>3, <2>5
  <2>7. Sum(s \ {y}) = f[z] + Sum((s \ {y}) \ {z})
    BY <2>1, <2>5
  <2>8. (s \ {z}) \ {y} = (s \ {y}) \ {z} /\ Sum((s \ {y}) \ {z}) \in Int
    BY <1>0, <2>5
  <2>9. Sum(s \ {z}) = f[y] + Sum((s \ {y}) \ {z})
    BY <2>6, <2>8, Zenon
  <2> HIDE DEF z, Sum, B
  <2> QED
    BY <2>2, <2>3, <2>5, <2>7, <2>8, <2>9
<1> QED
  BY <1>1

(* The sum over a set depends on the function there only. *)
LEMMA SumSame ==
    ASSUME NEW D, NEW f \in [D -> Int], NEW E, NEW g \in [E -> Int], NEW S \in SUBSET D, IsFiniteSet(S),
           \A x \in S : g[x] = f[x]
    PROVE  SumFunctionOnSet(g, S) = SumFunctionOnSet(f, S)
<1> DEFINE B == {s \in SUBSET S : SumFunctionOnSet(g, s) # SumFunctionOnSet(f, s)}
<1>1. ASSUME B # {} PROVE FALSE
  <2>1. PICK s \in B : \A x \in s : s \ {x} \notin B
    <3>1. B \in SUBSET SUBSET S
      OBVIOUS
    <3> HIDE DEF B
    <3> QED
      BY <1>1, <3>1, SmallestSubset
  <2>2. IsFiniteSet(s) /\ SumFunctionOnSet(g, s) # SumFunctionOnSet(f, s)
    BY FS_Subset
  <2>3. s # {}
    BY <2>2, SumUnfolds
  <2>4. /\ Pick(s) \in s
        /\ SumFunctionOnSet(f, s) = f[Pick(s)] + SumFunctionOnSet(f, s \ {Pick(s)})
        /\ SumFunctionOnSet(g, s) = g[Pick(s)] + SumFunctionOnSet(g, s \ {Pick(s)})
    BY <2>2, <2>3, SumUnfolds
  <2>5. SumFunctionOnSet(g, s \ {Pick(s)}) = SumFunctionOnSet(f, s \ {Pick(s)})
    BY <2>1, <2>4
  <2>6. g[Pick(s)] = f[Pick(s)]
    BY <2>4
  <2> QED
    BY <2>2, <2>4, <2>5, <2>6
<1> QED
  BY <1>1

(* Changing one term changes the sum by as much. *)
LEMMA SumChange ==
    ASSUME NEW D, NEW f \in [D -> Int], NEW g \in [D -> Int], NEW S \in SUBSET D, IsFiniteSet(S),
           NEW x \in S, \A y \in S : y # x => g[y] = f[y]
    PROVE  SumFunctionOnSet(g, S) = SumFunctionOnSet(f, S) + g[x] - f[x]
<1>1. IsFiniteSet(S \ {x}) /\ S \ {x} \in SUBSET D /\ f[x] \in Int /\ g[x] \in Int
  BY FS_Subset
<1>2. SumFunctionOnSet(g, S \ {x}) = SumFunctionOnSet(f, S \ {x})
  BY <1>1, SumSame
<1>3. SumFunctionOnSet(f, S) = f[x] + SumFunctionOnSet(f, S \ {x})
  BY SumRemove
<1>4. SumFunctionOnSet(g, S) = g[x] + SumFunctionOnSet(g, S \ {x})
  BY SumRemove
<1>5. SumFunctionOnSet(f, S \ {x}) \in Int
  BY <1>1, SumType
<1> QED
  BY <1>1, <1>2, <1>3, <1>4, <1>5

LEMMA SumOfZeros ==
    ASSUME NEW f, NEW S, IsFiniteSet(S), \A x \in S : f[x] = 0
    PROVE  SumFunctionOnSet(f, S) = 0
<1> DEFINE B == {s \in SUBSET S : SumFunctionOnSet(f, s) # 0}
<1>1. ASSUME B # {} PROVE FALSE
  <2>1. PICK s \in B : \A x \in s : s \ {x} \notin B
    <3>1. B \in SUBSET SUBSET S
      OBVIOUS
    <3> HIDE DEF B
    <3> QED
      BY <1>1, <3>1, SmallestSubset
  <2>2. IsFiniteSet(s) /\ SumFunctionOnSet(f, s) # 0
    BY FS_Subset
  <2>3. s # {}
    BY <2>2, SumUnfolds
  <2>4. Pick(s) \in s /\ SumFunctionOnSet(f, s) = f[Pick(s)] + SumFunctionOnSet(f, s \ {Pick(s)})
    BY <2>2, <2>3, SumUnfolds
  <2>5. SumFunctionOnSet(f, s \ {Pick(s)}) = 0
    BY <2>1, <2>4
  <2>6. f[Pick(s)] = 0
    BY <2>4
  <2> QED
    BY <2>2, <2>4, <2>5, <2>6
<1> QED
  BY <1>1

LEMMA SumNat ==
    ASSUME NEW D, NEW f \in [D -> Nat], NEW S \in SUBSET D, IsFiniteSet(S)
    PROVE  SumFunctionOnSet(f, S) \in Nat
<1> DEFINE B == {s \in SUBSET S : SumFunctionOnSet(f, s) \notin Nat}
<1>1. ASSUME B # {} PROVE FALSE
  <2>1. PICK s \in B : \A x \in s : s \ {x} \notin B
    <3>1. B \in SUBSET SUBSET S
      OBVIOUS
    <3> HIDE DEF B
    <3> QED
      BY <1>1, <3>1, SmallestSubset
  <2>2. IsFiniteSet(s) /\ SumFunctionOnSet(f, s) \notin Nat
    BY FS_Subset
  <2>3. s # {}
    <3>1. s = {} => SumFunctionOnSet(f, s) = 0
      BY <2>2, SumUnfolds
    <3> HIDE DEF B
    <3> QED
      BY <2>2, <3>1
  <2>4. Pick(s) \in s /\ SumFunctionOnSet(f, s) = f[Pick(s)] + SumFunctionOnSet(f, s \ {Pick(s)})
    BY <2>2, <2>3, SumUnfolds
  <2>5. SumFunctionOnSet(f, s \ {Pick(s)}) \in Nat
    BY <2>1, <2>4
  <2>6. f[Pick(s)] \in Nat
    BY <2>4
  <2> QED
    BY <2>2, <2>4, <2>5, <2>6
<1> QED
  BY <1>1

(* A sum may be taken in two parts. *)
LEMMA SumUnion ==
    ASSUME NEW D, NEW f \in [D -> Int], NEW S \in SUBSET D, IsFiniteSet(S), NEW P \in SUBSET S
    PROVE  SumFunctionOnSet(f, S) = SumFunctionOnSet(f, P) + SumFunctionOnSet(f, S \ P)
<1> DEFINE Sum(s) == SumFunctionOnSet(f, s)
           B == {s \in SUBSET P : Sum(s \cup (S \ P)) # Sum(s) + Sum(S \ P)}
<1>0. \A s \in SUBSET S : IsFiniteSet(s) /\ Sum(s) \in Int
  BY FS_Subset, SumType
<1>1. ASSUME B # {} PROVE FALSE
  <2>1. PICK s \in B : \A x \in s : s \ {x} \notin B
    <3>1. B \in SUBSET SUBSET P /\ IsFiniteSet(P)
      BY <1>0
    <3> HIDE DEF B
    <3> QED
      BY <1>1, <3>1, SmallestSubset
  <2>2. s \in SUBSET P /\ Sum(s \cup (S \ P)) # Sum(s) + Sum(S \ P)
    OBVIOUS
  <2>3. s # {}
    <3>1. Sum({}) = 0
      BY FS_EmptySet, SumUnfolds
    <3>2. ASSUME s = {} PROVE FALSE
      <4>1. Sum(s) = 0
        BY <3>1, <3>2
      <4>2. s \cup (S \ P) = S \ P /\ Sum(S \ P) \in Int
        BY <1>0, <3>2
      <4>3. Sum(s \cup (S \ P)) = Sum(S \ P)
        BY <4>2, Zenon
      <4> HIDE DEF Sum, B
      <4> QED
        BY <2>2, <4>1, <4>2, <4>3
    <3> QED
      BY <3>2
  <2>4. PICK x \in s : TRUE
    BY <2>3
  <2>5. Sum((s \ {x}) \cup (S \ P)) = Sum(s \ {x}) + Sum(S \ P)
    BY <2>1, <2>2
  <2>6. /\ s \in SUBSET S /\ s \ {x} \in SUBSET S /\ s \cup (S \ P) \in SUBSET S
        /\ x \in s \cup (S \ P) /\ (s \cup (S \ P)) \ {x} = (s \ {x}) \cup (S \ P)
        /\ f[x] \in Int
    BY <2>2
  <2>7. Sum(s) = f[x] + Sum(s \ {x})
    BY <1>0, <2>6, SumRemove
  <2>8. Sum(s \cup (S \ P)) = f[x] + Sum((s \ {x}) \cup (S \ P))
    <3>1. s \cup (S \ P) \in SUBSET D /\ IsFiniteSet(s \cup (S \ P))
      BY <1>0, <2>6
    <3>2. Sum(s \cup (S \ P)) = f[x] + Sum((s \cup (S \ P)) \ {x})
      BY <2>6, <3>1, SumRemove
    <3> QED
      BY <2>6, <3>2
  <2>9. Sum(s \ {x}) \in Int /\ Sum(S \ P) \in Int
    BY <1>0, <2>6
  <2> HIDE DEF Sum, B
  <2> QED
    BY <2>2, <2>5, <2>6, <2>7, <2>8, <2>9
<1>2. P \cup (S \ P) = S
  OBVIOUS
<1> QED
  BY <1>1, <1>2
=============================================================================
