-------------------------- MODULE CollectorProofs --------------------------
(***************************************************************************)
(* Proofs about the metrics.  First the buckets of the histogram, for any  *)
(* word size and number of sub-buckets.  Then the collector, for any set   *)
(* of goroutines and any interleaving of their atomic operations.          *)
(***************************************************************************)
EXTENDS Collector, BasicLemmas

LEMMA PowerPositive ==
    ASSUME NEW e \in Nat
    PROVE  2 ^ e \in Nat /\ 2 ^ e >= 1 /\ (e = 0 => 2 ^ e = 1)
<1> DEFINE B == {n \in Nat : ~(2 ^ n >= 1)}
<1>0. 2 ^ 0 = 1
  OBVIOUS
<1>1. ASSUME B # {} PROVE FALSE
  <2>1. PICK n \in B : \A m \in B : n <= m
    <3>1. B \in SUBSET Nat
      OBVIOUS
    <3> HIDE DEF B
    <3> QED
      BY <1>1, <3>1, LeastNat
  <2>2. n \in Nat /\ ~(2 ^ n >= 1)
    OBVIOUS
  <2>3. n # 0
    <3>1. ASSUME n = 0 PROVE FALSE
      <4>1. 2 ^ n = 1
        BY <1>0, <3>1, Zenon
      <4> HIDE DEF B
      <4> QED
        BY <2>2, <4>1
    <3> QED
      BY <3>1
  <2>4. n - 1 \in Nat /\ n - 1 \notin B
    <3> HIDE DEF B
    <3> QED
      BY <2>1, <2>2, <2>3
  <2>5. 2 ^ (n - 1) \in Nat /\ 2 ^ (n - 1) >= 1
    BY <2>4, PowerOfTwo
  <2>6. 2 ^ ((n - 1) + 1) = 2 * 2 ^ (n - 1)
    BY <2>4, PowerDoubles
  <2>7. (n - 1) + 1 = n
    BY <2>2
  <2> QED
    BY <2>2, <2>5, <2>6, <2>7
<1>2. 2 ^ e >= 1
  BY <1>1
<1> QED
  BY <1>0, <1>2, PowerOfTwo

LEMMA PowerSum ==
    ASSUME NEW a \in Nat, NEW b \in Nat
    PROVE  2 ^ (a + b) = 2 ^ a * 2 ^ b
<1> DEFINE B == {n \in Nat : 2 ^ (a + n) # 2 ^ a * 2 ^ n}
<1>1. ASSUME B # {} PROVE FALSE
  <2>1. PICK n \in B : \A m \in B : n <= m
    <3>1. B \in SUBSET Nat
      OBVIOUS
    <3> HIDE DEF B
    <3> QED
      BY <1>1, <3>1, LeastNat
  <2>2. n \in Nat /\ 2 ^ (a + n) # 2 ^ a * 2 ^ n
    OBVIOUS
  <2>3. n # 0
    <3>1. 2 ^ 0 = 1 /\ 2 ^ a \in Nat /\ a + 0 = a
      BY PowerPositive
    <3>2. ASSUME n = 0 PROVE FALSE
      <4>1. 2 ^ n = 1 /\ 2 ^ (a + n) = 2 ^ a
        BY <3>1, <3>2, Zenon
      <4> HIDE DEF B
      <4> QED
        BY <2>2, <3>1, <4>1
    <3> QED
      BY <3>2
  <2>4. n - 1 \in Nat /\ n - 1 \notin B
    <3> HIDE DEF B
    <3> QED
      BY <2>1, <2>2, <2>3
  <2>5. 2 ^ (a + (n - 1)) = 2 ^ a * 2 ^ (n - 1)
    BY <2>4
  <2>6. 2 ^ ((n - 1) + 1) = 2 * 2 ^ (n - 1) /\ 2 ^ ((a + (n - 1)) + 1) = 2 * 2 ^ (a + (n - 1))
    BY <2>4, PowerDoubles
  <2>7. (n - 1) + 1 = n /\ (a + (n - 1)) + 1 = a + n
    BY <2>2
  <2>8. 2 ^ n = 2 * 2 ^ (n - 1) /\ 2 ^ (a + n) = 2 * (2 ^ a * 2 ^ (n - 1))
    BY <2>5, <2>6, <2>7
  <2>9. 2 ^ a \in Nat /\ 2 ^ (n - 1) \in Nat
    BY <2>4, PowerOfTwo
  <2> DEFINE x == 2 ^ a
             y == 2 ^ (n - 1)
  <2>10. x \in Nat /\ y \in Nat /\ 2 ^ n = 2 * y /\ 2 ^ (a + n) = 2 * (x * y)
    BY <2>8, <2>9
  <2>11. 2 ^ (a + n) # x * 2 ^ n
    BY <2>2
  <2> HIDE DEF x, y
  <2>12. x * (2 * y) = 2 * (x * y)
    BY <2>10
  <2> QED
    BY <2>10, <2>11, <2>12
<1> QED
  BY <1>1

LEMMA PowerGrows ==
    ASSUME NEW a \in Nat, NEW b \in Nat
    PROVE  a <= b <=> 2 ^ a <= 2 ^ b
<1>1. ASSUME NEW x \in Nat, NEW y \in Nat, x <= y PROVE 2 ^ x <= 2 ^ y
  <2>1. y - x \in Nat /\ x + (y - x) = y
    BY <1>1
  <2>2. 2 ^ (x + (y - x)) = 2 ^ x * 2 ^ (y - x)
    BY <2>1, PowerSum
  <2>3. 2 ^ (y - x) \in Nat /\ 2 ^ (y - x) >= 1 /\ 2 ^ x \in Nat
    BY <2>1, PowerPositive
  <2> DEFINE p == 2 ^ x
             q == 2 ^ (y - x)
  <2>4. p \in Nat /\ q \in Nat /\ q >= 1 /\ 2 ^ y = p * q
    BY <2>1, <2>2, <2>3
  <2> HIDE DEF p, q
  <2>5. p <= p * q
    BY <2>4
  <2> QED
    BY <2>4, <2>5 DEF p
<1>2. ASSUME b < a PROVE ~(2 ^ a <= 2 ^ b)
  <2>1. b + 1 <= a
    BY <1>2
  <2>2. 2 ^ (b + 1) <= 2 ^ a
    BY <2>1, <1>1
  <2>3. 2 ^ (b + 1) = 2 * 2 ^ b /\ 2 ^ b \in Nat /\ 2 ^ b >= 1 /\ 2 ^ a \in Nat
    BY PowerDoubles, PowerPositive
  <2> QED
    BY <2>2, <2>3
<1> QED
  BY <1>1, <1>2

LEMMA LessTimes ==
    ASSUME NEW a \in Int, NEW b \in Int, NEW p \in Nat, p >= 1
    PROVE  /\ a * p < b * p <=> a < b
           /\ a * p \in Int /\ b * p \in Int
<1>1. ASSUME a < b PROVE a * p < b * p
  BY <1>1
<1>2. ASSUME b <= a PROVE b * p <= a * p
  BY <1>2
<1>3. a * p \in Int /\ b * p \in Int
  OBVIOUS
<1> QED
  BY <1>1, <1>2, <1>3

LEMMA DivIs ==
    ASSUME NEW v \in Nat, NEW p \in Nat, p >= 1
    PROVE  /\ v \div p \in Nat /\ (v \div p) * p <= v /\ v < ((v \div p) + 1) * p
           /\ \A q \in Nat : q * p <= v /\ v < (q + 1) * p => v \div p = q
<1>1. v \div p \in Nat /\ (v \div p) * p <= v /\ v < ((v \div p) + 1) * p
  BY Z3
<1>2. ASSUME NEW q \in Nat, q * p <= v, v < (q + 1) * p PROVE v \div p = q
  <2> DEFINE d == v \div p
  <2>1. d \in Nat /\ d * p <= v /\ v < (d + 1) * p
    BY <1>1
  <2> HIDE DEF d
  <2>2. d * p < (q + 1) * p /\ q * p < (d + 1) * p
    BY <1>2, <2>1
  <2>3. d < q + 1 /\ q < d + 1
    BY <2>1, <2>2, LessTimes
  <2>4. d = q
    BY <2>1, <2>3
  <2> QED
    BY <2>4 DEF d
<1> QED
  BY <1>1, <1>2

(* Len64 is the one length with the value below its power of two and not   *)
(* below the power before.                                                 *)
LEMMA LenIs ==
    ASSUME NEW v \in 0..2 ^ Width - 1
    PROVE  /\ Len64(v) \in 0..Width /\ v < 2 ^ Len64(v) /\ (Len64(v) = 0 \/ 2 ^ (Len64(v) - 1) <= v)
           /\ \A n \in 0..Width : v < 2 ^ n /\ (n = 0 \/ 2 ^ (n - 1) <= v) => Len64(v) = n
<1> DEFINE P(n) == v < 2 ^ n /\ (n = 0 \/ 2 ^ (n - 1) <= v)
           T == {n \in 0..Width : v < 2 ^ n}
<1>0. Width \in Nat /\ 2 ^ Width \in Nat /\ v \in Nat /\ v < 2 ^ Width
  BY HistogramAssumption, PowerOfTwo
<1>1. PICK n \in T : \A m \in T : n <= m
  <2>1. T \in SUBSET Nat /\ T # {}
    BY <1>0
  <2> HIDE DEF T
  <2> QED
    BY <2>1, LeastNat
<1>2. n \in 0..Width /\ v < 2 ^ n
  OBVIOUS
<1>3. n = 0 \/ 2 ^ (n - 1) <= v
  <2>1. ASSUME n # 0 PROVE 2 ^ (n - 1) <= v
    <3>1. n - 1 \in 0..Width /\ n - 1 \in Nat /\ n - 1 < n
      BY <1>0, <1>2, <2>1
    <3>2. 2 ^ (n - 1) \in Nat
      BY <3>1, PowerOfTwo
    <3>3. ~(v < 2 ^ (n - 1))
      <4>1. n - 1 \notin T
        <5> HIDE DEF T
        <5> QED
          BY <1>0, <1>1, <1>2, <3>1
      <4> QED
        BY <3>1, <4>1
    <3> QED
      BY <1>0, <3>2, <3>3
  <2> QED
    BY <2>1
<1>4. P(Len64(v)) /\ Len64(v) \in 0..Width
  BY <1>2, <1>3 DEF Len64
<1>5. ASSUME NEW k \in 0..Width, NEW m \in 0..Width, P(k), P(m), k < m PROVE FALSE
  <2>1. m - 1 \in Nat /\ k \in Nat /\ k <= m - 1 /\ m # 0
    BY <1>0, <1>5
  <2>2. 2 ^ k <= 2 ^ (m - 1) /\ 2 ^ k \in Nat /\ 2 ^ (m - 1) \in Nat
    BY <2>1, PowerGrows, PowerOfTwo
  <2>3. v < 2 ^ k /\ 2 ^ (m - 1) <= v
    BY <1>5, <2>1
  <2> QED
    BY <1>0, <2>2, <2>3
<1> HIDE DEF P
<1>6. ASSUME NEW k \in 0..Width, P(k) PROVE Len64(v) = k
  BY <1>0, <1>4, <1>5, <1>6
<1> QED
  BY <1>4, <1>6 DEF P

(* A value is Sub units of 2 ^ Shift and a rest: its bucket. *)
In(v, shift, q) ==
    /\ shift \in 0..Width - 1 - SubBits /\ q \in subCount..2 * subCount - 1
    /\ q * 2 ^ shift <= v /\ v < (q + 1) * 2 ^ shift

LEMMA UnitFacts ==
    ASSUME NEW shift \in 0..Width - 1 - SubBits
    PROVE  /\ subCount \in Nat /\ subCount >= 1 /\ 2 ^ shift \in Nat /\ 2 ^ shift >= 1 /\ shift \in Nat
           /\ 2 ^ (SubBits + shift) = subCount * 2 ^ shift
           /\ 2 ^ (SubBits + shift + 1) = 2 * (subCount * 2 ^ shift)
           /\ SubBits \in Nat /\ Width \in Nat /\ 2 ^ Width \in Nat
<1>1. SubBits \in Nat /\ Width \in Nat /\ shift \in Nat /\ SubBits + shift \in Nat
  BY HistogramAssumption
<1> QED
  BY <1>1, PowerPositive, PowerSum, PowerDoubles DEF subCount

LEMMA InIndex ==
    ASSUME NEW v \in 0..2 ^ Width - 1, NEW shift, NEW q, In(v, shift, q)
    PROVE  bucketIndex(v) = shift * subCount + q /\ ~(v < subCount)
<1> DEFINE p == 2 ^ shift
           s == subCount
<1>1. /\ s \in Nat /\ s >= 1 /\ p \in Nat /\ p >= 1 /\ shift \in Nat
      /\ 2 ^ (SubBits + shift) = s * p /\ 2 ^ (SubBits + shift + 1) = 2 * (s * p)
      /\ SubBits \in Nat /\ Width \in Nat /\ v \in Nat
  BY UnitFacts DEF In
<1>2. q \in Nat /\ s <= q /\ q + 1 <= 2 * s /\ q * p <= v /\ v < (q + 1) * p /\ shift <= Width - 1 - SubBits
  BY <1>1 DEF In
<1>3. s * p <= v /\ v < 2 * (s * p) /\ s <= s * p
  <2> HIDE DEF p, s
  <2>1. s * p <= q * p /\ (q + 1) * p <= (2 * s) * p /\ (2 * s) * p = 2 * (s * p) /\ s <= s * p
    BY <1>1, <1>2
  <2>2. s * p \in Nat /\ q * p \in Nat /\ (q + 1) * p \in Nat
    BY <1>1, <1>2
  <2> QED
    BY <1>1, <1>2, <2>1, <2>2
<1>4. Len64(v) = SubBits + shift + 1
  <2>1. SubBits + shift + 1 \in 0..Width /\ (SubBits + shift + 1) - 1 = SubBits + shift
    BY <1>1, <1>2
  <2>2. v < 2 ^ (SubBits + shift + 1) /\ 2 ^ ((SubBits + shift + 1) - 1) <= v
    BY <1>1, <1>3, <2>1
  <2> QED
    BY <2>1, <2>2, LenIs
<1>5. ~(v < s) /\ Len64(v) - 1 - SubBits = shift
  <2> HIDE DEF p, s
  <2>1. s * p \in Nat
    BY <1>1
  <2> QED
    BY <1>1, <1>3, <1>4, <2>1
<1>6. v \div p = q
  <2> HIDE DEF p, s
  <2> QED
    BY <1>1, <1>2, DivIs
<1>7. bucketIndex(v) = (shift + 1) * s + (q - s)
  BY <1>5, <1>6 DEF bucketIndex
<1> HIDE DEF p, s
<1>8. (shift + 1) * s + (q - s) = shift * s + q
  BY <1>1, <1>2
<1> QED
  BY <1>5, <1>7, <1>8 DEF s

(* Every value above the linear part has such a bucket. *)
LEMMA InSome ==
    ASSUME NEW v \in 0..2 ^ Width - 1, v >= subCount
    PROVE  \E shift, q : In(v, shift, q)
<1> DEFINE n == Len64(v)
           shift == n - 1 - SubBits
           p == 2 ^ shift
           q == v \div p
           s == subCount
<1>1. n \in 0..Width /\ v < 2 ^ n /\ (n = 0 \/ 2 ^ (n - 1) <= v)
  BY LenIs
<1>2. SubBits \in Nat /\ Width \in Nat /\ SubBits < Width /\ s = 2 ^ SubBits /\ v \in Nat /\ s \in Nat /\ s <= v
  BY HistogramAssumption, PowerOfTwo DEF subCount
<1>3. SubBits < n
  <2>1. ASSUME n <= SubBits PROVE FALSE
    <3>1. n \in Nat /\ 2 ^ n \in Nat
      BY <1>1, PowerOfTwo
    <3>2. 2 ^ n <= s
      BY <1>2, <2>1, <3>1, PowerGrows
    <3> HIDE DEF n, s
    <3> QED
      BY <1>1, <1>2, <3>1, <3>2
  <2> HIDE DEF n
  <2> QED
    BY <1>1, <1>2, <2>1
<1>4. shift \in 0..Width - 1 - SubBits /\ SubBits + shift = n - 1 /\ SubBits + shift + 1 = n /\ n # 0
  <2> HIDE DEF n
  <2> QED
    BY <1>1, <1>2, <1>3
<1>5. p \in Nat /\ p >= 1 /\ 2 ^ (n - 1) = s * p /\ 2 ^ n = 2 * (s * p) /\ s >= 1
  <2> HIDE DEF shift
  <2> QED
    BY <1>4, UnitFacts
<1>6. s * p <= v /\ v < 2 * (s * p)
  BY <1>1, <1>4, <1>5
<1> HIDE DEF n, shift, p, s
<1>7. q \in Nat /\ q * p <= v /\ v < (q + 1) * p
  BY <1>2, <1>5, DivIs
<1> HIDE DEF q
<1>8. s * p < (q + 1) * p /\ q * p < (2 * s) * p
  <2>1. (2 * s) * p = 2 * (s * p) /\ s * p \in Nat /\ q * p \in Nat /\ (q + 1) * p \in Nat
    BY <1>2, <1>5, <1>7
  <2> QED
    BY <1>2, <1>6, <1>7, <2>1
<1>9. s < q + 1 /\ q < 2 * s
  BY <1>2, <1>5, <1>7, <1>8, LessTimes
<1>10. q \in s..2 * s - 1
  BY <1>2, <1>7, <1>9
<1> QED
  BY <1>4, <1>7, <1>10 DEF In, p, s

(* A value in the linear part is its own bucket. *)
LEMMA LinearIndex ==
    ASSUME NEW v \in Nat, v < subCount
    PROVE  bucketIndex(v) = v /\ TwiceMidpoint(v) = 2 * v
BY DEF bucketIndex, TwiceMidpoint

LEMMA SizeFacts ==
    /\ subCount \in Nat /\ subCount >= 1 /\ numBuckets \in Nat
    /\ numBuckets = (Width - 1 - SubBits) * subCount + 2 * subCount
    /\ numBuckets >= 2 * subCount
    /\ Width - 1 - SubBits \in Nat /\ 2 ^ Width \in Nat /\ 2 ^ Width >= 2 * subCount
<1> DEFINE s == subCount
           w == Width - 1 - SubBits
<1>1. s \in Nat /\ s >= 1 /\ w \in Nat /\ w \in 0..Width - 1 - SubBits
  BY HistogramAssumption, PowerPositive DEF subCount
<1>2. numBuckets = (w + 2) * s
  BY <1>1, HistogramAssumption DEF numBuckets
<1>3. 2 ^ Width \in Nat /\ 2 ^ w \in Nat /\ 2 ^ w >= 1 /\ 2 ^ Width = 2 * (s * 2 ^ w)
  <2>1. SubBits + w + 1 = Width
    BY HistogramAssumption
  <2> HIDE DEF w
  <2> QED
    BY <1>1, <2>1, UnitFacts
<1> DEFINE p == 2 ^ w
<1>4. p \in Nat /\ p >= 1 /\ 2 ^ Width = 2 * (s * p)
  BY <1>3
<1>5. s * p >= s
  <2> HIDE DEF s, p
  <2> QED
    BY <1>1, <1>4
<1>6. (w + 2) * s = w * s + 2 * s /\ w * s \in Nat /\ s * p \in Nat
  <2> HIDE DEF s, w, p
  <2> QED
    BY <1>1, <1>4
<1> HIDE DEF w, s, p
<1>7. numBuckets = w * s + 2 * s /\ numBuckets >= 2 * s /\ numBuckets \in Nat
  BY <1>1, <1>2, <1>6
<1>8. 2 ^ Width >= 2 * s
  BY <1>1, <1>4, <1>5, <1>6
<1> QED
  BY <1>1, <1>3, <1>7, <1>8 DEF s, w

LEMMA IndexInArray ==
    ASSUME NEW v \in 0..2 ^ Width - 1
    PROVE  bucketIndex(v) \in BucketSet
<1> DEFINE s == subCount
<1>0. v \in Nat /\ s \in Nat /\ s >= 1 /\ numBuckets \in Nat /\ numBuckets >= 2 * s
  BY SizeFacts
<1>1. CASE v < s
  <2>1. bucketIndex(v) = v
    BY <1>0, <1>1, LinearIndex
  <2> HIDE DEF s
  <2> QED
    BY <1>0, <1>1, <2>1 DEF BucketSet
<1>2. CASE ~(v < s)
  <2>1. PICK shift, q : In(v, shift, q)
    BY <1>0, <1>2, InSome
  <2>2. bucketIndex(v) = shift * s + q
    BY <2>1, InIndex
  <2> DEFINE w == Width - 1 - SubBits
  <2>3. shift \in Nat /\ w \in Nat /\ shift <= w /\ q \in Nat /\ q <= 2 * s - 1 /\ numBuckets = w * s + 2 * s
    BY <1>0, <2>1, SizeFacts DEF In
  <2> HIDE DEF w, s
  <2>4. shift * s <= w * s /\ shift * s \in Nat /\ w * s \in Nat
    BY <1>0, <2>3
  <2> QED
    BY <1>0, <2>2, <2>3, <2>4 DEF BucketSet
<1> QED
  BY <1>1, <1>2

(* The largest value is in the last bucket. *)
LEMMA LastUsed == bucketIndex(2 ^ Width - 1) = numBuckets - 1
<1> DEFINE w == Width - 1 - SubBits
           s == subCount
           p == 2 ^ w
           v == 2 ^ Width - 1
           q == 2 * s - 1
<1>1. /\ s \in Nat /\ s >= 1 /\ w \in Nat /\ w \in 0..w /\ numBuckets = w * s + 2 * s
      /\ 2 ^ Width \in Nat /\ 2 ^ Width >= 2 * s
  BY SizeFacts
<1>2. p \in Nat /\ p >= 1 /\ 2 ^ Width = 2 * (s * p)
  <2>1. SubBits + w + 1 = Width /\ w \in 0..Width - 1 - SubBits
    BY <1>1, HistogramAssumption
  <2> HIDE DEF w
  <2> QED
    BY <2>1, UnitFacts
<1>3. q \in s..2 * s - 1 /\ q \in Nat /\ v \in 0..2 ^ Width - 1 /\ v \in Nat
  <2> HIDE DEF s
  <2> QED
    BY <1>1
<1>4. q * p <= v /\ v < (q + 1) * p
  <2>1. q = 2 * s - 1 /\ v = 2 * (s * p) - 1
    BY <1>2
  <2> HIDE DEF s, p, v, q, w
  <2>2. q * p = 2 * (s * p) - p /\ (q + 1) * p = 2 * (s * p) /\ s * p \in Nat
    BY <1>1, <1>2, <2>1
  <2> QED
    BY <1>1, <1>2, <2>1, <2>2
<1>5. In(v, w, q)
  BY <1>1, <1>3, <1>4 DEF In
<1>6. bucketIndex(v) = w * s + q
  <2> HIDE DEF v, w, q
  <2> QED
    BY <1>3, <1>5, InIndex
<1>7. w * s + q = (w * s + 2 * s) - 1
  <2>1. q = 2 * s - 1
    OBVIOUS
  <2> HIDE DEF s, w, q
  <2>2. w * s \in Nat
    BY <1>1
  <2> QED
    BY <1>1, <2>1, <2>2
<1> QED
  BY <1>1, <1>6, <1>7

(* Neighbouring values are in the same bucket or in neighbouring ones. *)
LEMMA IndexSteps ==
    ASSUME NEW v \in 0..2 ^ Width - 1, v > 0
    PROVE  bucketIndex(v) - bucketIndex(v - 1) \in {0, 1}
<1> DEFINE s == subCount
           u == v - 1
<1>0. /\ v \in Nat /\ u \in Nat /\ u \in 0..2 ^ Width - 1 /\ v = u + 1 /\ s \in Nat /\ s >= 1
      /\ 2 ^ Width \in Nat /\ v < 2 ^ Width
  BY SizeFacts
<1>1. CASE v < s
  <2>1. u < s
    BY <1>0, <1>1
  <2>2. bucketIndex(v) = v /\ bucketIndex(u) = u
    BY <1>0, <1>1, <2>1, LinearIndex
  <2> QED
    BY <1>0, <2>2
<1>2. CASE v = s
  <2>1. bucketIndex(u) = u
    BY <1>0, <1>2, LinearIndex
  <2>2. 2 ^ 0 = 1 /\ 0 \in 0..Width - 1 - SubBits
    BY HistogramAssumption, PowerPositive
  <2>3. s \in s..2 * s - 1 /\ s * 1 <= v /\ v < (s + 1) * 1
    BY <1>0, <1>2
  <2>4. In(v, 0, s)
    BY <2>2, <2>3 DEF In
  <2>5. bucketIndex(v) = 0 * s + s
    BY <2>4, InIndex
  <2> QED
    BY <1>0, <1>2, <2>1, <2>5
<1>3. CASE v > s
  <2>1. PICK shift, q : In(u, shift, q)
    BY <1>0, <1>3, InSome
  <2> DEFINE p == 2 ^ shift
  <2>2. /\ shift \in 0..Width - 1 - SubBits /\ shift \in Nat /\ p \in Nat /\ p >= 1
        /\ q \in s..2 * s - 1 /\ q \in Nat /\ q * p <= u /\ u < (q + 1) * p
        /\ 2 ^ (SubBits + shift + 1) = 2 * (s * p) /\ SubBits \in Nat /\ Width \in Nat
    BY <1>0, <2>1, UnitFacts DEF In
  <2>3. bucketIndex(u) = shift * s + q /\ shift * s \in Nat
    BY <1>0, <2>1, <2>2, InIndex
  <2>4. CASE v < (q + 1) * p
    <3>1. q * p <= v
      <4> HIDE DEF p
      <4>1. q * p \in Nat
        BY <2>2
      <4> QED
        BY <1>0, <2>2, <4>1
    <3>2. In(v, shift, q)
      BY <2>2, <2>4, <3>1 DEF In
    <3>3. bucketIndex(v) = shift * s + q
      BY <3>2, InIndex
    <3> QED
      BY <2>2, <2>3, <3>3
  <2>5. CASE ~(v < (q + 1) * p) /\ q + 1 < 2 * s
    <3> HIDE DEF p, s, u
    <3>1. (q + 1) * p \in Nat /\ ((q + 1) + 1) * p = (q + 1) * p + p
      BY <2>2
    <3>2. v = (q + 1) * p
      BY <1>0, <2>2, <2>5, <3>1
    <3>3. (q + 1) * p <= v /\ v < ((q + 1) + 1) * p /\ q + 1 \in s..2 * s - 1
      BY <1>0, <2>2, <2>5, <3>1, <3>2
    <3>4. In(v, shift, q + 1)
      BY <2>2, <3>3 DEF In, p, s
    <3>5. bucketIndex(v) = shift * s + (q + 1)
      BY <3>4, InIndex DEF s
    <3> QED
      BY <2>2, <2>3, <3>5 DEF u
  <2>6. CASE ~(v < (q + 1) * p) /\ ~(q + 1 < 2 * s)
    <3>1. q + 1 = 2 * s
      <4> HIDE DEF s
      <4> QED
        BY <1>0, <2>2, <2>6
    <3>2. v = 2 * (s * p)
      <4> HIDE DEF s, p, u
      <4>1. (q + 1) * p = 2 * (s * p) /\ s * p \in Nat
        BY <1>0, <2>2, <3>1
      <4> QED
        BY <1>0, <2>2, <2>6, <4>1
    <3>3. SubBits + shift + 1 < Width
      <4>1. SubBits + shift + 1 \in Nat /\ ~(2 ^ Width <= 2 ^ (SubBits + shift + 1))
        BY <1>0, <2>2, <3>2
      <4>2. ~(Width <= SubBits + shift + 1)
        BY <2>2, <4>1, PowerGrows
      <4> QED
        BY <2>2, <4>1, <4>2
    <3>4. shift + 1 \in 0..Width - 1 - SubBits
      BY <2>2, <3>3
    <3>5. 2 ^ (shift + 1) = 2 * p
      BY <2>2, PowerDoubles
    <3>6. s \in s..2 * s - 1 /\ s * (2 * p) <= v /\ v < (s + 1) * (2 * p)
      <4> HIDE DEF s, p
      <4>1. s * (2 * p) = 2 * (s * p) /\ (s + 1) * (2 * p) = 2 * (s * p) + 2 * p /\ s * p \in Nat
        BY <1>0, <2>2
      <4> QED
        BY <1>0, <2>2, <3>2, <4>1
    <3>7. In(v, shift + 1, s)
      BY <3>4, <3>5, <3>6 DEF In
    <3>8. bucketIndex(v) = (shift + 1) * s + s
      BY <3>7, InIndex
    <3> HIDE DEF s, p, u
    <3>9. (shift + 1) * s + s = shift * s + 2 * s
      BY <1>0, <2>2
    <3> QED
      BY <1>0, <2>2, <2>3, <3>1, <3>8, <3>9 DEF u
  <2> QED
    BY <2>4, <2>5, <2>6
<1> QED
  BY <1>0, <1>1, <1>2, <1>3

(* What is reported for a bucket is close to every value in it. *)
LEMMA MidpointClose ==
    ASSUME NEW v \in 0..2 ^ Width - 1
    PROVE  LET mid == TwiceMidpoint(bucketIndex(v))
           IN  subCount * (mid - 2 * v) <= 2 * v /\ subCount * (2 * v - mid) <= 2 * v
<1> DEFINE s == subCount
           i == bucketIndex(v)
           mid == TwiceMidpoint(i)
<1>0. v \in Nat /\ s \in Nat /\ s >= 1
  BY SizeFacts
<1>1. CASE v < s
  <2>1. mid = 2 * v
    BY <1>0, <1>1, LinearIndex
  <2> QED
    BY <1>0, <2>1
<1>2. CASE ~(v < s)
  <2>1. PICK shift, q : In(v, shift, q)
    BY <1>0, <1>2, InSome
  <2> DEFINE p == 2 ^ shift
  <2>2. /\ shift \in Nat /\ p \in Nat /\ p >= 1
        /\ q \in Nat /\ s <= q /\ q <= 2 * s - 1 /\ q * p <= v /\ v < (q + 1) * p
    BY <1>0, <2>1, UnitFacts DEF In
  <2>3. i = shift * s + q
    BY <2>1, InIndex
  <2> HIDE DEF s, i, p
  <2>4. i \in Nat /\ i = (shift + 1) * s + (q - s) /\ ~(i < s)
    <3>1. shift * s \in Nat /\ (shift + 1) * s = shift * s + s
      BY <1>0, <2>2
    <3> QED
      BY <1>0, <2>2, <2>3, <3>1
  <2>5. i \div s = shift + 1
    <3>1. (shift + 1) * s <= i /\ i < ((shift + 1) + 1) * s
      <4>1. ((shift + 1) + 1) * s = (shift + 1) * s + s /\ (shift + 1) * s \in Nat
        BY <1>0, <2>2
      <4> QED
        BY <1>0, <2>2, <2>4, <4>1
    <3>2. shift + 1 \in Nat
      BY <2>2
    <3> QED
      BY <1>0, <2>4, <3>1, <3>2, DivIs
  <2>6. i % s = q - s
    <3>1. i = (i \div s) * s + (i % s)
      BY <1>0, <2>4
    <3>2. (shift + 1) * s \in Nat /\ i % s \in Int
      BY <1>0, <2>2, <2>4
    <3> QED
      BY <1>0, <2>2, <2>4, <2>5, <3>1, <3>2
  <2>7. (shift + 1) - 1 = shift /\ s + (q - s) = q
    BY <1>0, <2>2
  <2>8. mid = 2 * q * p + p
    BY <2>4, <2>5, <2>6, <2>7 DEF TwiceMidpoint, s, p
  <2> HIDE DEF mid
  <2> DEFINE x == q * p
  <2>9. x \in Nat /\ mid = 2 * x + p /\ x <= v /\ v < x + p /\ s * p <= x
    BY <1>0, <2>2, <2>8
  <2> HIDE DEF x
  <2>10. mid - 2 * v <= p /\ 2 * v - mid <= p /\ mid - 2 * v \in Int /\ 2 * v - mid \in Int /\ mid \in Int
    BY <1>0, <2>2, <2>9
  <2>11. ASSUME NEW d \in Int, d <= p PROVE s * d <= s * p /\ s * d \in Int /\ s * p \in Int
    BY <1>0, <2>2, <2>11
  <2>12. s * (mid - 2 * v) <= 2 * v
    <3>1. s * (mid - 2 * v) <= s * p /\ s * (mid - 2 * v) \in Int /\ s * p \in Int
      BY <2>10, <2>11
    <3> DEFINE y == s * (mid - 2 * v)
               z == s * p
    <3> HIDE DEF y, z
    <3>2. y <= z /\ y \in Int /\ z \in Int /\ z <= x
      BY <2>9, <3>1 DEF y, z
    <3> QED
      BY <1>0, <2>9, <3>2 DEF y
  <2>13. s * (2 * v - mid) <= 2 * v
    <3>1. s * (2 * v - mid) <= s * p /\ s * (2 * v - mid) \in Int /\ s * p \in Int
      BY <2>10, <2>11
    <3> DEFINE y == s * (2 * v - mid)
               z == s * p
    <3> HIDE DEF y, z
    <3>2. y <= z /\ y \in Int /\ z \in Int /\ z <= x
      BY <2>9, <3>1 DEF y, z
    <3> QED
      BY <1>0, <2>9, <3>2 DEF y
  <2> QED
    BY <2>12, <2>13 DEF s, mid, i
<1> QED
  BY <1>1, <1>2

(* BucketsSound, for every word size and every number of sub-buckets: the  *)
(* code's 64 bits and 16 sub-buckets among them (latency.go:9-16, 42-62).  *)
THEOREM HistogramBucketsSound == BucketsSound
<1>1. ASSUME NEW v \in 0..2 ^ Width - 1, v < subCount
      PROVE  TwiceMidpoint(bucketIndex(v)) = 2 * v
  <2>1. v \in Nat
    BY SizeFacts
  <2> QED
    BY <1>1, <2>1, LinearIndex
<1> QED
  BY <1>1, LastUsed, IndexInArray, IndexSteps, MidpointClose DEF BucketsSound

-----------------------------------------------------------------------------
(* What a goroutine has left to do is described by sets of operations      *)
(* ("marks"): whether one of them is left, at most one, or one of M only   *)
(* if one of N is left after it.                                           *)
Has(s, M) == \E i \in 1..Len(s) : s[i] \in M
Once(s, M) == \A i, j \in 1..Len(s) : s[i] \in M /\ s[j] \in M => i = j
Precedes(s, M, N) ==
    /\ \A i, j \in 1..Len(s) : s[i] \in M /\ s[j] \in N => i < j
    /\ Has(s, M) => Has(s, N)

UnitCounters == {"total", "hits", "misses", "backendReqs", "count"}
AddOps == {op \in [do : {"add"}, at : Counters, n : Nat] : op.at \in UnitCounters => op.n = 1}
FillOps == [do : {"bucket"}, at : BucketSet]
MaxOps == [do : {"max"}, n : Nat]
CasOps == {op \in [do : {"cas"}, n : Nat, cur : Nat] : op.cur < op.n}
ZeroOps == [do : {"zero"}, at : Counters]
EmptyOps == [do : {"empty"}, at : BucketSet]
LoadOps == [do : {"load"}, at : Counters]
RankOps == {Quantile(q) : q \in QuantileNames}
WalkOps == [do : {"walk"}, at : QuantileNames, target : Nat, i : BucketSet, seen : Nat]
InstallOps == [do : {"install"}, name : PolicyNames]

Adds(C) == {op \in AddOps : op.at \in C}
FillsOf(b) == {op \in FillOps : op.at = b}
Raises(n) == {op \in MaxOps \cup CasOps : op.n = n}
Totals == Adds({"total"})
Outcomes == Adds({"hits", "misses"})

(* The counters a request feeds, and those the other calls feed. *)
FedCounters == {"total", "hits", "misses", "bytesServed", "bytesFetched", "backendReqs", "count", "sum"}
OtherCounters == {"bytesFetched", "evictions", "evictedBytes", "switches", "switchOverhead",
                  "tuningAttempts", "tuningAccepted"}
OtherCalls == {"fetch", "eviction", "switch", "tuning", "setPolicy", "attempts"}

OpsOf(name) ==
    CASE name = "request"  -> Adds(FedCounters) \cup FillOps \cup MaxOps \cup CasOps
      [] name = "reset"    -> ZeroOps \cup EmptyOps
      [] name = "snapshot" -> LoadOps \cup {MeanMillis, CurrentPolicy} \cup RankOps \cup WalkOps
      [] name \in OtherCalls -> Adds(OtherCounters) \cup LoadOps \cup InstallOps
      [] OTHER -> {}

TypeInv ==
    /\ cnt \in [Counters -> Nat] /\ buckets \in [BucketSet -> Nat]
    /\ call \in [Goroutines -> {"idle", "request", "reset", "snapshot"} \cup OtherCalls]
    /\ todo = [t \in Goroutines |-> todo[t]]
    /\ \A t \in Goroutines : todo[t] \in Seq(OpsOf(call[t]))
    /\ view = [t \in Goroutines |-> view[t]]
    /\ \A t \in Goroutines : call[t] = "idle" => view[t] = << >>
    /\ reqs \in [Requests -> Nat] /\ finished \in Nat /\ dirty \in Nat
    /\ overlap \in [Goroutines -> {"none", "calls", "reset"}]
    /\ before \in [Goroutines -> Nat]

(* A request counts the total before its outcome and fills the bucket      *)
(* before it counts the observation; a snapshot loads the outcomes before  *)
(* the total, and walks one histogram at a time.                           *)
RequestShape(s) ==
    /\ \A c \in FedCounters : Once(s, Adds({c}))
    /\ Once(s, Outcomes) /\ Once(s, FillOps)
    /\ Precedes(s, Totals, Outcomes) /\ Precedes(s, FillOps, Adds({"count"}))

SnapshotShape(s) ==
    /\ \A c \in {"hits", "misses", "total"} : Once(s, {Load(c)})
    /\ Precedes(s, {Load("hits")}, {Load("misses")}) /\ Precedes(s, {Load("misses")}, {Load("total")})
    /\ s # << >> => ~Has(Tail(s), WalkOps)

ShapeInv ==
    \A t \in Goroutines : /\ call[t] = "request" => RequestShape(todo[t])
                          /\ call[t] = "snapshot" => SnapshotShape(todo[t])

(* What the history records: a call that runs beside a reset knows it, a   *)
(* call that runs alone is alone, and dirty counts every request that met  *)
(* a reset and more.                                                       *)
Late == {t \in Recording : overlap[t] = "reset"}
OnTime == Recording \ Late

HistoryInv ==
    /\ Resetting # {} => finished = 0 /\ \A t \in Active \ Resetting : overlap[t] = "reset"
    /\ \A t, u \in Active : overlap[t] = "none" => t = u
    /\ Cardinality(Late) <= dirty
    /\ Resetting # {} /\ dirty = 0 => reqs = [r \in Requests |-> 0]

(* The cell as it will be when the reset in K, if there is one, is over    *)
(* and nothing else has happened.                                          *)
Keepers == IF Resetting = {} THEN {{}} ELSE {{t} : t \in Resetting}
Kept(K, c) == IF \E t \in K : Has(todo[t], {Zero(c)}) THEN 0 ELSE cnt[c]
KeptBucket(K, b) == IF \E t \in K : Has(todo[t], {Empty(b)}) THEN 0 ELSE buckets[b]

(* Between the requests on time that have passed M and all that have. *)
Past(M) == {t \in OnTime : ~Has(todo[t], M)}
Behind(M) == {t \in Late : Has(todo[t], M)}
Done(M) == finished + Cardinality(Past(M))
Within(v, M) == Done(M) <= v /\ v + Cardinality(Behind(M)) <= Done(M) + dirty

DriftInv(K) == Within(Kept(K, "total"), Totals) /\ Within(Kept(K, "hits") + Kept(K, "misses"), Outcomes)

(* What the goroutines have still to add, and what the requests add up to. *)
Amount(op) == IF op.do = "add" THEN op.n ELSE 1
Found(s, M) == {op \in M : \E i \in 1..Len(s) : s[i] = op}
Left(s, M) == IF Found(s, M) # {} THEN Amount(Pick(Found(s, M))) ELSE 0
Mine(t, M) == IF call[t] = "request" THEN Left(todo[t], M) ELSE 0
Owed(M) == SumFunctionOnSet([t \in Goroutines |-> Mine(t, M)], Goroutines)

Weighed(n, S, w) == SumFunctionOnSet([r \in Requests |-> n[r] * w[r]], S)
Due(S, w) == Weighed(reqs, S, w)
Ones == [r \in Requests |-> 1]
SizeOf == [r \in Requests |-> r.size]
LatencyOf == [r \in Requests |-> r.latency]
HitSet == {r \in Requests : r.hit}
MissSet == Requests \ HitSet
InBucket(b) == {r \in Observed : bucketIndex(r.latency) = b}

Feeders(c) ==
    CASE c = "total" -> Requests
      [] c \in {"hits", "bytesServed"} -> HitSet
      [] c \in {"misses", "bytesFetched", "backendReqs"} -> MissSet
      [] OTHER -> Observed
Weight(c) ==
    CASE c \in {"bytesServed", "bytesFetched"} -> SizeOf
      [] c = "sum" -> LatencyOf
      [] OTHER -> Ones

LedgerInv(K) ==
    /\ \A c \in FedCounters \ {"bytesFetched"} : Kept(K, c) + Owed(Adds({c})) = Due(Feeders(c), Weight(c))
    /\ Kept(K, "bytesFetched") + Owed(Adds({"bytesFetched"})) >= Due(MissSet, SizeOf)
    /\ \A b \in BucketSet : KeptBucket(K, b) + Owed(FillsOf(b)) = Due(InBucket(b), Ones)

(* The maximum is an observation, and none is larger but those whose       *)
(* goroutine has still to raise it.                                        *)
MaxInv(K) ==
    LET seen == {r \in Observed : reqs[r] > 0}
    IN  /\ Kept(K, "max") \in {0} \cup {r.latency : r \in seen}
        /\ \A r \in seen : r.latency <= Kept(K, "max") \/ \E t \in Recording : Has(todo[t], Raises(r.latency))
        /\ \A t \in Recording, n \in Nat : Has(todo[t], Raises(n)) => \E r \in seen : r.latency = n

(* The buckets hold what is counted and what will be. *)
Filled == {t \in Recording : Has(todo[t], Adds({"count"})) /\ ~Has(todo[t], FillOps)}
FillInv(K) ==
    SumFunctionOnSet([b \in BucketSet |-> KeptBucket(K, b)], BucketSet) = Kept(K, "count") + Cardinality(Filled)

Book(K) == DriftInv(K) /\ (dirty = 0 => LedgerInv(K) /\ MaxInv(K) /\ FillInv(K))
BookInv == \E K \in Keepers : Book(K)

(* What a snapshot that no reset disturbs has loaded. *)
Undisturbed(t) == call[t] = "snapshot" /\ overlap[t] # "reset" /\ dirty = 0

LoadedInv(t) ==
    /\ Has(todo[t], {Load("hits")}) => before[t] <= finished
    /\ ~Has(todo[t], {Load("hits")}) =>
          /\ "hits" \in DOMAIN view[t] /\ view[t]["hits"] \in Nat /\ view[t]["hits"] <= cnt["hits"]
          /\ Has(todo[t], {Load("misses")}) => before[t] <= view[t]["hits"] + cnt["misses"]
    /\ ~Has(todo[t], {Load("misses")}) =>
          /\ "misses" \in DOMAIN view[t] /\ view[t]["misses"] \in Nat /\ view[t]["misses"] <= cnt["misses"]
          /\ before[t] <= view[t]["hits"] + view[t]["misses"]
    /\ ~Has(todo[t], {Load("total")}) =>
          "total" \in DOMAIN view[t] /\ view[t]["hits"] + view[t]["misses"] <= view[t]["total"]

(* A walk has passed no more than the rank it looks for, which is among    *)
(* the buckets before it.                                                  *)
WalkInv(t) ==
    /\ \A q \in QuantileNames \cap DOMAIN view[t] : view[t][q] \in BucketSet
    /\ \A op \in WalkOps : Has(todo[t], {op}) =>
          /\ op.seen <= op.target
          /\ op.target < op.seen + SumFunctionOnSet(buckets, op.i..numBuckets - 1)

SnapInv == \A t \in Goroutines : Undisturbed(t) => LoadedInv(t) /\ WalkInv(t)

(* The same for one that runs alone, exactly. *)
Under(i) == Due({r \in Observed : bucketIndex(r.latency) < i}, Ones)
RankInv(t) ==
    LET n == Due(Observed, Ones)
    IN  /\ \A q \in QuantileNames \cap DOMAIN view[t] :
              /\ n # 0
              /\ 100 * Under(view[t][q]) <= Percent(q) * n
              /\ 100 * Under(view[t][q] + 1) > Percent(q) * n
        /\ \A op \in WalkOps : Has(todo[t], {op}) =>
              /\ n # 0 /\ op.target = Target(Percent(op.at), n)
              /\ op.seen = Under(op.i)
        /\ \A q \in QuantileNames :
              \/ q \in DOMAIN view[t] \/ n = 0
              \/ Has(todo[t], {Quantile(q)})
              \/ \E op \in WalkOps : op.at = q /\ Has(todo[t], {op})

AloneInv == \A t \in Goroutines : Undisturbed(t) /\ overlap[t] = "none" => RankInv(t)

-----------------------------------------------------------------------------
(* How marks change when the first operation is done, replaced, or a       *)
(* program is put together.                                                *)
LEMMA TailMarks ==
    ASSUME NEW O, NEW s \in Seq(O), s # << >>, NEW M
    PROVE  /\ Head(s) \in O /\ Tail(s) \in Seq(O)
           /\ Has(s, M) <=> Head(s) \in M \/ Has(Tail(s), M)
           /\ Once(s, M) => Once(Tail(s), M) /\ (Head(s) \in M => ~Has(Tail(s), M))
<1> DEFINE u == Tail(s)
<1>1. /\ Len(s) \in Nat /\ Len(s) >= 1 /\ Head(s) = s[1] /\ Head(s) \in O
      /\ u \in Seq(O) /\ Len(u) = Len(s) - 1
      /\ \A i \in 1..Len(s) - 1 : u[i] = s[i + 1]
  BY HeadTailProperties, EmptySeq, LenProperties, ElementOfSeq
<1> HIDE DEF u
<1>2. \A i \in 1..Len(s) : i = 1 \/ (i - 1 \in 1..Len(u) /\ u[i - 1] = s[i])
  <2>1. ASSUME NEW i \in 1..Len(s), i # 1 PROVE i - 1 \in 1..Len(u) /\ u[i - 1] = s[i]
    <3>1. i - 1 \in 1..Len(s) - 1 /\ (i - 1) + 1 = i
      BY <1>1, <2>1
    <3> QED
      BY <1>1, <3>1
  <2> QED
    BY <2>1
<1>3. \A i \in 1..Len(u) : i + 1 \in 1..Len(s) /\ u[i] = s[i + 1] /\ 1 \in 1..Len(s)
  BY <1>1
<1>4. Has(s, M) <=> Head(s) \in M \/ Has(u, M)
  <2>1. ASSUME Has(s, M) PROVE Head(s) \in M \/ Has(u, M)
    BY <1>1, <1>2, <2>1 DEF Has
  <2>2. ASSUME Has(u, M) PROVE Has(s, M)
    BY <1>3, <2>2 DEF Has
  <2>3. ASSUME Head(s) \in M PROVE Has(s, M)
    BY <1>1, <2>3 DEF Has
  <2> QED
    BY <2>1, <2>2, <2>3
<1>5. ASSUME Once(s, M) PROVE Once(u, M) /\ (Head(s) \in M => ~Has(u, M))
  <2>1. ASSUME NEW i \in 1..Len(u), NEW j \in 1..Len(u), u[i] \in M, u[j] \in M PROVE i = j
    <3>1. i + 1 = j + 1
      BY <1>3, <1>5, <2>1 DEF Once
    <3> QED
      BY <1>1, <3>1
  <2>2. ASSUME Head(s) \in M, NEW i \in 1..Len(u), u[i] \in M PROVE FALSE
    <3>1. i + 1 = 1
      BY <1>1, <1>3, <1>5, <2>2 DEF Once
    <3> QED
      BY <1>1, <3>1
  <2> QED
    BY <2>1, <2>2 DEF Once, Has
<1> QED
  BY <1>1, <1>4, <1>5 DEF u

LEMMA TailPrecedes ==
    ASSUME NEW O, NEW s \in Seq(O), s # << >>, NEW M, NEW N, Precedes(s, M, N)
    PROVE  Precedes(Tail(s), M, N) /\ (Head(s) \in N => ~Has(s, M))
<1> DEFINE u == Tail(s)
<1>1. /\ Len(s) \in Nat /\ Len(s) >= 1 /\ Head(s) = s[1] /\ Len(u) = Len(s) - 1
      /\ \A i \in 1..Len(s) - 1 : u[i] = s[i + 1]
  BY HeadTailProperties, EmptySeq, LenProperties
<1>2. /\ Has(s, M) <=> Head(s) \in M \/ Has(u, M)
      /\ Has(s, N) <=> Head(s) \in N \/ Has(u, N)
  BY TailMarks
<1> HIDE DEF u
<1>3. \A i \in 1..Len(u) : i + 1 \in 1..Len(s) /\ u[i] = s[i + 1]
  BY <1>1
<1>4. ASSUME Head(s) \in N, Has(s, M) PROVE FALSE
  <2>1. PICK i \in 1..Len(s) : s[i] \in M
    BY <1>4 DEF Has
  <2>2. i < 1
    BY <1>1, <1>4, <2>1 DEF Precedes
  <2> QED
    BY <1>1, <2>1, <2>2
<1>5. ASSUME NEW i \in 1..Len(u), NEW j \in 1..Len(u), u[i] \in M, u[j] \in N PROVE i < j
  <2>1. i + 1 < j + 1
    BY <1>3, <1>5 DEF Precedes
  <2> QED
    BY <1>1, <2>1
<1>6. Has(u, M) => Has(u, N)
  BY <1>2, <1>4 DEF Precedes
<1> QED
  BY <1>4, <1>5, <1>6 DEF u, Precedes

LEMMA ConcatMarks ==
    ASSUME NEW O, NEW a \in Seq(O), NEW b \in Seq(O), NEW M, NEW N
    PROVE  /\ a \o b \in Seq(O)
           /\ Has(a \o b, M) <=> Has(a, M) \/ Has(b, M)
           /\ Once(a, M) /\ Once(b, M) /\ ~(Has(a, M) /\ Has(b, M)) => Once(a \o b, M)
           /\ Precedes(a, M, N) /\ Precedes(b, M, N) /\ ~(Has(a, N) /\ Has(b, M)) => Precedes(a \o b, M, N)
<1> DEFINE u == a \o b
<1>1. /\ u \in Seq(O) /\ Len(u) = Len(a) + Len(b) /\ Len(a) \in Nat /\ Len(b) \in Nat
      /\ \A i \in 1..Len(a) + Len(b) : u[i] = IF i <= Len(a) THEN a[i] ELSE b[i - Len(a)]
  BY ConcatProperties, LenProperties
<1> HIDE DEF u
<1>2. \A i \in 1..Len(u) : \/ i \in 1..Len(a) /\ u[i] = a[i]
                           \/ i > Len(a) /\ i - Len(a) \in 1..Len(b) /\ u[i] = b[i - Len(a)]
  BY <1>1
<1>3. ASSUME NEW i \in 1..Len(a) PROVE i \in 1..Len(u) /\ u[i] = a[i]
  BY <1>1
<1>4. ASSUME NEW i \in 1..Len(b) PROVE i + Len(a) \in 1..Len(u) /\ u[i + Len(a)] = b[i]
  <2>1. i + Len(a) \in 1..Len(a) + Len(b) /\ ~(i + Len(a) <= Len(a)) /\ (i + Len(a)) - Len(a) = i
    BY <1>1
  <2> QED
    BY <1>1, <2>1
<1>5. ASSUME NEW P PROVE Has(u, P) <=> Has(a, P) \/ Has(b, P)
  <2>1. ASSUME Has(u, P) PROVE Has(a, P) \/ Has(b, P)
    BY <1>2, <2>1 DEF Has
  <2>2. ASSUME Has(a, P) PROVE Has(u, P)
    BY <1>3, <2>2 DEF Has
  <2>3. ASSUME Has(b, P) PROVE Has(u, P)
    BY <1>4, <2>3 DEF Has
  <2> QED
    BY <2>1, <2>2, <2>3
<1>6. ASSUME Once(a, M), Once(b, M), ~(Has(a, M) /\ Has(b, M)) PROVE Once(u, M)
  <2> SUFFICES ASSUME NEW i \in 1..Len(u), NEW j \in 1..Len(u), u[i] \in M, u[j] \in M PROVE i = j
    BY DEF Once
  <2>1. CASE i \in 1..Len(a) /\ u[i] = a[i] /\ j \in 1..Len(a) /\ u[j] = a[j]
    BY <1>6, <2>1 DEF Once
  <2>2. CASE /\ i > Len(a) /\ i - Len(a) \in 1..Len(b) /\ u[i] = b[i - Len(a)]
             /\ j > Len(a) /\ j - Len(a) \in 1..Len(b) /\ u[j] = b[j - Len(a)]
    <3>1. i - Len(a) = j - Len(a)
      BY <1>6, <2>2 DEF Once
    <3> QED
      BY <1>1, <3>1
  <2>3. ~(/\ i \in 1..Len(a) /\ u[i] = a[i]
          /\ j > Len(a) /\ j - Len(a) \in 1..Len(b) /\ u[j] = b[j - Len(a)])
    BY <1>6 DEF Has
  <2>4. ~(/\ j \in 1..Len(a) /\ u[j] = a[j]
          /\ i > Len(a) /\ i - Len(a) \in 1..Len(b) /\ u[i] = b[i - Len(a)])
    BY <1>6 DEF Has
  <2> QED
    BY <1>2, <2>1, <2>2, <2>3, <2>4
<1>7. ASSUME Precedes(a, M, N), Precedes(b, M, N), ~(Has(a, N) /\ Has(b, M)) PROVE Precedes(u, M, N)
  <2>1. ASSUME NEW i \in 1..Len(u), NEW j \in 1..Len(u), u[i] \in M, u[j] \in N PROVE i < j
    <3>1. CASE i \in 1..Len(a) /\ u[i] = a[i] /\ j \in 1..Len(a) /\ u[j] = a[j]
      BY <1>7, <2>1, <3>1 DEF Precedes
    <3>2. CASE /\ i > Len(a) /\ i - Len(a) \in 1..Len(b) /\ u[i] = b[i - Len(a)]
               /\ j > Len(a) /\ j - Len(a) \in 1..Len(b) /\ u[j] = b[j - Len(a)]
      <4>1. i - Len(a) < j - Len(a)
        BY <1>7, <2>1, <3>2 DEF Precedes
      <4> QED
        BY <1>1, <4>1
    <3>3. CASE i \in 1..Len(a) /\ j > Len(a)
      BY <1>1, <3>3
    <3>4. ~(/\ j \in 1..Len(a) /\ u[j] = a[j]
            /\ i > Len(a) /\ i - Len(a) \in 1..Len(b) /\ u[i] = b[i - Len(a)])
      BY <1>7, <2>1 DEF Has
    <3> QED
      BY <1>2, <3>1, <3>2, <3>3, <3>4
  <2>2. Has(u, M) => Has(u, N)
    BY <1>5, <1>7 DEF Precedes
  <2> QED
    BY <2>1, <2>2 DEF Precedes
<1> QED
  BY <1>1, <1>5, <1>6, <1>7 DEF u

(* An operation without marks may take the place of another. *)
LEMMA ConsMarks ==
    ASSUME NEW O, NEW s \in Seq(O), NEW op \in O
    PROVE  /\ <<op>> \o s \in Seq(O) /\ <<op>> \o s # << >>
           /\ Head(<<op>> \o s) = op /\ Tail(<<op>> \o s) = s
           /\ \A M : Has(<<op>> \o s, M) <=> op \in M \/ Has(s, M)
           /\ \A M : Once(s, M) /\ (op \in M => ~Has(s, M)) => Once(<<op>> \o s, M)
           /\ \A M, N : op \notin M /\ op \notin N /\ Precedes(s, M, N) => Precedes(<<op>> \o s, M, N)
<1> DEFINE h == <<op>>
<1>1. h \in Seq(O) /\ Len(h) = 1 /\ h[1] = op
  OBVIOUS
<1>2. \A M : (Has(h, M) <=> op \in M) /\ Once(h, M)
  BY <1>1 DEF Has, Once
<1>3. \A M, N : op \notin M /\ op \notin N => Precedes(h, M, N)
  BY <1>1 DEF Has, Precedes
<1> HIDE DEF h
<1>4. /\ h \o s \in Seq(O)
      /\ \A M : Has(h \o s, M) <=> op \in M \/ Has(s, M)
      /\ \A M : Once(s, M) /\ (op \in M => ~Has(s, M)) => Once(h \o s, M)
  BY <1>1, <1>2, ConcatMarks
<1>5. \A M, N : op \notin M /\ op \notin N /\ Precedes(s, M, N) => Precedes(h \o s, M, N)
  BY <1>1, <1>2, <1>3, ConcatMarks
<1>6. h \o s # << >> /\ Head(h \o s) = op /\ Tail(h \o s) = s
  BY ConcatProperties, EmptySeq DEF h
<1> QED
  BY <1>4, <1>5, <1>6 DEF h

LEMMA LeftFacts ==
    ASSUME NEW O, NEW s \in Seq(O), NEW M \in SUBSET (AddOps \cup FillOps)
    PROVE  /\ Left(s, M) \in Nat
           /\ Has(s, M) <=> Found(s, M) # {}
           /\ ~Has(s, M) => Left(s, M) = 0
           /\ Once(s, M) => \A i \in 1..Len(s) : s[i] \in M => Left(s, M) = Amount(s[i])
<1> DEFINE op == Pick(Found(s, M))
<1>0. Has(s, M) <=> Found(s, M) # {}
  BY DEF Has, Found
<1>1. \A o \in M : Amount(o) \in Nat
  BY DEF Amount, AddOps, FillOps
<1>2. ASSUME Found(s, M) # {} PROVE op \in Found(s, M) /\ Left(s, M) = Amount(op)
  BY <1>2 DEF Left, Pick
<1> HIDE DEF op
<1>3. Left(s, M) \in Nat
  <2>1. CASE Found(s, M) # {}
    BY <1>1, <1>2, <2>1 DEF Found
  <2> QED
    BY <2>1 DEF Left
<1>4. ASSUME Once(s, M), NEW i \in 1..Len(s), s[i] \in M PROVE Left(s, M) = Amount(s[i])
  <2>1. s[i] \in Found(s, M)
    BY <1>4 DEF Found
  <2>2. op \in Found(s, M) /\ Left(s, M) = Amount(op)
    BY <1>2, <2>1
  <2>3. PICK j \in 1..Len(s) : s[j] = op
    BY <2>2 DEF Found
  <2>4. op \in M
    BY <2>2 DEF Found
  <2>5. j = i
    BY <1>4, <2>3, <2>4 DEF Once
  <2> QED
    BY <2>2, <2>3, <2>5
<1> QED
  BY <1>0, <1>3, <1>4 DEF Left

LEMMA LeftTail ==
    ASSUME NEW O, NEW s \in Seq(O), s # << >>, NEW M \in SUBSET (AddOps \cup FillOps)
    PROVE  /\ Once(s, M) /\ Head(s) \in M => Left(s, M) = Amount(Head(s)) /\ Left(Tail(s), M) = 0
           /\ Head(s) \notin M => Left(Tail(s), M) = Left(s, M)
<1>1. /\ Head(s) \in O /\ Tail(s) \in Seq(O)
      /\ Once(s, M) /\ Head(s) \in M => ~Has(Tail(s), M)
      /\ \A N : Has(s, N) <=> Head(s) \in N \/ Has(Tail(s), N)
  BY TailMarks
<1>2. Len(s) \in Nat /\ Len(s) >= 1 /\ Head(s) = s[1]
  BY HeadTailProperties, EmptySeq, LenProperties
<1>3. ASSUME Once(s, M), Head(s) \in M PROVE Left(s, M) = Amount(Head(s)) /\ Left(Tail(s), M) = 0
  <2>1. 1 \in 1..Len(s)
    BY <1>2
  <2>2. Left(s, M) = Amount(s[1])
    BY <1>2, <1>3, <2>1, LeftFacts
  <2>3. Left(Tail(s), M) = 0
    BY <1>1, <1>3, LeftFacts
  <2> QED
    BY <1>2, <2>2, <2>3
<1>4. ASSUME Head(s) \notin M PROVE Left(Tail(s), M) = Left(s, M)
  <2>1. \A op \in M : Has(s, {op}) <=> Has(Tail(s), {op})
    BY <1>1, <1>4
  <2>2. Found(Tail(s), M) = Found(s, M)
    BY <2>1 DEF Found, Has
  <2> QED
    BY <2>2 DEF Left
<1> QED
  BY <1>3, <1>4

LEMMA LeftCons ==
    ASSUME NEW O, NEW s \in Seq(O), NEW op \in O, NEW M \in SUBSET (AddOps \cup FillOps), op \notin M
    PROVE  Left(<<op>> \o s, M) = Left(s, M)
<1> DEFINE u == <<op>> \o s
<1>1. u \in Seq(O) /\ u # << >> /\ Head(u) = op /\ Tail(u) = s
  BY ConsMarks
<1> HIDE DEF u
<1>2. Left(Tail(u), M) = Left(u, M)
  BY <1>1, LeftTail
<1> QED
  BY <1>1, <1>2 DEF u

(* Sets of goroutines that differ in one of them. *)
LEMMA CardChange ==
    ASSUME NEW A \in SUBSET Goroutines, NEW B \in SUBSET Goroutines, NEW x, A \ {x} = B \ {x}
    PROVE  /\ Cardinality(A) \in Nat /\ Cardinality(B) \in Nat
           /\ (x \in A <=> x \in B) => Cardinality(B) = Cardinality(A)
           /\ x \in A /\ x \notin B => Cardinality(B) = Cardinality(A) - 1
           /\ x \notin A /\ x \in B => Cardinality(B) = Cardinality(A) + 1
<1>1. IsFiniteSet(A) /\ IsFiniteSet(B) /\ Cardinality(A) \in Nat /\ Cardinality(B) \in Nat
  BY CallsAssumption, FS_Subset, FS_CardinalityType
<1>2. ASSUME x \in A <=> x \in B PROVE A = B
  BY <1>2
<1>3. ASSUME x \in A, x \notin B PROVE Cardinality(B) = Cardinality(A) - 1
  <2>1. B = A \ {x}
    BY <1>3
  <2> QED
    BY <1>1, <1>3, <2>1, FS_RemoveElement
<1>4. ASSUME x \notin A, x \in B PROVE Cardinality(B) = Cardinality(A) + 1
  <2>1. A = B \ {x}
    BY <1>4
  <2>2. Cardinality(A) = Cardinality(B) - 1
    BY <1>1, <1>4, <2>1, FS_RemoveElement
  <2> QED
    BY <1>1, <2>2
<1> QED
  BY <1>1, <1>2, <1>3, <1>4

LEMMA MineType ==
    ASSUME TypeInv, NEW t \in Goroutines, NEW M \in SUBSET (AddOps \cup FillOps)
    PROVE  Mine(t, M) \in Nat
BY LeftFacts DEF TypeInv, Mine

(* A step of one goroutine changes what is owed by its own part. *)
LEMMA OwedChanges ==
    ASSUME TypeInv, TypeInv', NEW t \in Goroutines, NEW M \in SUBSET (AddOps \cup FillOps),
           \A u \in Goroutines \ {t} : call'[u] = call[u] /\ todo'[u] = todo[u]
    PROVE  Owed(M)' = Owed(M) + Mine(t, M)' - Mine(t, M) /\ Owed(M) \in Nat /\ Owed(M)' \in Nat
<1> DEFINE f == [u \in Goroutines |-> Mine(u, M)]
           g == [u \in Goroutines |-> Mine(u, M)']
<1>1. \A u \in Goroutines : Mine(u, M) \in Nat
  BY MineType
<1>2. \A u \in Goroutines : Mine(u, M)' \in Nat
  <2> SUFFICES ASSUME NEW u \in Goroutines PROVE Mine(u, M)' \in Nat
    OBVIOUS
  <2>1. (todo[u])' \in Seq(OpsOf((call[u])'))
    BY DEF TypeInv
  <2> QED
    BY <2>1, LeftFacts DEF Mine
<1>3. \A u \in Goroutines \ {t} : Mine(u, M)' = Mine(u, M)
  BY DEF Mine
<1>4. f \in [Goroutines -> Nat] /\ g \in [Goroutines -> Nat]
  BY <1>1, <1>2
<1>5. f \in [Goroutines -> Int] /\ g \in [Goroutines -> Int]
  BY <1>4
<1>6. \A u \in Goroutines : u # t => g[u] = f[u]
  BY <1>3
<1>7. g[t] = Mine(t, M)' /\ f[t] = Mine(t, M)
  OBVIOUS
<1> HIDE DEF f, g
<1>8. SumFunctionOnSet(g, Goroutines) = SumFunctionOnSet(f, Goroutines) + g[t] - f[t]
  BY <1>5, <1>6, CallsAssumption, SumChange
<1>9. SumFunctionOnSet(f, Goroutines) \in Nat /\ SumFunctionOnSet(g, Goroutines) \in Nat
  BY <1>4, CallsAssumption, SumNat
<1> QED
  BY <1>7, <1>8, <1>9 DEF Owed, f, g

LEMMA OwedNothing ==
    ASSUME Recording = {}, NEW M
    PROVE  Owed(M) = 0
<1>1. \A t \in Goroutines : [u \in Goroutines |-> Mine(u, M)][t] = 0
  BY DEF Recording, Mine
<1> QED
  BY <1>1, CallsAssumption, SumOfZeros DEF Owed

LEMMA DueType ==
    ASSUME reqs \in [Requests -> Nat], NEW S \in SUBSET Requests, NEW w \in [Requests -> Int]
    PROVE  Due(S, w) \in Int /\ (w \in [Requests -> Nat] => Due(S, w) \in Nat)
<1> DEFINE f == [r \in Requests |-> reqs[r] * w[r]]
<1>1. f \in [Requests -> Int] /\ IsFiniteSet(S)
  BY RequestsAssumption, FS_Subset
<1>2. w \in [Requests -> Nat] => f \in [Requests -> Nat]
  OBVIOUS
<1> HIDE DEF f
<1>3. SumFunctionOnSet(f, S) \in Int /\ (f \in [Requests -> Nat] => SumFunctionOnSet(f, S) \in Nat)
  BY <1>1, SumType, SumNat
<1> QED
  BY <1>2, <1>3 DEF Due, Weighed, f

(* One more request of a kind. *)
Share(r, S, w) == IF r \in S THEN w[r] ELSE 0

LEMMA WeightedBump ==
    ASSUME NEW n \in [Requests -> Nat], NEW m \in [Requests -> Nat], NEW r \in Requests, m[r] = n[r] + 1,
           \A q \in Requests : q # r => m[q] = n[q],
           NEW S \in SUBSET Requests, NEW w \in [Requests -> Int]
    PROVE  Weighed(m, S, w) = Weighed(n, S, w) + Share(r, S, w)
<1> DEFINE f == [q \in Requests |-> n[q] * w[q]]
           g == [q \in Requests |-> m[q] * w[q]]
<1>0. IsFiniteSet(S)
  BY RequestsAssumption, FS_Subset
<1>1. f \in [Requests -> Int] /\ g \in [Requests -> Int]
  OBVIOUS
<1>2. \A q \in Requests : q # r => g[q] = f[q]
  OBVIOUS
<1>3. g[r] = f[r] + w[r] /\ f[r] \in Int /\ w[r] \in Int
  <2>1. n[r] \in Int /\ w[r] \in Int /\ g[r] = m[r] * w[r] /\ f[r] = n[r] * w[r] /\ m[r] = n[r] + 1
    OBVIOUS
  <2>2. \A a, b \in Int : (a + 1) * b = a * b + b /\ a * b \in Int
    OBVIOUS
  <2>3. (n[r] + 1) * w[r] = n[r] * w[r] + w[r] /\ n[r] * w[r] \in Int
    BY <2>1, <2>2
  <2> HIDE DEF f, g
  <2> QED
    BY <2>1, <2>3
<1> HIDE DEF f, g
<1>4. CASE r \in S
  <2>1. SumFunctionOnSet(g, S) = SumFunctionOnSet(f, S) + g[r] - f[r]
    <3>1. \A q \in S : q # r => g[q] = f[q]
      BY <1>2
    <3> QED
      BY <1>0, <1>1, <1>4, <3>1, SumChange
  <2>2. SumFunctionOnSet(f, S) \in Int
    BY <1>0, <1>1, SumType
  <2>3. SumFunctionOnSet(g, S) = SumFunctionOnSet(f, S) + w[r]
    BY <1>3, <2>1, <2>2
  <2> QED
    BY <1>4, <2>3 DEF Weighed, Share, f, g
<1>5. CASE r \notin S
  <2>1. SumFunctionOnSet(g, S) = SumFunctionOnSet(f, S)
    <3>1. \A q \in S : g[q] = f[q]
      BY <1>2, <1>5
    <3> QED
      BY <1>0, <1>1, <3>1, SumSame
  <2>2. SumFunctionOnSet(f, S) \in Int
    BY <1>0, <1>1, SumType
  <2>3. SumFunctionOnSet(g, S) = SumFunctionOnSet(f, S) + 0
    BY <2>1, <2>2
  <2> QED
    BY <1>5, <2>3 DEF Weighed, Share, f, g
<1> QED
  BY <1>4, <1>5

LEMMA DueBump ==
    ASSUME reqs \in [Requests -> Nat], NEW r \in Requests, reqs' = [reqs EXCEPT ![r] = @ + 1],
           NEW S \in SUBSET Requests, NEW w \in [Requests -> Int]
    PROVE  Due(S, w)' = Due(S, w) + Share(r, S, w)
<1>2. Weighed(reqs', S, w) = Weighed(reqs, S, w) + Share(r, S, w)
  <2> DEFINE m == reqs'
             n == reqs
  <2>1. n \in [Requests -> Nat] /\ m \in [Requests -> Nat] /\ m[r] = n[r] + 1
    OBVIOUS
  <2>2. \A q \in Requests : q # r => m[q] = n[q]
    OBVIOUS
  <2> HIDE DEF m, n
  <2>3. Weighed(m, S, w) = Weighed(n, S, w) + Share(r, S, w)
    BY ONLY <2>1, <2>2, r \in Requests, S \in SUBSET Requests, w \in [Requests -> Int], WeightedBump
  <2> QED
    BY <2>3 DEF m, n
<1>3. Due(S, w)' = Weighed(reqs', S, w) /\ Due(S, w) = Weighed(reqs, S, w)
  BY DEF Due, Weighed
<1> QED
  BY <1>2, <1>3

LEMMA DueNothing ==
    ASSUME reqs = [r \in Requests |-> 0], NEW S \in SUBSET Requests, NEW w \in [Requests -> Int]
    PROVE  Due(S, w) = 0
<1>1. \A r \in S : [q \in Requests |-> reqs[q] * w[q]][r] = 0
  OBVIOUS
<1>2. IsFiniteSet(S)
  BY RequestsAssumption, FS_Subset
<1> QED
  BY <1>1, <1>2, SumOfZeros DEF Due, Weighed

-----------------------------------------------------------------------------
(* The programs of the calls. *)
LEMMA OpsAre ==
    /\ OpsOf("request") = Adds(FedCounters) \cup FillOps \cup MaxOps \cup CasOps
    /\ OpsOf("reset") = ZeroOps \cup EmptyOps
    /\ OpsOf("snapshot") = LoadOps \cup {MeanMillis, CurrentPolicy} \cup RankOps \cup WalkOps
    /\ \A name \in OtherCalls : OpsOf(name) = Adds(OtherCounters) \cup LoadOps \cup InstallOps
    /\ OpsOf("idle") = {}
BY DEF OpsOf, OtherCalls

LEMMA AddIs ==
    ASSUME NEW c \in Counters, NEW n \in Nat, c \in UnitCounters => n = 1
    PROVE  /\ Add(c, n) \in AddOps /\ Amount(Add(c, n)) = n
           /\ \A C : Add(c, n) \in Adds(C) <=> c \in C
           /\ Add(c, n) \notin FillOps /\ \A b : Add(c, n) \notin FillsOf(b)
           /\ \A m : Add(c, n) \notin Raises(m)
<1>1. Add(c, n) \in AddOps /\ Add(c, n).do = "add" /\ Add(c, n).at = c /\ Add(c, n).n = n
  BY DEF Add, AddOps
<1>2. Add(c, n) \notin FillOps /\ Add(c, n) \notin MaxOps \cup CasOps
  BY <1>1 DEF FillOps, MaxOps, CasOps
<1> QED
  BY <1>1, <1>2 DEF Adds, FillsOf, Raises, Amount

LEMMA FillIs ==
    ASSUME NEW b \in BucketSet
    PROVE  /\ Fill(b) \in FillOps /\ Amount(Fill(b)) = 1
           /\ \A e : Fill(b) \in FillsOf(e) <=> b = e
           /\ \A C : Fill(b) \notin Adds(C)
           /\ \A m : Fill(b) \notin Raises(m)
<1>1. Fill(b) \in FillOps /\ Fill(b).do = "bucket" /\ Fill(b).at = b
  BY DEF Fill, FillOps
<1>2. Fill(b) \notin AddOps /\ Fill(b) \notin MaxOps \cup CasOps
  BY <1>1 DEF AddOps, MaxOps, CasOps
<1> QED
  BY <1>1, <1>2 DEF Adds, FillsOf, Raises, Amount

LEMMA RaiseIs ==
    ASSUME NEW d \in Nat
    PROVE  /\ RaiseMax(d) \in MaxOps
           /\ \A m : RaiseMax(d) \in Raises(m) <=> d = m
           /\ \A C : RaiseMax(d) \notin Adds(C)
           /\ RaiseMax(d) \notin FillOps /\ \A b : RaiseMax(d) \notin FillsOf(b)
<1>1. RaiseMax(d) \in MaxOps /\ RaiseMax(d).do = "max" /\ RaiseMax(d).n = d
  BY DEF RaiseMax, MaxOps
<1>2. RaiseMax(d) \notin AddOps /\ RaiseMax(d) \notin FillOps
  BY <1>1 DEF AddOps, FillOps
<1> QED
  BY <1>1, <1>2 DEF Adds, FillsOf, Raises

LEMMA NoMarks ==
    ASSUME NEW O, NEW M, NEW N
    PROVE  << >> \in Seq(O) /\ ~Has(<< >>, M) /\ Once(<< >>, M) /\ Precedes(<< >>, M, N)
<1>1. << >> \in Seq(O) /\ Len(<< >>) = 0
  BY EmptySeq
<1> QED
  BY <1>1 DEF Has, Once, Precedes

LEMMA MarksOfThree ==
    ASSUME NEW s, Len(s) = 3, NEW M, NEW N
    PROVE  /\ Has(s, M) <=> s[1] \in M \/ s[2] \in M \/ s[3] \in M
           /\ Once(s, M) <=> ~(s[1] \in M /\ s[2] \in M) /\ ~(s[1] \in M /\ s[3] \in M) /\ ~(s[2] \in M /\ s[3] \in M)
           /\ s[1] \notin N /\ s[2] \notin M /\ s[3] \notin M /\ (s[1] \in M => s[2] \in N \/ s[3] \in N)
                 => Precedes(s, M, N)
<1>1. 1..Len(s) = {1, 2, 3}
  OBVIOUS
<1> QED
  BY <1>1 DEF Has, Once, Precedes

LEMMA MarksOfFour ==
    ASSUME NEW s, Len(s) = 4, NEW M, NEW N
    PROVE  /\ Has(s, M) <=> s[1] \in M \/ s[2] \in M \/ s[3] \in M \/ s[4] \in M
           /\ Once(s, M) <=> /\ ~(s[1] \in M /\ s[2] \in M) /\ ~(s[1] \in M /\ s[3] \in M)
                             /\ ~(s[2] \in M /\ s[3] \in M) /\ ~(s[1] \in M /\ s[4] \in M)
                             /\ ~(s[2] \in M /\ s[4] \in M) /\ ~(s[3] \in M /\ s[4] \in M)
           /\ s[1] \notin N /\ s[2] \notin M /\ s[3] \notin M /\ s[4] \notin M
                 /\ (s[1] \in M => s[2] \in N \/ s[3] \in N \/ s[4] \in N)
                 => Precedes(s, M, N)
<1>1. 1..Len(s) = {1, 2, 3, 4}
  OBVIOUS
<1>2. Has(s, M) <=> s[1] \in M \/ s[2] \in M \/ s[3] \in M \/ s[4] \in M
  BY <1>1 DEF Has
<1>3. Once(s, M) <=> /\ ~(s[1] \in M /\ s[2] \in M) /\ ~(s[1] \in M /\ s[3] \in M)
                     /\ ~(s[2] \in M /\ s[3] \in M) /\ ~(s[1] \in M /\ s[4] \in M)
                     /\ ~(s[2] \in M /\ s[4] \in M) /\ ~(s[3] \in M /\ s[4] \in M)
  BY <1>1 DEF Once
<1>4. ASSUME s[1] \notin N, s[2] \notin M, s[3] \notin M, s[4] \notin M,
             s[1] \in M => s[2] \in N \/ s[3] \in N \/ s[4] \in N
      PROVE  Precedes(s, M, N)
  BY <1>1, <1>4 DEF Has, Precedes
<1> QED
  BY <1>2, <1>3, <1>4

LEMMA LeftIs ==
    ASSUME NEW O, NEW s \in Seq(O), NEW M \in SUBSET (AddOps \cup FillOps), Once(s, M),
           NEW op \in M, Has(s, {op})
    PROVE  Left(s, M) = Amount(op)
<1>1. PICK i \in 1..Len(s) : s[i] = op
  BY DEF Has
<1> QED
  BY <1>1, LeftFacts

Early == {"total", "hits", "misses", "bytesServed", "bytesFetched", "backendReqs"}

(* What the two halves of RecordRequest do. *)
LEMMA CountsFacts ==
    ASSUME NEW r \in Requests
    PROVE  LET a == Counts(r)
           IN  /\ a \in Seq(OpsOf("request"))
               /\ \A c \in FedCounters : Once(a, Adds({c}))
               /\ Once(a, Outcomes) /\ Precedes(a, Totals, Outcomes) /\ Has(a, Totals) /\ Has(a, Outcomes)
               /\ ~Has(a, FillOps) /\ \A b : ~Has(a, FillsOf(b))
               /\ \A m : ~Has(a, Raises(m))
               /\ \A c \in FedCounters \ Early : ~Has(a, Adds({c}))
               /\ \A c \in Early : IF r \in Feeders(c) THEN Has(a, {Add(c, Weight(c)[r])})
                                   ELSE ~Has(a, Adds({c}))
<1> DEFINE a == Counts(r)
<1>0. r.size \in Nat /\ r.hit \in BOOLEAN
  BY RequestsAssumption
<1>1. FedCounters \subseteq Counters /\ Early \subseteq FedCounters
  BY DEF FedCounters, Counters, Early
<1>2. \A c \in FedCounters, n \in Nat : (c \in UnitCounters => n = 1) =>
         /\ Add(c, n) \in OpsOf("request")
         /\ \A C : Add(c, n) \in Adds(C) <=> c \in C
         /\ Add(c, n) \notin FillOps /\ \A b : Add(c, n) \notin FillsOf(b)
         /\ \A m : Add(c, n) \notin Raises(m)
  BY <1>1, AddIs, OpsAre
<1>3. CASE r.hit
  <2> DEFINE o1 == Add("total", 1)
             o2 == Add("hits", 1)
             o3 == Add("bytesServed", r.size)
  <2>1. a = <<o1, o2, o3>>
    BY <1>3 DEF Counts
  <2>2. /\ o1 \in OpsOf("request") /\ o2 \in OpsOf("request") /\ o3 \in OpsOf("request")
        /\ \A C : (o1 \in Adds(C) <=> "total" \in C) /\ (o2 \in Adds(C) <=> "hits" \in C)
                  /\ (o3 \in Adds(C) <=> "bytesServed" \in C)
        /\ o1 \notin FillOps /\ o2 \notin FillOps /\ o3 \notin FillOps
        /\ \A b : o1 \notin FillsOf(b) /\ o2 \notin FillsOf(b) /\ o3 \notin FillsOf(b)
        /\ \A m : o1 \notin Raises(m) /\ o2 \notin Raises(m) /\ o3 \notin Raises(m)
    BY <1>0, <1>2 DEF FedCounters, UnitCounters
  <2>3. /\ \A c \in Early : r \in Feeders(c) <=> c \in {"total", "hits", "bytesServed"}
        /\ Weight("total")[r] = 1 /\ Weight("hits")[r] = 1 /\ Weight("bytesServed")[r] = r.size
    BY <1>3 DEF Early, Feeders, HitSet, MissSet, Weight, Ones, SizeOf
  <2>4. /\ Add("total", Weight("total")[r]) = o1 /\ Add("hits", Weight("hits")[r]) = o2
        /\ Add("bytesServed", Weight("bytesServed")[r]) = o3
    BY <2>3
  <2> HIDE DEF o1, o2, o3, a
  <2>5. a \in Seq(OpsOf("request")) /\ Len(a) = 3 /\ a[1] = o1 /\ a[2] = o2 /\ a[3] = o3
    BY <2>1, <2>2
  <2>6. /\ \A M : Has(a, M) <=> o1 \in M \/ o2 \in M \/ o3 \in M
        /\ \A M : Once(a, M) <=> ~(o1 \in M /\ o2 \in M) /\ ~(o1 \in M /\ o3 \in M) /\ ~(o2 \in M /\ o3 \in M)
        /\ \A M, N : o1 \notin N /\ o2 \notin M /\ o3 \notin M /\ (o1 \in M => o2 \in N \/ o3 \in N)
                 => Precedes(a, M, N)
    BY <2>5, MarksOfThree
  <2>7. \A c \in FedCounters : Once(a, Adds({c}))
    BY <2>2, <2>6
  <2>8. Once(a, Outcomes) /\ Precedes(a, Totals, Outcomes) /\ Has(a, Totals) /\ Has(a, Outcomes)
    BY <2>2, <2>6 DEF Totals, Outcomes
  <2>9. \A c \in FedCounters \ Early : ~Has(a, Adds({c}))
    BY <2>2, <2>6 DEF Early
  <2>10. ASSUME NEW c \in Early PROVE IF r \in Feeders(c) THEN Has(a, {Add(c, Weight(c)[r])}) ELSE ~Has(a, Adds({c}))
    <3>1. CASE r \in Feeders(c)
      <4>1. Add(c, Weight(c)[r]) \in {o1, o2, o3}
        BY <2>3, <2>4, <3>1
      <4> QED
        BY <2>6, <3>1, <4>1
    <3>2. CASE r \notin Feeders(c)
      BY <2>2, <2>3, <2>6, <3>2
    <3> QED
      BY <3>1, <3>2
  <2> QED
    BY <2>2, <2>5, <2>6, <2>7, <2>8, <2>9, <2>10 DEF a
<1>4. CASE ~r.hit
  <2> DEFINE o1 == Add("total", 1)
             o2 == Add("misses", 1)
             o3 == Add("bytesFetched", r.size)
             o4 == Add("backendReqs", 1)
  <2>1. a = <<o1, o2, o3, o4>>
    BY <1>4 DEF Counts
  <2>2. /\ o1 \in OpsOf("request") /\ o2 \in OpsOf("request") /\ o3 \in OpsOf("request") /\ o4 \in OpsOf("request")
        /\ \A C : (o1 \in Adds(C) <=> "total" \in C) /\ (o2 \in Adds(C) <=> "misses" \in C)
                  /\ (o3 \in Adds(C) <=> "bytesFetched" \in C) /\ (o4 \in Adds(C) <=> "backendReqs" \in C)
        /\ o1 \notin FillOps /\ o2 \notin FillOps /\ o3 \notin FillOps /\ o4 \notin FillOps
        /\ \A b : o1 \notin FillsOf(b) /\ o2 \notin FillsOf(b) /\ o3 \notin FillsOf(b) /\ o4 \notin FillsOf(b)
        /\ \A m : o1 \notin Raises(m) /\ o2 \notin Raises(m) /\ o3 \notin Raises(m) /\ o4 \notin Raises(m)
    BY <1>0, <1>2 DEF FedCounters, UnitCounters
  <2>3. /\ \A c \in Early : r \in Feeders(c) <=> c \in {"total", "misses", "bytesFetched", "backendReqs"}
        /\ Weight("total")[r] = 1 /\ Weight("misses")[r] = 1 /\ Weight("bytesFetched")[r] = r.size
        /\ Weight("backendReqs")[r] = 1
    BY <1>4 DEF Early, Feeders, HitSet, MissSet, Weight, Ones, SizeOf
  <2>4. /\ Add("total", Weight("total")[r]) = o1 /\ Add("misses", Weight("misses")[r]) = o2
        /\ Add("bytesFetched", Weight("bytesFetched")[r]) = o3
        /\ Add("backendReqs", Weight("backendReqs")[r]) = o4
    BY <2>3
  <2> HIDE DEF o1, o2, o3, o4, a
  <2>5. a \in Seq(OpsOf("request")) /\ Len(a) = 4 /\ a[1] = o1 /\ a[2] = o2 /\ a[3] = o3 /\ a[4] = o4
    BY <2>1, <2>2
  <2>6. /\ \A M : Has(a, M) <=> o1 \in M \/ o2 \in M \/ o3 \in M \/ o4 \in M
        /\ \A M : Once(a, M) <=> /\ ~(o1 \in M /\ o2 \in M) /\ ~(o1 \in M /\ o3 \in M)
                                 /\ ~(o2 \in M /\ o3 \in M) /\ ~(o1 \in M /\ o4 \in M)
                                 /\ ~(o2 \in M /\ o4 \in M) /\ ~(o3 \in M /\ o4 \in M)
        /\ \A M, N : o1 \notin N /\ o2 \notin M /\ o3 \notin M /\ o4 \notin M
                 /\ (o1 \in M => o2 \in N \/ o3 \in N \/ o4 \in N)
                 => Precedes(a, M, N)
    BY <2>5, MarksOfFour
  <2>7. \A c \in FedCounters : Once(a, Adds({c}))
    BY <2>2, <2>6
  <2>8. Once(a, Outcomes) /\ Precedes(a, Totals, Outcomes) /\ Has(a, Totals) /\ Has(a, Outcomes)
    BY <2>2, <2>6 DEF Totals, Outcomes
  <2>9. \A c \in FedCounters \ Early : ~Has(a, Adds({c}))
    BY <2>2, <2>6 DEF Early
  <2>10. ASSUME NEW c \in Early PROVE IF r \in Feeders(c) THEN Has(a, {Add(c, Weight(c)[r])}) ELSE ~Has(a, Adds({c}))
    <3>1. CASE r \in Feeders(c)
      <4>1. Add(c, Weight(c)[r]) \in {o1, o2, o3, o4}
        BY <2>3, <2>4, <3>1
      <4> QED
        BY <2>6, <3>1, <4>1
    <3>2. CASE r \notin Feeders(c)
      BY <2>2, <2>3, <2>6, <3>2
    <3> QED
      BY <3>1, <3>2
  <2> QED
    BY <2>2, <2>5, <2>6, <2>7, <2>8, <2>9, <2>10 DEF a
<1> QED
  BY <1>0, <1>3, <1>4

LEMMA RecordFacts ==
    ASSUME NEW r \in Requests
    PROVE  LET b == Record(r.latency)
           IN  /\ b \in Seq(OpsOf("request"))
               /\ \A c \in FedCounters : Once(b, Adds({c}))
               /\ Once(b, FillOps) /\ Precedes(b, FillOps, Adds({"count"}))
               /\ ~Has(b, Outcomes) /\ \A c \in Early : ~Has(b, Adds({c}))
               /\ \A m : Has(b, Raises(m)) <=> r \in Observed /\ r.latency = m
               /\ \A c \in FedCounters \ Early : IF r \in Feeders(c) THEN Has(b, {Add(c, Weight(c)[r])})
                                                 ELSE ~Has(b, Adds({c}))
               /\ \A i \in BucketSet : IF r \in InBucket(i) THEN Has(b, {Fill(i)}) ELSE ~Has(b, FillsOf(i))
<1> DEFINE b == Record(r.latency)
           d == r.latency
<1>0. d \in Int /\ d < 2 ^ Width /\ 2 ^ Width \in Nat /\ (r \in Observed <=> d >= 0)
  BY RequestsAssumption, SizeFacts DEF Observed
<1>1. FedCounters \ Early = {"count", "sum"}
  BY DEF FedCounters, Early
<1>2. /\ \A c \in {"count", "sum"} : Feeders(c) = Observed
      /\ Weight("count")[r] = 1 /\ Weight("sum")[r] = d
  BY DEF Feeders, Weight, Ones, LatencyOf
<1>3. CASE d >= 0
  <2> DEFINE o1 == Fill(bucketIndex(d))
             o2 == Add("count", 1)
             o3 == Add("sum", d)
             o4 == RaiseMax(d)
  <2>1. b = <<o1, o2, o3, o4>>
    BY <1>0, <1>3 DEF Record
  <2>2. d \in Nat /\ bucketIndex(d) \in BucketSet
    BY <1>0, <1>3, IndexInArray
  <2>3. /\ o1 \in FillOps /\ \A C : o1 \notin Adds(C)
        /\ \A e : o1 \in FillsOf(e) <=> bucketIndex(d) = e
        /\ \A m : o1 \notin Raises(m)
    BY <2>2, FillIs
  <2>4. /\ o2 \in AddOps /\ o3 \in AddOps
        /\ \A C : (o2 \in Adds(C) <=> "count" \in C) /\ (o3 \in Adds(C) <=> "sum" \in C)
        /\ o2 \notin FillOps /\ o3 \notin FillOps
        /\ \A e : o2 \notin FillsOf(e) /\ o3 \notin FillsOf(e)
        /\ \A m : o2 \notin Raises(m) /\ o3 \notin Raises(m)
    <3>1. /\ "count" \in Counters /\ "sum" \in Counters /\ "sum" \notin UnitCounters
      BY DEF Counters, UnitCounters
    <3> QED
      BY <2>2, <3>1, AddIs
  <2>5. /\ o4 \in MaxOps /\ \A m : o4 \in Raises(m) <=> d = m
        /\ \A C : o4 \notin Adds(C)
        /\ o4 \notin FillOps /\ \A e : o4 \notin FillsOf(e)
    BY <2>2, RaiseIs
  <2>6. Add("count", Weight("count")[r]) = o2 /\ Add("sum", Weight("sum")[r]) = o3
    BY <1>2
  <2>7. \A i \in BucketSet : r \in InBucket(i) <=> bucketIndex(d) = i
    BY <1>0, <1>3 DEF InBucket, Observed
  <2>8. Fill(bucketIndex(d)) = o1
    OBVIOUS
  <2> HIDE DEF o1, o2, o3, o4, b, d
  <2>9. o1 \in OpsOf("request") /\ o2 \in OpsOf("request") /\ o3 \in OpsOf("request") /\ o4 \in OpsOf("request")
    BY <2>3, <2>4, <2>5, OpsAre DEF FedCounters
  <2>10. b \in Seq(OpsOf("request")) /\ Len(b) = 4 /\ b[1] = o1 /\ b[2] = o2 /\ b[3] = o3 /\ b[4] = o4
    BY <2>1, <2>9
  <2>11. /\ \A M : Has(b, M) <=> o1 \in M \/ o2 \in M \/ o3 \in M \/ o4 \in M
         /\ \A M : Once(b, M) <=> /\ ~(o1 \in M /\ o2 \in M) /\ ~(o1 \in M /\ o3 \in M)
                                  /\ ~(o2 \in M /\ o3 \in M) /\ ~(o1 \in M /\ o4 \in M)
                                  /\ ~(o2 \in M /\ o4 \in M) /\ ~(o3 \in M /\ o4 \in M)
         /\ \A M, N : o1 \notin N /\ o2 \notin M /\ o3 \notin M /\ o4 \notin M
                 /\ (o1 \in M => o2 \in N \/ o3 \in N \/ o4 \in N)
                 => Precedes(b, M, N)
    BY <2>10, MarksOfFour
  <2>12. \A c \in FedCounters : Once(b, Adds({c}))
    BY <2>3, <2>4, <2>5, <2>11
  <2>13. Once(b, FillOps) /\ Precedes(b, FillOps, Adds({"count"}))
    BY <2>3, <2>4, <2>5, <2>11
  <2>14. ~Has(b, Outcomes) /\ \A c \in Early : ~Has(b, Adds({c}))
    BY <2>3, <2>4, <2>5, <2>11 DEF Outcomes, Early
  <2>15. \A m : Has(b, Raises(m)) <=> d = m
    BY <2>3, <2>4, <2>5, <2>11
  <2>16. Has(b, {o2}) /\ Has(b, {o3})
    BY <2>11
  <2>17. \A i \in BucketSet : IF r \in InBucket(i) THEN Has(b, {Fill(i)}) ELSE ~Has(b, FillsOf(i))
    BY <2>3, <2>4, <2>5, <2>7, <2>8, <2>11
  <2>18. \A c \in FedCounters \ Early : r \in Feeders(c) /\ Has(b, {Add(c, Weight(c)[r])})
    BY <1>0, <1>1, <1>2, <1>3, <2>6, <2>16
  <2> QED
    BY <1>0, <1>3, <2>10, <2>12, <2>13, <2>14, <2>15, <2>17, <2>18 DEF b, d
<1>4. CASE ~(d >= 0)
  <2>1. b = << >>
    BY <1>0, <1>4 DEF Record
  <2>2. \A i \in BucketSet : r \notin InBucket(i)
    BY <1>0, <1>4 DEF InBucket
  <2>3. \A c \in FedCounters \ Early : r \notin Feeders(c)
    BY <1>0, <1>1, <1>2, <1>4
  <2> HIDE DEF b
  <2>4. b \in Seq(OpsOf("request")) /\ \A M : ~Has(b, M) /\ Once(b, M) /\ \A N : Precedes(b, M, N)
    BY <2>1, NoMarks
  <2> QED
    BY <1>0, <1>4, <2>2, <2>3, <2>4 DEF b
<1> QED
  BY <1>3, <1>4

LEMMA MarkSets ==
    /\ \A c \in Counters : Adds({c}) \in SUBSET (AddOps \cup FillOps)
    /\ \A b \in BucketSet : FillsOf(b) \in SUBSET (AddOps \cup FillOps) /\ FillsOf(b) \subseteq FillOps
    /\ FedCounters \subseteq Counters /\ Early \subseteq FedCounters
    /\ Totals = Adds({"total"}) /\ Outcomes = Adds({"hits"}) \cup Adds({"misses"})
    /\ {"total", "hits", "misses", "count"} \subseteq FedCounters
BY DEF Adds, FillsOf, FedCounters, Early, Counters, Totals, Outcomes

LEMMA OnceSmaller ==
    ASSUME NEW s, NEW M, NEW N, N \subseteq M, Once(s, M)
    PROVE  Once(s, N)
BY DEF Once

(* RecordRequest does for each counter and each bucket what the request is *)
(* due, once and in the order of the shape.                                *)
LEMMA RequestProgram ==
    ASSUME NEW r \in Requests
    PROVE  LET p == RecordRequest(r)
           IN  /\ p \in Seq(OpsOf("request")) /\ RequestShape(p)
               /\ Has(p, Totals) /\ Has(p, Outcomes)
               /\ \A c \in FedCounters : Left(p, Adds({c})) = Share(r, Feeders(c), Weight(c))
               /\ \A i \in BucketSet : Left(p, FillsOf(i)) = Share(r, InBucket(i), Ones)
               /\ \A m : Has(p, Raises(m)) <=> r \in Observed /\ r.latency = m
               /\ Has(p, Adds({"count"})) => Has(p, FillOps)
<1> DEFINE a == Counts(r)
           b == Record(r.latency)
           p == RecordRequest(r)
           O == OpsOf("request")
<1>1. p = a \o b
  BY DEF RecordRequest
<1>2. /\ a \in Seq(O)
      /\ \A c \in FedCounters : Once(a, Adds({c}))
      /\ Once(a, Outcomes) /\ Precedes(a, Totals, Outcomes) /\ Has(a, Totals) /\ Has(a, Outcomes)
      /\ ~Has(a, FillOps) /\ \A i : ~Has(a, FillsOf(i))
      /\ \A m : ~Has(a, Raises(m))
      /\ \A c \in FedCounters \ Early : ~Has(a, Adds({c}))
      /\ \A c \in Early : IF r \in Feeders(c) THEN Has(a, {Add(c, Weight(c)[r])}) ELSE ~Has(a, Adds({c}))
  BY CountsFacts
<1>3. /\ b \in Seq(O)
      /\ \A c \in FedCounters : Once(b, Adds({c}))
      /\ Once(b, FillOps) /\ Precedes(b, FillOps, Adds({"count"}))
      /\ ~Has(b, Outcomes) /\ \A c \in Early : ~Has(b, Adds({c}))
      /\ \A m : Has(b, Raises(m)) <=> r \in Observed /\ r.latency = m
      /\ \A c \in FedCounters \ Early : IF r \in Feeders(c) THEN Has(b, {Add(c, Weight(c)[r])})
                                        ELSE ~Has(b, Adds({c}))
      /\ \A i \in BucketSet : IF r \in InBucket(i) THEN Has(b, {Fill(i)}) ELSE ~Has(b, FillsOf(i))
  BY RecordFacts
<1> HIDE DEF a, b, p, O
<1>4. /\ p \in Seq(O)
      /\ \A M : Has(p, M) <=> Has(a, M) \/ Has(b, M)
      /\ \A M : Once(a, M) /\ Once(b, M) /\ ~(Has(a, M) /\ Has(b, M)) => Once(p, M)
      /\ \A M, N : Precedes(a, M, N) /\ Precedes(b, M, N) /\ ~(Has(a, N) /\ Has(b, M)) => Precedes(p, M, N)
  BY <1>1, <1>2, <1>3, ConcatMarks
<1>5. \A c \in FedCounters : Once(p, Adds({c}))
  BY <1>2, <1>3, <1>4
<1>6. /\ \A M : ~Has(a, M) => Once(a, M) /\ \A N : Precedes(a, M, N)
      /\ \A M : ~Has(b, M) => Once(b, M) /\ \A N : Precedes(b, M, N)
  BY DEF Has, Once, Precedes
<1>7. Once(p, Outcomes) /\ Once(p, FillOps)
  BY <1>2, <1>3, <1>4, <1>6
<1>8. "total" \in Early /\ "count" \in FedCounters \ Early /\ Totals = Adds({"total"})
  BY DEF Early, FedCounters, Totals
<1>9. Precedes(p, Totals, Outcomes) /\ Precedes(p, FillOps, Adds({"count"}))
  BY <1>2, <1>3, <1>4, <1>6, <1>8
<1>10. RequestShape(p)
  BY <1>5, <1>7, <1>9 DEF RequestShape
<1>11. ASSUME NEW c \in FedCounters PROVE Left(p, Adds({c})) = Share(r, Feeders(c), Weight(c))
  <2>1. c \in Counters /\ Adds({c}) \in SUBSET (AddOps \cup FillOps)
    BY MarkSets
  <2>2. CASE r \in Feeders(c)
    <3>1. Has(p, {Add(c, Weight(c)[r])})
      BY <1>2, <1>3, <1>4, <2>2
    <3>2. Weight(c)[r] \in Nat /\ (c \in UnitCounters => Weight(c)[r] = 1)
      <4>1. c = "sum" => r.latency \in Nat
        BY <2>2, RequestsAssumption DEF Feeders, Observed
      <4>2. r.size \in Nat
        BY RequestsAssumption
      <4> QED
        BY <4>1, <4>2 DEF Weight, Ones, SizeOf, LatencyOf, UnitCounters
    <3>3. Add(c, Weight(c)[r]) \in Adds({c}) /\ Amount(Add(c, Weight(c)[r])) = Weight(c)[r]
      BY <2>1, <3>2, AddIs
    <3>4. Left(p, Adds({c})) = Amount(Add(c, Weight(c)[r]))
      BY ZenonT(30), <1>4, <1>5, <2>1, <3>1, <3>3, LeftIs
    <3> QED
      BY <2>2, <3>3, <3>4 DEF Share
  <2>3. CASE r \notin Feeders(c)
    <3>1. ~Has(p, Adds({c}))
      BY <1>2, <1>3, <1>4, <2>3
    <3> QED
      BY <1>4, <2>1, <2>3, <3>1, LeftFacts DEF Share
  <2> QED
    BY <2>2, <2>3
<1>12. ASSUME NEW i \in BucketSet PROVE Left(p, FillsOf(i)) = Share(r, InBucket(i), Ones)
  <2>1. FillsOf(i) \in SUBSET (AddOps \cup FillOps) /\ Once(p, FillsOf(i))
    BY <1>7, MarkSets, OnceSmaller
  <2>2. CASE r \in InBucket(i)
    <3>1. Has(p, {Fill(i)}) /\ Fill(i) \in FillsOf(i) /\ Amount(Fill(i)) = 1
      BY <1>3, <1>4, <2>2, FillIs
    <3>2. Left(p, FillsOf(i)) = Amount(Fill(i))
      BY <1>4, <2>1, <3>1, LeftIs
    <3> QED
      BY <2>2, <3>1, <3>2 DEF Share, Ones
  <2>3. CASE r \notin InBucket(i)
    <3>1. ~Has(p, FillsOf(i))
      BY <1>2, <1>3, <1>4, <2>3
    <3> QED
      BY <1>4, <2>1, <2>3, <3>1, LeftFacts DEF Share
  <2> QED
    BY <2>2, <2>3
<1>13. Has(p, Totals) /\ Has(p, Outcomes) /\ \A m : Has(p, Raises(m)) <=> r \in Observed /\ r.latency = m
  BY <1>2, <1>3, <1>4
<1>14. Has(p, Adds({"count"})) => Has(p, FillOps)
  <2>1. ASSUME Has(b, Adds({"count"})) PROVE Has(b, FillOps)
    <3>1. r \in Observed
      BY <1>3, <1>8, <2>1 DEF Feeders
    <3>2. bucketIndex(r.latency) \in BucketSet
      BY <3>1, RequestsAssumption, SizeFacts, IndexInArray DEF Observed
    <3>3. r \in InBucket(bucketIndex(r.latency))
      BY <3>1 DEF InBucket
    <3>4. Has(b, {Fill(bucketIndex(r.latency))}) /\ Fill(bucketIndex(r.latency)) \in FillOps
      BY <1>3, <3>2, <3>3, FillIs
    <3> QED
      BY <3>4 DEF Has
  <2> QED
    BY <1>2, <1>4, <1>8, <2>1
<1> QED
  BY <1>4, <1>10, <1>11, <1>12, <1>13, <1>14 DEF p, O

LEMMA SnapshotProgram ==
    /\ Snapshot \in Seq(OpsOf("snapshot")) /\ Snapshot # << >> /\ SnapshotShape(Snapshot)
    /\ Has(Snapshot, {Load("hits")}) /\ Has(Snapshot, {Load("misses")}) /\ Has(Snapshot, {Load("total")})
    /\ ~Has(Snapshot, WalkOps)
    /\ \A q \in QuantileNames : Has(Snapshot, {Quantile(q)})
<1> DEFINE s == Snapshot
<1>1. /\ \A c \in Counters : Load(c) \in LoadOps /\ Load(c) \notin WalkOps
      /\ \A q \in QuantileNames : Quantile(q) \in RankOps /\ Quantile(q) \notin WalkOps
      /\ MeanMillis \notin WalkOps /\ CurrentPolicy \notin WalkOps
  BY DEF Load, LoadOps, WalkOps, Quantile, RankOps, MeanMillis, CurrentPolicy
<1>2. /\ \A q \in QuantileNames, c \in Counters : Quantile(q) # Load(c)
      /\ \A c \in Counters : MeanMillis # Load(c) /\ CurrentPolicy # Load(c)
      /\ \A c, e \in Counters : Load(c) = Load(e) => c = e
  BY DEF Load, Quantile, MeanMillis, CurrentPolicy
<1>3. /\ Len(s) = 14 /\ DOMAIN s = 1..14
      /\ s[1] = Load("hits") /\ s[2] = Load("misses") /\ s[3] = Load("bytesServed")
      /\ s[4] = Load("bytesFetched") /\ s[5] = Load("total") /\ s[6] = MeanMillis
      /\ s[7] = Quantile("p50") /\ s[8] = Quantile("p95") /\ s[9] = Quantile("p99")
      /\ s[10] = Load("switches") /\ s[11] = Load("switchOverhead") /\ s[12] = Load("evictions")
      /\ s[13] = Load("backendReqs") /\ s[14] = CurrentPolicy
  BY DEF Snapshot
<1>4. {"hits", "misses", "bytesServed", "bytesFetched", "total", "switches", "switchOverhead",
       "evictions", "backendReqs"} \subseteq Counters
  BY DEF Counters
<1>5. QuantileNames = {"p50", "p95", "p99"}
  BY DEF QuantileNames
<1>6. s \in Seq(OpsOf("snapshot"))
  BY <1>1, <1>4, <1>5, OpsAre DEF Snapshot
<1> HIDE DEF s
<1>7. \A i \in 1..14 : i \in {1, 2, 3, 4, 5, 6, 7, 8, 9, 10, 11, 12, 13, 14}
  OBVIOUS
<1>8. ASSUME NEW i \in 1..Len(s)
      PROVE  /\ s[i] \notin WalkOps
             /\ s[i] = Load("hits") => i = 1
             /\ s[i] = Load("misses") => i = 2
             /\ s[i] = Load("total") => i = 5
  <2>1. i \in {1, 2, 3, 4, 5, 6, 7, 8, 9, 10, 11, 12, 13, 14}
    BY <1>3, <1>7
  <2> QED
    BY <1>1, <1>2, <1>3, <1>4, <1>5, <2>1
<1>9. s # << >> /\ Len(s) \in Nat /\ 1 \in 1..Len(s) /\ 2 \in 1..Len(s) /\ 5 \in 1..Len(s)
      /\ 7 \in 1..Len(s) /\ 8 \in 1..Len(s) /\ 9 \in 1..Len(s)
  BY <1>3
<1>10. /\ Has(s, {Load("hits")}) /\ Has(s, {Load("misses")}) /\ Has(s, {Load("total")})
       /\ ~Has(s, WalkOps) /\ \A q \in QuantileNames : Has(s, {Quantile(q)})
  BY <1>3, <1>5, <1>8, <1>9 DEF Has
<1>11. \A c \in {"hits", "misses", "total"} : Once(s, {Load(c)})
  BY <1>8 DEF Once
<1>12. Precedes(s, {Load("hits")}, {Load("misses")}) /\ Precedes(s, {Load("misses")}, {Load("total")})
  BY <1>8, <1>10 DEF Precedes
<1>13. ~Has(Tail(s), WalkOps)
  BY <1>6, <1>9, <1>10, TailMarks
<1> QED
  BY <1>6, <1>9, <1>10, <1>11, <1>12, <1>13 DEF s, SnapshotShape

LEMMA ResetProgram ==
    /\ Reset \in Seq(OpsOf("reset"))
    /\ \A c \in Counters : Has(Reset, {Zero(c)})
    /\ \A b \in BucketSet : Has(Reset, {Empty(b)})
<1> DEFINE O == OpsOf("reset")
           x == ResetCounters
           y == [i \in 1..numBuckets |-> Empty(i - 1)]
           z == <<Zero("count"), Zero("sum"), Zero("max")>>
<1>1. /\ \A c \in Counters : Zero(c) \in O
      /\ \A b \in BucketSet : Empty(b) \in O
  BY OpsAre DEF Zero, Empty, ZeroOps, EmptyOps
<1>2. numBuckets \in Nat /\ \A i \in 1..numBuckets : i - 1 \in BucketSet
  BY SizeFacts DEF BucketSet
<1>3. y \in Seq(O) /\ Len(y) = numBuckets /\ \A i \in 1..numBuckets : y[i] = Empty(i - 1)
  <2>1. y \in [1..numBuckets -> O] /\ \A i \in 1..numBuckets : y[i] = Empty(i - 1)
    BY <1>1, <1>2
  <2> HIDE DEF y
  <2> QED
    BY <1>2, <2>1, FunctionIsSeq
<1>4. z \in Seq(O) /\ Len(z) = 3 /\ z[1] = Zero("count") /\ z[2] = Zero("sum") /\ z[3] = Zero("max")
  BY <1>1 DEF Counters
<1>5. /\ x \in Seq(O) /\ Len(x) = 12
      /\ x[1] = Zero("total") /\ x[2] = Zero("hits") /\ x[3] = Zero("misses") /\ x[4] = Zero("bytesServed")
      /\ x[5] = Zero("bytesFetched") /\ x[6] = Zero("evictions") /\ x[7] = Zero("evictedBytes")
      /\ x[8] = Zero("backendReqs") /\ x[9] = Zero("switches") /\ x[10] = Zero("switchOverhead")
      /\ x[11] = Zero("tuningAttempts") /\ x[12] = Zero("tuningAccepted")
  BY <1>1 DEF Counters, ResetCounters
<1>6. Reset = x \o (y \o z)
  BY DEF Reset, ResetLatency
<1> HIDE DEF x, y, z, O
<1>7. /\ x \o (y \o z) \in Seq(O)
      /\ \A M : Has(x \o (y \o z), M) <=> Has(x, M) \/ Has(y, M) \/ Has(z, M)
  <2>1. y \o z \in Seq(O) /\ \A M : Has(y \o z, M) <=> Has(y, M) \/ Has(z, M)
    BY <1>3, <1>4, ConcatMarks
  <2> QED
    BY ZenonT(30), <1>5, <2>1, ConcatMarks
<1>8. ASSUME NEW c \in Counters PROVE Has(x, {Zero(c)}) \/ Has(z, {Zero(c)})
  <2>1. CASE c \in {"count", "sum", "max"}
    <3>1. 1 \in 1..Len(z) /\ 2 \in 1..Len(z) /\ 3 \in 1..Len(z)
      BY <1>4
    <3> QED
      BY <1>4, <2>1, <3>1 DEF Has
  <2>2. CASE c \notin {"count", "sum", "max"}
    <3>1. \E i \in 1..12 : x[i] = Zero(c)
      <4>1. /\ 1 \in 1..12 /\ 2 \in 1..12 /\ 3 \in 1..12 /\ 4 \in 1..12 /\ 5 \in 1..12 /\ 6 \in 1..12
            /\ 7 \in 1..12 /\ 8 \in 1..12 /\ 9 \in 1..12 /\ 10 \in 1..12 /\ 11 \in 1..12 /\ 12 \in 1..12
        OBVIOUS
      <4>2. c \in {"total", "hits", "misses", "bytesServed", "bytesFetched", "evictions", "evictedBytes",
                   "backendReqs", "switches", "switchOverhead", "tuningAttempts", "tuningAccepted"}
        BY <2>2 DEF Counters
      <4> QED
        BY <1>5, <4>1, <4>2
    <3> QED
      BY <1>5, <3>1 DEF Has
  <2> QED
    BY <2>1, <2>2
<1>9. ASSUME NEW b \in BucketSet PROVE Has(y, {Empty(b)})
  <2>1. b + 1 \in 1..numBuckets /\ (b + 1) - 1 = b
    BY <1>2 DEF BucketSet
  <2>2. y[b + 1] = Empty(b)
    BY <1>3, <2>1
  <2> QED
    BY <1>3, <2>1, <2>2 DEF Has
<1> QED
  BY <1>6, <1>7, <1>8, <1>9 DEF O

LEMMA OtherPrograms ==
    ASSUME NEW name \in OtherCalls
    PROVE  LET O == OpsOf(name)
           IN  /\ \A s \in Sizes : RecordFetch(s) \in Seq(O) /\ RecordEviction(s) \in Seq(O)
               /\ \A p \in PolicyNames, v \in {-1, 1} : RecordSwitch(p, v) \in Seq(O)
               /\ \A accepted \in BOOLEAN : RecordTuning(accepted) \in Seq(O)
               /\ \A p \in PolicyNames : SetPolicy(p) \in Seq(O)
               /\ TuningAttempts \in Seq(O)
<1> DEFINE O == OpsOf(name)
<1>1. /\ \A c \in OtherCounters, n \in Nat : Add(c, n) \in O
      /\ \A c \in Counters : Load(c) \in O
      /\ \A p \in PolicyNames : Install(p) \in O
  <2>1. OtherCounters \subseteq Counters /\ OtherCounters \cap UnitCounters = {}
    BY DEF OtherCounters, Counters, UnitCounters
  <2>2. \A c \in OtherCounters, n \in Nat : Add(c, n) \in Adds(OtherCounters)
    BY <2>1, AddIs
  <2>3. \A c \in Counters : Load(c) \in LoadOps
    BY DEF Load, LoadOps
  <2>4. \A p \in PolicyNames : Install(p) \in InstallOps
    BY DEF Install, InstallOps
  <2> QED
    BY <2>2, <2>3, <2>4, OpsAre
<1>2. /\ \A c \in {"bytesFetched", "evictions", "evictedBytes", "switches", "switchOverhead",
                   "tuningAttempts", "tuningAccepted"} : c \in OtherCounters /\ c \in Counters
      /\ \A s \in Sizes : s \in Nat
  BY CallsAssumption DEF OtherCounters, Counters
<1> HIDE DEF O
<1>3. \A s \in Sizes : RecordFetch(s) \in Seq(O) /\ RecordEviction(s) \in Seq(O)
  BY <1>1, <1>2 DEF RecordFetch, RecordEviction
<1>4. \A p \in PolicyNames, v \in {-1, 1} : RecordSwitch(p, v) \in Seq(O)
  BY <1>1, <1>2 DEF RecordSwitch
<1>5. \A accepted \in BOOLEAN : RecordTuning(accepted) \in Seq(O)
  BY <1>1, <1>2 DEF RecordTuning
<1>6. (\A p \in PolicyNames : SetPolicy(p) \in Seq(O)) /\ TuningAttempts \in Seq(O)
  BY <1>1, <1>2 DEF SetPolicy, TuningAttempts
<1> QED
  BY <1>3, <1>4, <1>5, <1>6 DEF O

-----------------------------------------------------------------------------
(* The kind of an operation tells its call. *)
LEMMA OpFacts ==
    ASSUME TypeInv, NEW t \in Goroutines, todo[t] # << >>
    PROVE  LET op == Head(todo[t])
           IN  /\ call[t] # "idle"
               /\ op.do = "add" =>
                     /\ op \in AddOps
                     /\ \/ call[t] = "request" /\ op.at \in FedCounters
                        \/ call[t] \in OtherCalls /\ op.at \in OtherCounters
               /\ op.do = "bucket" => op \in FillOps /\ call[t] = "request"
               /\ op.do = "max" => op \in MaxOps /\ call[t] = "request"
               /\ op.do = "cas" => op \in CasOps /\ call[t] = "request"
               /\ op.do = "zero" => op \in ZeroOps /\ call[t] = "reset"
               /\ op.do = "empty" => op \in EmptyOps /\ call[t] = "reset"
               /\ op.do = "load" => op \in LoadOps /\ (call[t] = "snapshot" \/ call[t] \in OtherCalls)
               /\ op.do = "mean" => op = MeanMillis /\ call[t] = "snapshot"
               /\ op.do = "policy" => op = CurrentPolicy /\ call[t] = "snapshot"
               /\ op.do = "rank" => op \in RankOps /\ call[t] = "snapshot"
               /\ op.do = "walk" => op \in WalkOps /\ call[t] = "snapshot"
               /\ op.do = "install" => op \in InstallOps /\ call[t] \in OtherCalls
<1> DEFINE op == Head(todo[t])
<1>1. todo[t] \in Seq(OpsOf(call[t])) /\ call[t] \in {"idle", "request", "reset", "snapshot"} \cup OtherCalls
  BY DEF TypeInv
<1>2. op \in OpsOf(call[t])
  BY <1>1, TailMarks
<1> HIDE DEF op
<1>3. /\ \A o \in AddOps : o.do = "add"
      /\ \A o \in FillOps : o.do = "bucket"
      /\ \A o \in MaxOps : o.do = "max"
      /\ \A o \in CasOps : o.do = "cas"
      /\ \A o \in ZeroOps : o.do = "zero"
      /\ \A o \in EmptyOps : o.do = "empty"
      /\ \A o \in LoadOps : o.do = "load"
      /\ \A o \in RankOps : o.do = "rank"
      /\ \A o \in WalkOps : o.do = "walk"
      /\ \A o \in InstallOps : o.do = "install"
      /\ MeanMillis.do = "mean" /\ CurrentPolicy.do = "policy"
  BY DEF AddOps, FillOps, MaxOps, CasOps, ZeroOps, EmptyOps, LoadOps, RankOps, WalkOps, InstallOps, MeanMillis,
         CurrentPolicy, Quantile
<1>4. CASE call[t] = "request"
  <2>1. \/ op \in AddOps /\ op.at \in FedCounters
        \/ op \in FillOps \/ op \in MaxOps \/ op \in CasOps
    BY <1>2, <1>4, OpsAre DEF Adds
  <2> QED
    BY <1>3, <1>4, <2>1 DEF op
<1>5. CASE call[t] = "reset"
  <2>1. op \in ZeroOps \/ op \in EmptyOps
    BY <1>2, <1>5, OpsAre
  <2> QED
    BY <1>3, <1>5, <2>1 DEF op
<1>6. CASE call[t] = "snapshot"
  <2>1. op \in LoadOps \/ op = MeanMillis \/ op = CurrentPolicy \/ op \in RankOps \/ op \in WalkOps
    BY <1>2, <1>6, OpsAre
  <2> QED
    BY <1>3, <1>6, <2>1 DEF op
<1>7. CASE call[t] \in OtherCalls
  <2>1. \/ op \in AddOps /\ op.at \in OtherCounters
        \/ op \in LoadOps \/ op \in InstallOps
    BY <1>2, <1>7, OpsAre DEF Adds
  <2>2. call[t] # "idle"
    BY <1>7 DEF OtherCalls
  <2> QED
    BY <1>3, <1>7, <2>1, <2>2 DEF op
<1> QED
  BY <1>1, <1>2, <1>4, <1>5, <1>6, <1>7, OpsAre

(* The first operation is gone, or another has taken its place. *)
Pops(t) == todo' = [todo EXCEPT ![t] = Tail(todo[t])]
Puts(t, op) == todo' = [todo EXCEPT ![t] = <<op>> \o Tail(todo[t])]

LEMMA ThenFacts ==
    ASSUME TypeInv, NEW t \in Goroutines, todo[t] # << >>
    PROVE  /\ Then(t, << >>) => Pops(t)
           /\ \A op : Then(t, <<op>>) => Puts(t, op)
<1>1. Tail(todo[t]) \in Seq(OpsOf(call[t]))
  BY TailMarks DEF TypeInv
<1>2. << >> \o Tail(todo[t]) = Tail(todo[t])
  BY <1>1, ConcatEmptySeq
<1> QED
  BY <1>2 DEF Then, Pops, Puts

LEMMA TodoSteps ==
    ASSUME TypeInv, NEW t \in Goroutines, todo[t] # << >>, NEW op \in OpsOf(call[t]),
           Pops(t) \/ Puts(t, op)
    PROVE  /\ todo' = [u \in Goroutines |-> todo'[u]]
           /\ todo'[t] \in Seq(OpsOf(call[t]))
           /\ \A u \in Goroutines \ {t} : todo'[u] = todo[u]
<1>1. Tail(todo[t]) \in Seq(OpsOf(call[t]))
  BY TailMarks DEF TypeInv
<1>2. <<op>> \o Tail(todo[t]) \in Seq(OpsOf(call[t]))
  BY <1>1, ConsMarks
<1>3. todo = [u \in Goroutines |-> todo[u]]
  BY DEF TypeInv
<1> DEFINE s == Tail(todo[t])
           p == <<op>> \o s
<1> HIDE DEF s, p
<1>4. todo' = [todo EXCEPT ![t] = s] \/ todo' = [todo EXCEPT ![t] = p]
  BY DEF Pops, Puts, s, p
<1>5. s \in Seq(OpsOf(call[t])) /\ p \in Seq(OpsOf(call[t]))
  BY <1>1, <1>2 DEF s, p
<1> QED
  BY <1>3, <1>4, <1>5

LEMMA SeesFacts ==
    ASSUME TypeInv, NEW t \in Goroutines, NEW name, NEW n, Sees(t, name, n)
    PROVE  /\ view' = [u \in Goroutines |-> view'[u]]
           /\ \A u \in Goroutines \ {t} : view'[u] = view[u]
           /\ DOMAIN view'[t] = DOMAIN view[t] \cup {name}
           /\ view'[t][name] = n
           /\ \A x \in DOMAIN view[t] \ {name} : view'[t][x] = view[t][x]
<1> DEFINE g == [x \in DOMAIN view[t] \cup {name} |-> IF x = name THEN n ELSE view[t][x]]
<1>2. DOMAIN g = DOMAIN view[t] \cup {name} /\ g[name] = n /\ \A x \in DOMAIN view[t] \ {name} : g[x] = view[t][x]
  OBVIOUS
<1>3. view = [u \in Goroutines |-> view[u]] /\ view' = [view EXCEPT ![t] = g]
  BY DEF TypeInv, Sees
<1> HIDE DEF g
<1>4. view'[t] = g /\ (\A u \in Goroutines \ {t} : view'[u] = view[u]) /\ view' = [u \in Goroutines |-> view'[u]]
  BY <1>3
<1> QED
  BY <1>2, <1>4

Frozen == /\ call' = call /\ reqs' = reqs /\ finished' = finished /\ overlap' = overlap
          /\ before' = before /\ dirty' = dirty
Quiet == cnt' = cnt /\ buckets' = buckets
Doing(t, kind) == todo[t] # << >> /\ Head(todo[t]).do = kind /\ Frozen

(* The atomic operations, in these terms. *)
LEMMA StepFacts ==
    ASSUME TypeInv, NEW t \in Goroutines
    PROVE  LET op == Head(todo[t])
           IN  /\ DoAdd(t) => /\ Doing(t, "add") /\ Pops(t) /\ view' = view /\ buckets' = buckets
                              /\ cnt' = [cnt EXCEPT ![op.at] = cnt[op.at] + op.n]
               /\ DoBucket(t) => /\ Doing(t, "bucket") /\ Pops(t) /\ view' = view /\ cnt' = cnt
                                 /\ buckets' = [buckets EXCEPT ![op.at] = buckets[op.at] + 1]
               /\ DoZero(t) => /\ Doing(t, "zero") /\ Pops(t) /\ view' = view /\ buckets' = buckets
                               /\ cnt' = [cnt EXCEPT ![op.at] = 0]
               /\ DoEmpty(t) => /\ Doing(t, "empty") /\ Pops(t) /\ view' = view /\ cnt' = cnt
                                /\ buckets' = [buckets EXCEPT ![op.at] = 0]
               /\ DoLoad(t) => Doing(t, "load") /\ Pops(t) /\ Quiet /\ Sees(t, op.at, cnt[op.at])
               /\ DoMean(t) => /\ Doing(t, "mean") /\ Quiet /\ Sees(t, "count", cnt["count"])
                               /\ Pops(t) \/ Puts(t, Load("sum"))
               /\ DoInstall(t) => Doing(t, "install") /\ Pops(t) /\ Quiet /\ view' = view
               /\ DoPolicy(t) => Doing(t, "policy") /\ Pops(t) /\ Quiet /\ Sees(t, "policy", policy)
               /\ DoMax(t) => /\ Doing(t, "max") /\ Quiet /\ view' = view
                              /\ \/ op.n <= cnt["max"] /\ Pops(t)
                                 \/ ~(op.n <= cnt["max"]) /\ Puts(t, Cas(op.n, cnt["max"]))
               /\ DoCas(t) => /\ Doing(t, "cas") /\ buckets' = buckets /\ view' = view
                              /\ \/ cnt["max"] = op.cur /\ Pops(t) /\ cnt' = [cnt EXCEPT !["max"] = op.n]
                                 \/ cnt["max"] # op.cur /\ Puts(t, RaiseMax(op.n)) /\ cnt' = cnt
               /\ DoRank(t) => /\ Doing(t, "rank") /\ Quiet /\ view' = view
                               /\ \/ cnt["count"] = 0 /\ Pops(t)
                                  \/ /\ cnt["count"] # 0
                                     /\ Puts(t, Walk(op.at, Target(op.percent, cnt["count"]), 0, 0))
               /\ DoWalk(t) => /\ Doing(t, "walk") /\ Quiet
                               /\ LET seen == op.seen + buckets[op.i]
                                      found == buckets[op.i] > 0 /\ seen > op.target
                                  IN  \/ found /\ Sees(t, op.at, op.i) /\ Pops(t)
                                      \/ /\ ~found /\ op.i = numBuckets - 1
                                         /\ Sees(t, op.at, numBuckets) /\ Puts(t, Load("max"))
                                      \/ /\ ~found /\ op.i # numBuckets - 1 /\ view' = view
                                         /\ Puts(t, Walk(op.at, op.target, op.i + 1, seen))
<1> DEFINE op == Head(todo[t])
<1>1. /\ todo[t] # << >> /\ Then(t, << >>) => Pops(t)
      /\ \A o : todo[t] # << >> /\ Then(t, <<o>>) => Puts(t, o)
  BY ThenFacts
<1>2. ASSUME DoAdd(t)
      PROVE  /\ Doing(t, "add") /\ Pops(t) /\ view' = view /\ buckets' = buckets
             /\ cnt' = [cnt EXCEPT ![op.at] = cnt[op.at] + op.n]
  BY <1>1, <1>2 DEF DoAdd, Does, Doing, Frozen, history
<1>3. ASSUME DoBucket(t)
      PROVE  /\ Doing(t, "bucket") /\ Pops(t) /\ view' = view /\ cnt' = cnt
             /\ buckets' = [buckets EXCEPT ![op.at] = buckets[op.at] + 1]
  BY <1>1, <1>3 DEF DoBucket, Does, Doing, Frozen, history
<1>4. ASSUME DoZero(t)
      PROVE  Doing(t, "zero") /\ Pops(t) /\ view' = view /\ buckets' = buckets /\ cnt' = [cnt EXCEPT ![op.at] = 0]
  BY <1>1, <1>4 DEF DoZero, Does, Doing, Frozen, history
<1>5. ASSUME DoEmpty(t)
      PROVE  Doing(t, "empty") /\ Pops(t) /\ view' = view /\ cnt' = cnt /\ buckets' = [buckets EXCEPT ![op.at] = 0]
  BY <1>1, <1>5 DEF DoEmpty, Does, Doing, Frozen, history
<1>6. ASSUME DoLoad(t) PROVE Doing(t, "load") /\ Pops(t) /\ Quiet /\ Sees(t, op.at, cnt[op.at])
  BY <1>1, <1>6 DEF DoLoad, Does, Doing, Frozen, history, Quiet
<1>7. ASSUME DoMean(t)
      PROVE  /\ Doing(t, "mean") /\ Quiet /\ Sees(t, "count", cnt["count"])
             /\ Pops(t) \/ Puts(t, Load("sum"))
  <2>1. Then(t, << >>) \/ Then(t, <<Load("sum")>>)
    BY <1>7 DEF DoMean
  <2> QED
    BY <1>1, <1>7, <2>1 DEF DoMean, Does, Doing, Frozen, history, Quiet
<1>8. ASSUME DoInstall(t) PROVE Doing(t, "install") /\ Pops(t) /\ Quiet /\ view' = view
  BY <1>1, <1>8 DEF DoInstall, Does, Doing, Frozen, history, Quiet
<1>9. ASSUME DoPolicy(t) PROVE Doing(t, "policy") /\ Pops(t) /\ Quiet /\ Sees(t, "policy", policy)
  BY <1>1, <1>9 DEF DoPolicy, Does, Doing, Frozen, history, Quiet
<1>10. ASSUME DoMax(t)
       PROVE  /\ Doing(t, "max") /\ Quiet /\ view' = view
              /\ \/ op.n <= cnt["max"] /\ Pops(t)
                 \/ ~(op.n <= cnt["max"]) /\ Puts(t, Cas(op.n, cnt["max"]))
  <2>1. \/ op.n <= cnt["max"] /\ Then(t, << >>)
        \/ ~(op.n <= cnt["max"]) /\ Then(t, <<Cas(op.n, cnt["max"])>>)
    BY <1>10 DEF DoMax
  <2> QED
    BY <1>1, <1>10, <2>1 DEF DoMax, Does, Doing, Frozen, history, Quiet
<1>11. ASSUME DoCas(t)
       PROVE  /\ Doing(t, "cas") /\ buckets' = buckets /\ view' = view
              /\ \/ cnt["max"] = op.cur /\ Pops(t) /\ cnt' = [cnt EXCEPT !["max"] = op.n]
                 \/ cnt["max"] # op.cur /\ Puts(t, RaiseMax(op.n)) /\ cnt' = cnt
  BY <1>1, <1>11 DEF DoCas, Does, Doing, Frozen, history
<1>12. ASSUME DoRank(t)
       PROVE  /\ Doing(t, "rank") /\ Quiet /\ view' = view
              /\ \/ cnt["count"] = 0 /\ Pops(t)
                 \/ cnt["count"] # 0 /\ Puts(t, Walk(op.at, Target(op.percent, cnt["count"]), 0, 0))
  <2>1. \/ cnt["count"] = 0 /\ Then(t, << >>)
        \/ cnt["count"] # 0 /\ Then(t, <<Walk(op.at, Target(op.percent, cnt["count"]), 0, 0)>>)
    BY <1>12 DEF DoRank
  <2> QED
    BY <1>1, <1>12, <2>1 DEF DoRank, Does, Doing, Frozen, history, Quiet
<1>13. ASSUME DoWalk(t)
       PROVE  /\ Doing(t, "walk") /\ Quiet
              /\ LET seen == op.seen + buckets[op.i]
                     found == buckets[op.i] > 0 /\ seen > op.target
                 IN  \/ found /\ Sees(t, op.at, op.i) /\ Pops(t)
                     \/ ~found /\ op.i = numBuckets - 1 /\ Sees(t, op.at, numBuckets) /\ Puts(t, Load("max"))
                     \/ /\ ~found /\ op.i # numBuckets - 1 /\ view' = view
                        /\ Puts(t, Walk(op.at, op.target, op.i + 1, seen))
  <2> DEFINE seen == op.seen + buckets[op.i]
             found == buckets[op.i] > 0 /\ seen > op.target
  <2>1. todo[t] # << >> /\ op.do = "walk" /\ Frozen /\ Quiet
    BY <1>13 DEF DoWalk, Does, Frozen, history, Quiet
  <2>3. \/ found /\ Sees(t, op.at, op.i) /\ Then(t, << >>)
        \/ ~found /\ op.i = numBuckets - 1 /\ Sees(t, op.at, numBuckets) /\ Then(t, <<Load("max")>>)
        \/ ~found /\ op.i # numBuckets - 1 /\ view' = view /\ Then(t, <<Walk(op.at, op.target, op.i + 1, seen)>>)
    BY <1>13 DEF DoWalk, Passed
  <2> HIDE DEF op, seen, found
  <2>4. \/ found /\ Sees(t, op.at, op.i) /\ Pops(t)
        \/ ~found /\ op.i = numBuckets - 1 /\ Sees(t, op.at, numBuckets) /\ Puts(t, Load("max"))
        \/ ~found /\ op.i # numBuckets - 1 /\ view' = view /\ Puts(t, Walk(op.at, op.target, op.i + 1, seen))
    BY <1>1, <2>1, <2>3
  <2> QED
    BY <2>1, <2>4 DEF Doing, op, seen, found
<1> QED
  BY <1>2, <1>3, <1>4, <1>5, <1>6, <1>7, <1>8, <1>9, <1>10, <1>11, <1>12, <1>13

LEMMA TargetFacts ==
    ASSUME NEW q \in QuantileNames, NEW n \in Nat, n # 0
    PROVE  /\ Percent(q) \in Nat /\ Percent(q) < 100
           /\ Target(Percent(q), n) \in Nat /\ Target(Percent(q), n) < n
           /\ 100 * Target(Percent(q), n) <= Percent(q) * n
           /\ Percent(q) * n < 100 * (Target(Percent(q), n) + 1)
<1> DEFINE p == Percent(q)
           k == (p * n) \div 100
<1>1. p \in Nat /\ p < 100 /\ p >= 0
  BY DEF Percent, QuantileNames
<1> HIDE DEF p
<1>2. p * n \in Nat /\ p * n < 100 * n
  <2>1. p * n < 100 * n
    BY <1>1, LessTimes
  <2> QED
    BY <1>1, <2>1
<1>3. k \in Nat /\ k * 100 <= p * n /\ p * n < (k + 1) * 100
  BY <1>2, DivIs
<1>4. Target(p, n) = IF k >= n THEN n - 1 ELSE k
  BY <1>1 DEF Target
<1> HIDE DEF k
<1>5. k < n
  BY <1>2, <1>3
<1>6. Target(p, n) = k
  BY <1>3, <1>4, <1>5
<1> QED
  BY <1>1, <1>2, <1>3, <1>5, <1>6 DEF p

LEMMA PutOps ==
    /\ Load("sum") \in OpsOf("snapshot") /\ Load("max") \in OpsOf("snapshot")
    /\ \A n, cur \in Nat : cur < n => Cas(n, cur) \in OpsOf("request") /\ Cas(n, cur) \in CasOps
    /\ \A n \in Nat : RaiseMax(n) \in OpsOf("request")
    /\ \A q \in QuantileNames, target, seen \in Nat, i \in BucketSet :
          Walk(q, target, i, seen) \in OpsOf("snapshot") /\ Walk(q, target, i, seen) \in WalkOps
<1>1. Load("sum") \in LoadOps /\ Load("max") \in LoadOps
  BY DEF Load, LoadOps, Counters
<1>2. \A n, cur \in Nat : cur < n => Cas(n, cur) \in CasOps
  BY DEF Cas, CasOps
<1>3. \A n \in Nat : RaiseMax(n) \in MaxOps
  BY DEF RaiseMax, MaxOps
<1>4. \A q \in QuantileNames, target, seen \in Nat, i \in BucketSet : Walk(q, target, i, seen) \in WalkOps
  BY DEF Walk, WalkOps
<1> QED
  BY <1>1, <1>2, <1>3, <1>4, OpsAre

(* A step of t within its call keeps the types. *)
LEMMA WorkType ==
    ASSUME TypeInv, NEW t \in Goroutines, todo[t] # << >>, Frozen,
           cnt' \in [Counters -> Nat], buckets' \in [BucketSet -> Nat],
           NEW op, Pops(t) \/ (op \in OpsOf(call[t]) /\ Puts(t, op)),
           view' = [u \in Goroutines |-> view'[u]], \A u \in Goroutines \ {t} : view'[u] = view[u]
    PROVE  TypeInv'
<1>1. call[t] # "idle"
  BY OpFacts
<1>2. Head(todo[t]) \in OpsOf(call[t])
  BY TailMarks DEF TypeInv
<1>3. /\ todo' = [u \in Goroutines |-> todo'[u]]
      /\ todo'[t] \in Seq(OpsOf(call[t]))
      /\ \A u \in Goroutines \ {t} : todo'[u] = todo[u]
  BY <1>2, TodoSteps
<1> QED
  BY <1>1, <1>3 DEF TypeInv, Frozen

LEMMA CntTypes ==
    ASSUME cnt \in [Counters -> Nat], NEW c \in Counters, NEW n \in Nat
    PROVE  /\ [cnt EXCEPT ![c] = n] \in [Counters -> Nat]
           /\ [cnt EXCEPT ![c] = cnt[c] + n] \in [Counters -> Nat]
OBVIOUS

LEMMA OpTypes ==
    ASSUME NEW op
    PROVE  /\ op \in AddOps => op.at \in Counters /\ op.n \in Nat /\ op.do = "add"
           /\ op \in FillOps \cup EmptyOps => op.at \in BucketSet
           /\ op \in MaxOps => op.n \in Nat
           /\ op \in CasOps => op.n \in Nat /\ op.cur \in Nat /\ op.cur < op.n
           /\ op \in ZeroOps \cup LoadOps => op.at \in Counters
           /\ op \in RankOps => op.at \in QuantileNames /\ op = Quantile(op.at) /\ op.percent = Percent(op.at)
           /\ op \in WalkOps => op.at \in QuantileNames /\ op.target \in Nat /\ op.i \in BucketSet /\ op.seen \in Nat
BY DEF AddOps, FillOps, EmptyOps, MaxOps, CasOps, ZeroOps, LoadOps, RankOps, Quantile, WalkOps

LEMMA StepType ==
    ASSUME TypeInv, NEW t \in Goroutines, Step(t), ~Return(t)
    PROVE  TypeInv' /\ Frozen /\ todo[t] # << >>
<1> DEFINE op == Head(todo[t])
<1>0. /\ cnt \in [Counters -> Nat] /\ buckets \in [BucketSet -> Nat]
      /\ view = [u \in Goroutines |-> view[u]]
      /\ "max" \in Counters /\ "count" \in Counters
  BY DEF TypeInv, Counters
<1>1. CASE DoAdd(t)
  <2>1. /\ Doing(t, "add") /\ Pops(t) /\ view' = view /\ buckets' = buckets
        /\ cnt' = [cnt EXCEPT ![op.at] = cnt[op.at] + op.n]
    BY <1>1, StepFacts
  <2>2. op \in AddOps
    BY <2>1, OpFacts DEF Doing
  <2>3. cnt' \in [Counters -> Nat]
    BY <1>0, <2>1, <2>2, CntTypes, OpTypes
  <2> QED
    BY <1>0, <2>1, <2>3, WorkType DEF Doing
<1>2. CASE DoBucket(t)
  <2>1. /\ Doing(t, "bucket") /\ Pops(t) /\ view' = view /\ cnt' = cnt
        /\ buckets' = [buckets EXCEPT ![op.at] = buckets[op.at] + 1]
    BY <1>2, StepFacts
  <2>2. op.at \in BucketSet
    BY <2>1, OpFacts, OpTypes DEF Doing
  <2>3. buckets' \in [BucketSet -> Nat]
    BY <1>0, <2>1, <2>2
  <2> QED
    BY <1>0, <2>1, <2>3, WorkType DEF Doing
<1>3. CASE DoZero(t)
  <2>1. /\ Doing(t, "zero") /\ Pops(t) /\ view' = view /\ buckets' = buckets
        /\ cnt' = [cnt EXCEPT ![op.at] = 0]
    BY <1>3, StepFacts
  <2>2. op.at \in Counters
    BY <2>1, OpFacts, OpTypes DEF Doing
  <2>3. cnt' \in [Counters -> Nat]
    BY <1>0, <2>1, <2>2, CntTypes
  <2> QED
    BY <1>0, <2>1, <2>3, WorkType DEF Doing
<1>4. CASE DoEmpty(t)
  <2>1. /\ Doing(t, "empty") /\ Pops(t) /\ view' = view /\ cnt' = cnt
        /\ buckets' = [buckets EXCEPT ![op.at] = 0]
    BY <1>4, StepFacts
  <2>2. op.at \in BucketSet
    BY <2>1, OpFacts, OpTypes DEF Doing
  <2>3. buckets' \in [BucketSet -> Nat]
    BY <1>0, <2>1, <2>2
  <2> QED
    BY <1>0, <2>1, <2>3, WorkType DEF Doing
<1>5. CASE DoLoad(t)
  <2>1. Doing(t, "load") /\ Pops(t) /\ Quiet /\ Sees(t, op.at, cnt[op.at])
    BY <1>5, StepFacts
  <2> QED
    BY <1>0, <2>1, SeesFacts, WorkType DEF Doing, Quiet
<1>6. CASE DoMean(t)
  <2>1. Doing(t, "mean") /\ Quiet /\ Sees(t, "count", cnt["count"]) /\ (Pops(t) \/ Puts(t, Load("sum")))
    BY <1>6, StepFacts
  <2>2. Load("sum") \in OpsOf(call[t])
    BY <2>1, OpFacts, PutOps DEF Doing
  <2> QED
    BY <1>0, <2>1, <2>2, SeesFacts, WorkType DEF Doing, Quiet
<1>7. CASE DoInstall(t)
  <2>1. Doing(t, "install") /\ Pops(t) /\ Quiet /\ view' = view
    BY <1>7, StepFacts
  <2> QED
    BY <1>0, <2>1, WorkType DEF Doing, Quiet
<1>8. CASE DoPolicy(t)
  <2>1. Doing(t, "policy") /\ Pops(t) /\ Quiet /\ Sees(t, "policy", policy)
    BY <1>8, StepFacts
  <2> QED
    BY <1>0, <2>1, SeesFacts, WorkType DEF Doing, Quiet
<1>9. CASE DoMax(t)
  <2>1. /\ Doing(t, "max") /\ Quiet /\ view' = view
        /\ Pops(t) \/ (~(op.n <= cnt["max"]) /\ Puts(t, Cas(op.n, cnt["max"])))
    BY <1>9, StepFacts
  <2>2. op.n \in Nat /\ call[t] = "request"
    BY <2>1, OpFacts, OpTypes DEF Doing
  <2>3. Pops(t) \/ (Cas(op.n, cnt["max"]) \in OpsOf(call[t]) /\ Puts(t, Cas(op.n, cnt["max"])))
    <3>1. cnt["max"] \in Nat
      BY <1>0
    <3>2. ~(op.n <= cnt["max"]) => cnt["max"] < op.n
      BY <2>2, <3>1
    <3> QED
      BY <2>1, <2>2, <3>1, <3>2, PutOps
  <2> QED
    BY <1>0, <2>1, <2>3, WorkType DEF Doing, Quiet
<1>10. CASE DoCas(t)
  <2>1. /\ Doing(t, "cas") /\ buckets' = buckets /\ view' = view
        /\ \/ Pops(t) /\ cnt' = [cnt EXCEPT !["max"] = op.n]
           \/ Puts(t, RaiseMax(op.n)) /\ cnt' = cnt
    BY <1>10, StepFacts
  <2>2. op.n \in Nat /\ call[t] = "request"
    BY <2>1, OpFacts, OpTypes DEF Doing
  <2>3. cnt' \in [Counters -> Nat]
    BY <1>0, <2>1, <2>2, CntTypes
  <2>4. RaiseMax(op.n) \in OpsOf(call[t])
    BY <2>2, PutOps
  <2> QED
    BY <1>0, <2>1, <2>3, <2>4, WorkType DEF Doing
<1>11. CASE DoRank(t)
  <2> DEFINE w == Walk(op.at, Target(op.percent, cnt["count"]), 0, 0)
  <2>1. /\ Doing(t, "rank") /\ Quiet /\ view' = view
        /\ Pops(t) \/ (cnt["count"] # 0 /\ Puts(t, w))
    BY <1>11, StepFacts
  <2>2. op.at \in QuantileNames /\ op.percent = Percent(op.at) /\ call[t] = "snapshot"
    BY <2>1, OpFacts, OpTypes DEF Doing
  <2>3. cnt["count"] # 0 => w \in OpsOf(call[t])
    <3>1. cnt["count"] \in Nat /\ 0 \in BucketSet
      BY <1>0, SizeFacts DEF BucketSet
    <3> QED
      BY <2>2, <3>1, TargetFacts, PutOps
  <2> HIDE DEF w
  <2> QED
    BY <1>0, <2>1, <2>3, WorkType DEF Doing, Quiet
<1>12. CASE DoWalk(t)
  <2> DEFINE w == Walk(op.at, op.target, op.i + 1, op.seen + buckets[op.i])
  <2>1. /\ Doing(t, "walk") /\ Quiet
        /\ \/ Sees(t, op.at, op.i) /\ Pops(t)
           \/ Sees(t, op.at, numBuckets) /\ Puts(t, Load("max"))
           \/ op.i # numBuckets - 1 /\ view' = view /\ Puts(t, w)
    BY <1>12, StepFacts
  <2>2. op \in WalkOps /\ call[t] = "snapshot"
    BY <2>1, OpFacts DEF Doing
  <2>3. Load("max") \in OpsOf(call[t])
    BY <2>2, PutOps
  <2>4. op.i # numBuckets - 1 => w \in OpsOf(call[t])
    <3>1. op.at \in QuantileNames /\ op.target \in Nat /\ op.i \in BucketSet /\ op.seen \in Nat
      BY <2>2, OpTypes
    <3>2. op.seen + buckets[op.i] \in Nat
      BY <1>0, <3>1
    <3>3. op.i # numBuckets - 1 => op.i + 1 \in BucketSet
      BY <3>1, SizeFacts DEF BucketSet
    <3> QED
      BY <2>2, <3>1, <3>2, <3>3, PutOps
  <2> HIDE DEF w
  <2> QED
    BY <1>0, <2>1, <2>3, <2>4, SeesFacts, WorkType DEF Doing, Quiet
<1> QED
  BY <1>1, <1>2, <1>3, <1>4, <1>5, <1>6, <1>7, <1>8, <1>9, <1>10, <1>11, <1>12 DEF Step

(* The beginning of a call. *)
LEMMA CallKinds ==
    ASSUME NEW t \in Goroutines, Call(t)
    PROVE  \/ \E r \in Requests : BeginRequest(t, r)
           \/ BeginReset(t) \/ BeginSnapshot(t)
           \/ \E name \in OtherCalls : \E program \in Seq(OpsOf(name)) : BeginOther(t, name, program)
<1>1. ASSUME NEW s \in Sizes, BeginOther(t, "fetch", RecordFetch(s))
      PROVE  \E name \in OtherCalls : \E program \in Seq(OpsOf(name)) : BeginOther(t, name, program)
  BY <1>1, OtherPrograms DEF OtherCalls
<1>2. ASSUME NEW s \in Sizes, BeginOther(t, "eviction", RecordEviction(s))
      PROVE  \E name \in OtherCalls : \E program \in Seq(OpsOf(name)) : BeginOther(t, name, program)
  BY <1>2, OtherPrograms DEF OtherCalls
<1>3. ASSUME NEW p \in PolicyNames, NEW v \in {-1, 1}, BeginOther(t, "switch", RecordSwitch(p, v))
      PROVE  \E name \in OtherCalls : \E program \in Seq(OpsOf(name)) : BeginOther(t, name, program)
  BY <1>3, OtherPrograms DEF OtherCalls
<1>4. ASSUME NEW accepted \in BOOLEAN, BeginOther(t, "tuning", RecordTuning(accepted))
      PROVE  \E name \in OtherCalls : \E program \in Seq(OpsOf(name)) : BeginOther(t, name, program)
  BY <1>4, OtherPrograms DEF OtherCalls
<1>5. ASSUME NEW p \in PolicyNames, BeginOther(t, "setPolicy", SetPolicy(p))
      PROVE  \E name \in OtherCalls : \E program \in Seq(OpsOf(name)) : BeginOther(t, name, program)
  BY <1>5, OtherPrograms DEF OtherCalls
<1>6. ASSUME BeginOther(t, "attempts", TuningAttempts)
      PROVE  \E name \in OtherCalls : \E program \in Seq(OpsOf(name)) : BeginOther(t, name, program)
  BY <1>6, OtherPrograms DEF OtherCalls
<1> QED
  BY <1>1, <1>2, <1>3, <1>4, <1>5, <1>6 DEF Call

CallNames == {"request", "reset", "snapshot"} \cup OtherCalls

LEMMA BeginFacts ==
    ASSUME TypeInv, NEW t \in Goroutines, NEW name \in CallNames, NEW program \in Seq(OpsOf(name)),
           Begin(t, name, program), reqs' \in [Requests -> Nat], finished' \in Nat, dirty' \in Nat
    PROVE  /\ TypeInv'
           /\ call[t] = "idle" /\ call'[t] = name /\ todo'[t] = program /\ before'[t] = finished
           /\ \A u \in Goroutines \ {t} : call'[u] = call[u] /\ todo'[u] = todo[u] /\ before'[u] = before[u]
           /\ cnt' = cnt /\ buckets' = buckets /\ view' = view
           /\ t \notin Active /\ Active' = Active \cup {t}
           /\ \A u \in Active : (overlap'[u] = "reset" <=> name = "reset" \/ overlap[u] = "reset")
                                /\ overlap'[u] # "none"
           /\ overlap'[t] = "reset" <=> name # "reset" /\ Resetting # {}
           /\ overlap'[t] = "none" => Active = {}
<1>1. /\ call[t] = "idle" /\ call' = [call EXCEPT ![t] = name] /\ todo' = [todo EXCEPT ![t] = program]
      /\ before' = [before EXCEPT ![t] = finished]
      /\ cnt' = cnt /\ buckets' = buckets /\ view' = view
      /\ Overlaps(t, name)
  BY DEF Begin
<1>2. /\ call'[t] = name /\ todo'[t] = program /\ before'[t] = finished
      /\ \A u \in Goroutines \ {t} : call'[u] = call[u] /\ todo'[u] = todo[u] /\ before'[u] = before[u]
      /\ call' \in [Goroutines -> {"idle", "request", "reset", "snapshot"} \cup OtherCalls]
      /\ before' \in [Goroutines -> Nat]
      /\ todo' = [u \in Goroutines |-> todo'[u]]
      /\ \A u \in Goroutines : todo'[u] \in Seq(OpsOf(call'[u]))
  BY <1>1 DEF TypeInv, CallNames
<1>3. name # "idle"
  BY DEF CallNames, OtherCalls
<1>4. t \notin Active /\ Active' = Active \cup {t}
  BY <1>1, <1>2, <1>3 DEF Active
<1>5. overlap' \in [Goroutines -> {"none", "calls", "reset"}]
  BY <1>1 DEF Overlaps, TypeInv
<1>6. \A u \in Active : (overlap'[u] = "reset" <=> name = "reset" \/ overlap[u] = "reset") /\ overlap'[u] # "none"
  BY <1>1, <1>4 DEF Overlaps, Active
<1>7. /\ overlap'[t] = "reset" <=> name # "reset" /\ Resetting # {}
      /\ overlap'[t] = "none" => Active = {}
  BY <1>1 DEF Overlaps
<1>8. TypeInv'
  BY <1>1, <1>2, <1>3, <1>5 DEF TypeInv
<1> QED
  BY <1>1, <1>2, <1>4, <1>6, <1>7, <1>8

LEMMA BeginRequestFacts ==
    ASSUME TypeInv, NEW t \in Goroutines, NEW r \in Requests, BeginRequest(t, r)
    PROVE  /\ TypeInv'
           /\ call[t] = "idle" /\ call'[t] = "request" /\ todo'[t] = RecordRequest(r) /\ before'[t] = finished
           /\ \A u \in Goroutines \ {t} : call'[u] = call[u] /\ todo'[u] = todo[u] /\ before'[u] = before[u]
           /\ cnt' = cnt /\ buckets' = buckets /\ view' = view
           /\ t \notin Active /\ Active' = Active \cup {t}
           /\ \A u \in Active : (overlap'[u] = "reset" <=> overlap[u] = "reset") /\ overlap'[u] # "none"
           /\ overlap'[t] = "reset" <=> Resetting # {}
           /\ overlap'[t] = "none" => Active = {}
           /\ reqs' = [reqs EXCEPT ![r] = @ + 1] /\ finished' = finished
           /\ dirty' = IF Resetting # {} THEN dirty + 1 ELSE dirty
<1>1. /\ Begin(t, "request", RecordRequest(r)) /\ reqs' = [reqs EXCEPT ![r] = @ + 1] /\ finished' = finished
      /\ dirty' = IF Resetting # {} THEN dirty + 1 ELSE dirty
  BY DEF BeginRequest
<1>2. reqs' \in [Requests -> Nat] /\ finished' \in Nat /\ dirty' \in Nat
  BY <1>1 DEF TypeInv
<1>3. RecordRequest(r) \in Seq(OpsOf("request")) /\ "request" \in CallNames
  BY RequestProgram DEF CallNames
<1> QED
  BY <1>1, <1>2, <1>3, BeginFacts

LEMMA BeginResetFacts ==
    ASSUME TypeInv, NEW t \in Goroutines, BeginReset(t)
    PROVE  /\ TypeInv'
           /\ call[t] = "idle" /\ call'[t] = "reset" /\ todo'[t] = Reset /\ before'[t] = finished
           /\ \A u \in Goroutines \ {t} : call'[u] = call[u] /\ todo'[u] = todo[u] /\ before'[u] = before[u]
           /\ cnt' = cnt /\ buckets' = buckets /\ view' = view
           /\ t \notin Active /\ Active' = Active \cup {t}
           /\ \A u \in Active : overlap'[u] = "reset"
           /\ overlap'[t] # "reset" /\ (overlap'[t] = "none" => Active = {})
           /\ reqs' = [r \in Requests |-> 0] /\ finished' = 0 /\ dirty' = Cardinality(Recording)
<1>1. /\ Begin(t, "reset", Reset) /\ reqs' = [r \in Requests |-> 0] /\ finished' = 0
      /\ dirty' = Cardinality(Recording)
  BY DEF BeginReset
<1>2. reqs' \in [Requests -> Nat] /\ finished' \in Nat
  BY <1>1
<1>3. dirty' \in Nat
  <2>1. IsFiniteSet(Recording)
    BY CallsAssumption, FS_Subset DEF Recording
  <2> QED
    BY <1>1, <2>1, FS_CardinalityType
<1>4. Reset \in Seq(OpsOf("reset")) /\ "reset" \in CallNames
  BY ResetProgram DEF CallNames
<1> QED
  BY <1>1, <1>2, <1>3, <1>4, BeginFacts

LEMMA BeginReaderFacts ==
    ASSUME TypeInv, NEW t \in Goroutines, NEW name \in OtherCalls \cup {"snapshot"},
           NEW program \in Seq(OpsOf(name)), Begin(t, name, program), UNCHANGED <<reqs, finished, dirty>>
    PROVE  /\ TypeInv'
           /\ call[t] = "idle" /\ call'[t] = name /\ todo'[t] = program /\ before'[t] = finished
           /\ \A u \in Goroutines \ {t} : call'[u] = call[u] /\ todo'[u] = todo[u] /\ before'[u] = before[u]
           /\ cnt' = cnt /\ buckets' = buckets /\ view' = view
           /\ t \notin Active /\ Active' = Active \cup {t}
           /\ \A u \in Active : (overlap'[u] = "reset" <=> overlap[u] = "reset") /\ overlap'[u] # "none"
           /\ overlap'[t] = "reset" <=> Resetting # {}
           /\ overlap'[t] = "none" => Active = {}
           /\ reqs' = reqs /\ finished' = finished /\ dirty' = dirty
           /\ name # "request" /\ name # "reset"
<1>1. reqs' \in [Requests -> Nat] /\ finished' \in Nat /\ dirty' \in Nat
  BY DEF TypeInv
<1>2. name \in CallNames /\ name # "request" /\ name # "reset"
  BY DEF CallNames, OtherCalls
<1> QED
  BY <1>1, <1>2, BeginFacts

LEMMA ReturnFacts ==
    ASSUME TypeInv, NEW t \in Goroutines, Return(t)
    PROVE  /\ TypeInv'
           /\ call[t] # "idle" /\ call'[t] = "idle" /\ todo[t] = << >> /\ todo' = todo
           /\ \A u \in Goroutines \ {t} : /\ call'[u] = call[u] /\ view'[u] = view[u]
                                          /\ overlap'[u] = overlap[u] /\ before'[u] = before[u]
           /\ cnt' = cnt /\ buckets' = buckets
           /\ t \in Active /\ Active' = Active \ {t}
           /\ finished' = IF call[t] = "request" /\ overlap[t] # "reset" THEN finished + 1 ELSE finished
           /\ reqs' = reqs /\ dirty' = dirty
<1>1. /\ call[t] # "idle" /\ call' = [call EXCEPT ![t] = "idle"] /\ todo[t] = << >> /\ todo' = todo
      /\ view' = [view EXCEPT ![t] = << >>] /\ overlap' = [overlap EXCEPT ![t] = "none"]
      /\ before' = [before EXCEPT ![t] = 0]
      /\ cnt' = cnt /\ buckets' = buckets /\ reqs' = reqs /\ dirty' = dirty
      /\ finished' = IF call[t] = "request" /\ overlap[t] # "reset" THEN finished + 1 ELSE finished
  BY DEF Return
<1>2. /\ call' \in [Goroutines -> {"idle", "request", "reset", "snapshot"} \cup OtherCalls]
      /\ overlap' \in [Goroutines -> {"none", "calls", "reset"}]
      /\ before' \in [Goroutines -> Nat] /\ finished' \in Nat
      /\ view' = [u \in Goroutines |-> view'[u]] /\ view'[t] = << >> /\ call'[t] = "idle"
      /\ \A u \in Goroutines \ {t} : /\ call'[u] = call[u] /\ view'[u] = view[u]
                                     /\ overlap'[u] = overlap[u] /\ before'[u] = before[u]
  <2>1. /\ call \in [Goroutines -> {"idle", "request", "reset", "snapshot"} \cup OtherCalls]
        /\ overlap \in [Goroutines -> {"none", "calls", "reset"}]
        /\ before \in [Goroutines -> Nat] /\ finished \in Nat
        /\ view = [u \in Goroutines |-> view[u]]
    BY DEF TypeInv
  <2>2. /\ call' \in [Goroutines -> {"idle", "request", "reset", "snapshot"} \cup OtherCalls]
        /\ overlap' \in [Goroutines -> {"none", "calls", "reset"}]
        /\ before' \in [Goroutines -> Nat]
    BY <1>1, <2>1
  <2>3. finished' \in Nat
    BY <1>1, <2>1
  <2>4. view' = [u \in Goroutines |-> view'[u]] /\ view'[t] = << >> /\ call'[t] = "idle"
    BY <1>1, <2>1
  <2>5. \A u \in Goroutines \ {t} : /\ call'[u] = call[u] /\ view'[u] = view[u]
                                    /\ overlap'[u] = overlap[u] /\ before'[u] = before[u]
    BY <1>1, <2>1
  <2> QED
    BY <2>2, <2>3, <2>4, <2>5
<1>3. \A u \in Goroutines : todo'[u] \in Seq(OpsOf(call'[u]))
  <2>1. << >> \in Seq(OpsOf(call'[t]))
    BY EmptySeq
  <2> QED
    BY <1>1, <1>2, <2>1 DEF TypeInv
<1>4. TypeInv'
  BY <1>1, <1>2, <1>3 DEF TypeInv
<1>5. t \in Active /\ Active' = Active \ {t}
  BY <1>1, <1>2 DEF Active
<1> QED
  BY <1>1, <1>2, <1>4, <1>5

LEMMA StutterFacts ==
    ASSUME UNCHANGED vars
    PROVE  /\ cnt' = cnt /\ buckets' = buckets /\ todo' = todo /\ view' = view /\ call' = call
           /\ reqs' = reqs /\ finished' = finished /\ overlap' = overlap /\ before' = before /\ dirty' = dirty
BY DEF vars, history

-----------------------------------------------------------------------------
(* The shapes. *)
LEMMA TailShape ==
    ASSUME NEW O, NEW s \in Seq(O), s # << >>
    PROVE  /\ RequestShape(s) => RequestShape(Tail(s))
           /\ SnapshotShape(s) => SnapshotShape(Tail(s)) /\ ~Has(Tail(s), WalkOps)
<1>1. /\ Tail(s) \in Seq(O)
      /\ \A M : Has(s, M) <=> Head(s) \in M \/ Has(Tail(s), M)
      /\ \A M : Once(s, M) => Once(Tail(s), M)
  BY TailMarks
<1>2. \A M, N : Precedes(s, M, N) => Precedes(Tail(s), M, N)
  BY TailPrecedes
<1>3. RequestShape(s) => RequestShape(Tail(s))
  BY <1>1, <1>2 DEF RequestShape
<1>4. ASSUME SnapshotShape(s) PROVE SnapshotShape(Tail(s)) /\ ~Has(Tail(s), WalkOps)
  <2>1. ~Has(Tail(s), WalkOps)
    BY <1>4 DEF SnapshotShape
  <2>2. ASSUME Tail(s) # << >> PROVE ~Has(Tail(Tail(s)), WalkOps)
    BY <1>1, <2>1, <2>2, TailMarks
  <2> QED
    BY <1>1, <1>2, <1>4, <2>1, <2>2 DEF SnapshotShape
<1> QED
  BY <1>3, <1>4

LEMMA PutMarks ==
    /\ \A op \in MaxOps \cup CasOps : op \notin FillOps /\ \A C : op \notin Adds(C)
    /\ \A op \in WalkOps \cup {Load("sum"), Load("max")} :
          \A c \in {"hits", "misses", "total"} : op # Load(c)
<1>1. /\ \A op \in MaxOps \cup CasOps : op.do \in {"max", "cas"}
      /\ \A op \in FillOps : op.do = "bucket"
      /\ \A op \in AddOps : op.do = "add"
      /\ \A op \in WalkOps : op.do = "walk"
      /\ \A c : Load(c).do = "load" /\ Load(c).at = c
  BY DEF MaxOps, CasOps, FillOps, AddOps, WalkOps, Load
<1> QED
  BY <1>1 DEF Adds

LEMMA PutShape ==
    ASSUME NEW O, NEW s \in Seq(O), NEW op \in O
    PROVE  /\ RequestShape(s) /\ op \in MaxOps \cup CasOps => RequestShape(<<op>> \o s)
           /\ SnapshotShape(s) /\ ~Has(s, WalkOps) /\ op \in WalkOps \cup {Load("sum"), Load("max")} =>
                 SnapshotShape(<<op>> \o s)
<1> DEFINE p == <<op>> \o s
<1>1. /\ p \in Seq(O) /\ p # << >> /\ Tail(p) = s
      /\ \A M : Has(p, M) <=> op \in M \/ Has(s, M)
      /\ \A M : Once(s, M) /\ (op \in M => ~Has(s, M)) => Once(p, M)
      /\ \A M, N : op \notin M /\ op \notin N /\ Precedes(s, M, N) => Precedes(p, M, N)
  BY ConsMarks
<1> HIDE DEF p
<1>2. ASSUME RequestShape(s), op \in MaxOps \cup CasOps PROVE RequestShape(p)
  BY <1>1, <1>2, PutMarks DEF RequestShape, Totals, Outcomes
<1>3. ASSUME SnapshotShape(s), ~Has(s, WalkOps), op \in WalkOps \cup {Load("sum"), Load("max")}
      PROVE  SnapshotShape(p)
  <2>1. \A c \in {"hits", "misses", "total"} : op \notin {Load(c)}
    BY <1>3, PutMarks
  <2> QED
    BY <1>1, <1>3, <2>1 DEF SnapshotShape
<1> QED
  BY <1>2, <1>3 DEF p

LEMMA ShapePreserved ==
    ASSUME TypeInv, ShapeInv, NEW t \in Goroutines, Call(t) \/ Step(t)
    PROVE  TypeInv' /\ ShapeInv'
<1>1. CASE Step(t) /\ ~Return(t)
  <2>1. TypeInv' /\ Frozen /\ todo[t] # << >>
    BY <1>1, StepType
  <2>2. todo[t] \in Seq(OpsOf(call[t]))
    BY DEF TypeInv
  <2>3. \/ Pops(t)
        \/ call[t] = "request" /\ \E op \in MaxOps \cup CasOps : op \in OpsOf(call[t]) /\ Puts(t, op)
        \/ call[t] = "snapshot" /\ \E op \in WalkOps \cup {Load("sum"), Load("max")} :
                                      op \in OpsOf(call[t]) /\ Puts(t, op)
    <3>0. cnt["max"] \in Nat /\ cnt["count"] \in Nat
      BY DEF TypeInv, Counters
    <3> DEFINE op == Head(todo[t])
    <3>1. CASE DoMax(t)
      <4>1. Doing(t, "max") /\ (Pops(t) \/ (~(op.n <= cnt["max"]) /\ Puts(t, Cas(op.n, cnt["max"]))))
        BY <3>1, StepFacts
      <4>2. call[t] = "request" /\ op.n \in Nat
        BY <4>1, OpFacts, OpTypes DEF Doing
      <4>3. ~(op.n <= cnt["max"]) => cnt["max"] < op.n
        BY <3>0, <4>2
      <4> QED
        BY <3>0, <4>1, <4>2, <4>3, PutOps
    <3>2. CASE DoCas(t)
      <4>1. Doing(t, "cas") /\ (Pops(t) \/ Puts(t, RaiseMax(op.n)))
        BY <3>2, StepFacts
      <4>2. call[t] = "request" /\ op.n \in Nat
        BY <4>1, OpFacts, OpTypes DEF Doing
      <4> QED
        BY <4>1, <4>2, PutOps, RaiseIs
    <3>3. CASE DoMean(t)
      <4>1. Doing(t, "mean") /\ (Pops(t) \/ Puts(t, Load("sum")))
        BY <3>3, StepFacts
      <4>2. call[t] = "snapshot"
        BY <4>1, OpFacts DEF Doing
      <4> QED
        BY <4>1, <4>2, PutOps
    <3>4. CASE DoRank(t)
      <4> DEFINE w == Walk(op.at, Target(op.percent, cnt["count"]), 0, 0)
      <4>1. Doing(t, "rank") /\ (Pops(t) \/ (cnt["count"] # 0 /\ Puts(t, w)))
        BY <3>4, StepFacts
      <4>2. op.at \in QuantileNames /\ op.percent = Percent(op.at) /\ call[t] = "snapshot"
        BY <4>1, OpFacts, OpTypes DEF Doing
      <4>3. cnt["count"] # 0 => w \in OpsOf(call[t]) /\ w \in WalkOps
        <5>1. 0 \in BucketSet
          BY SizeFacts DEF BucketSet
        <5> QED
          BY <3>0, <4>2, <5>1, TargetFacts, PutOps
      <4> QED
        BY <4>1, <4>2, <4>3
    <3>5. CASE DoWalk(t)
      <4> DEFINE w == Walk(op.at, op.target, op.i + 1, op.seen + buckets[op.i])
      <4>1. /\ Doing(t, "walk")
            /\ Pops(t) \/ Puts(t, Load("max")) \/ (op.i # numBuckets - 1 /\ Puts(t, w))
        BY <3>5, StepFacts
      <4>2. op \in WalkOps /\ call[t] = "snapshot"
        BY <4>1, OpFacts DEF Doing
      <4>3. op.i # numBuckets - 1 => w \in OpsOf(call[t]) /\ w \in WalkOps
        <5>1. op.at \in QuantileNames /\ op.target \in Nat /\ op.i \in BucketSet /\ op.seen \in Nat
          BY <4>2, OpTypes
        <5>2. op.seen + buckets[op.i] \in Nat
          BY <5>1 DEF TypeInv
        <5>3. op.i # numBuckets - 1 => op.i + 1 \in BucketSet
          BY <5>1, SizeFacts DEF BucketSet
        <5> QED
          BY <4>2, <5>1, <5>2, <5>3, PutOps
      <4> QED
        BY <4>1, <4>2, <4>3, PutOps
    <3>6. CASE DoAdd(t) \/ DoBucket(t) \/ DoZero(t) \/ DoEmpty(t) \/ DoLoad(t) \/ DoInstall(t) \/ DoPolicy(t)
      BY <3>6, StepFacts
    <3> QED
      BY <1>1, <3>1, <3>2, <3>3, <3>4, <3>5, <3>6 DEF Step
  <2>4. \A u \in Goroutines \ {t} : todo'[u] = todo[u]
    BY <2>3 DEF Pops, Puts, TypeInv
  <2>5. /\ Tail(todo[t]) \in Seq(OpsOf(call[t]))
        /\ call[t] = "request" => RequestShape(Tail(todo[t]))
        /\ call[t] = "snapshot" => SnapshotShape(Tail(todo[t])) /\ ~Has(Tail(todo[t]), WalkOps)
    BY <2>1, <2>2, TailMarks, TailShape DEF ShapeInv
  <2>6. todo = [u \in Goroutines |-> todo[u]]
    BY DEF TypeInv
  <2>7. CASE Pops(t)
    <3>1. todo'[t] = Tail(todo[t])
      BY <2>6, <2>7 DEF Pops
    <3> QED
      BY <2>1, <2>4, <2>5, <3>1 DEF ShapeInv, Frozen
  <2>8. CASE call[t] = "request" /\ \E op \in MaxOps \cup CasOps : op \in OpsOf(call[t]) /\ Puts(t, op)
    <3>1. PICK op \in MaxOps \cup CasOps : op \in OpsOf(call[t]) /\ Puts(t, op)
      BY <2>8
    <3>2. todo'[t] = <<op>> \o Tail(todo[t])
      BY <2>6, <3>1 DEF Puts
    <3>3. RequestShape(<<op>> \o Tail(todo[t]))
      BY <2>5, <2>8, <3>1, PutShape
    <3> QED
      BY <2>1, <2>4, <2>8, <3>2, <3>3 DEF ShapeInv, Frozen
  <2>9. CASE call[t] = "snapshot" /\ \E op \in WalkOps \cup {Load("sum"), Load("max")} :
                                        op \in OpsOf(call[t]) /\ Puts(t, op)
    <3>1. PICK op \in WalkOps \cup {Load("sum"), Load("max")} : op \in OpsOf(call[t]) /\ Puts(t, op)
      BY <2>9
    <3>2. todo'[t] = <<op>> \o Tail(todo[t])
      BY <2>6, <3>1 DEF Puts
    <3>3. SnapshotShape(<<op>> \o Tail(todo[t]))
      BY <2>5, <2>9, <3>1, PutShape
    <3> QED
      BY <2>1, <2>4, <2>9, <3>2, <3>3 DEF ShapeInv, Frozen
  <2> QED
    BY <2>1, <2>3, <2>7, <2>8, <2>9
<1>2. CASE Return(t)
  <2>1. /\ TypeInv' /\ call'[t] = "idle" /\ todo' = todo
        /\ \A u \in Goroutines \ {t} : call'[u] = call[u]
    BY <1>2, ReturnFacts
  <2> QED
    BY <2>1 DEF ShapeInv
<1>3. CASE Call(t)
  <2>1. CASE \E r \in Requests : BeginRequest(t, r)
    <3>1. PICK r \in Requests : BeginRequest(t, r)
      BY <2>1
    <3>2. /\ TypeInv' /\ call'[t] = "request" /\ todo'[t] = RecordRequest(r)
          /\ \A u \in Goroutines \ {t} : call'[u] = call[u] /\ todo'[u] = todo[u]
      BY <3>1, BeginRequestFacts
    <3>3. RequestShape(RecordRequest(r))
      BY RequestProgram
    <3> QED
      BY <3>2, <3>3 DEF ShapeInv
  <2>2. CASE BeginReset(t)
    <3>1. /\ TypeInv' /\ call'[t] = "reset"
          /\ \A u \in Goroutines \ {t} : call'[u] = call[u] /\ todo'[u] = todo[u]
      BY <2>2, BeginResetFacts
    <3> QED
      BY <3>1 DEF ShapeInv
  <2>3. CASE BeginSnapshot(t)
    <3>1. Snapshot \in Seq(OpsOf("snapshot")) /\ SnapshotShape(Snapshot)
      BY SnapshotProgram
    <3>2. /\ TypeInv' /\ call'[t] = "snapshot" /\ todo'[t] = Snapshot
          /\ \A u \in Goroutines \ {t} : call'[u] = call[u] /\ todo'[u] = todo[u]
      BY <2>3, <3>1, BeginReaderFacts DEF BeginSnapshot
    <3> QED
      BY <3>1, <3>2 DEF ShapeInv
  <2>4. CASE \E name \in OtherCalls : \E program \in Seq(OpsOf(name)) : BeginOther(t, name, program)
    <3>1. PICK name \in OtherCalls : \E program \in Seq(OpsOf(name)) : BeginOther(t, name, program)
      BY <2>4
    <3>2. PICK program \in Seq(OpsOf(name)) : BeginOther(t, name, program)
      BY <3>1
    <3>3. /\ TypeInv' /\ call'[t] = name
          /\ \A u \in Goroutines \ {t} : call'[u] = call[u] /\ todo'[u] = todo[u]
      BY <3>2, BeginReaderFacts DEF BeginOther
    <3>4. name # "request" /\ name # "snapshot"
      BY DEF OtherCalls
    <3> QED
      BY <3>3, <3>4 DEF ShapeInv
  <2> QED
    BY <1>3, <2>1, <2>2, <2>3, <2>4, CallKinds
<1> QED
  BY <1>1, <1>2, <1>3 DEF Step

(* The steps there are. *)
BeginReader(t) ==
    \E name \in OtherCalls \cup {"snapshot"} : \E program \in Seq(OpsOf(name)) :
        /\ Begin(t, name, program) /\ UNCHANGED <<reqs, finished, dirty>>
        /\ name = "snapshot" => program = Snapshot

LEMMA NextKinds ==
    ASSUME NEW t \in Goroutines, Call(t) \/ Step(t)
    PROVE  \/ \E r \in Requests : BeginRequest(t, r)
           \/ BeginReset(t) \/ BeginReader(t) \/ Return(t)
           \/ Step(t) /\ ~Return(t)
<1>1. BeginSnapshot(t) => BeginReader(t)
  BY SnapshotProgram DEF BeginSnapshot, BeginReader
<1>2. ASSUME NEW name \in OtherCalls, NEW program \in Seq(OpsOf(name)), BeginOther(t, name, program)
      PROVE  BeginReader(t)
  <2>1. name # "snapshot"
    BY DEF OtherCalls
  <2> QED
    BY <1>2, <2>1 DEF BeginOther, BeginReader
<1>3. Call(t) => (\E r \in Requests : BeginRequest(t, r)) \/ BeginReset(t) \/ BeginReader(t)
  BY <1>1, <1>2, CallKinds
<1> QED
  BY <1>3

(* The history. *)
LEMMA HistoryPreserved ==
    ASSUME TypeInv, HistoryInv, NEW t \in Goroutines, Call(t) \/ Step(t)
    PROVE  HistoryInv'
<1>0. /\ dirty \in Nat /\ Late \in SUBSET Goroutines /\ Recording \in SUBSET Goroutines
      /\ Late \subseteq Recording /\ Recording \subseteq Active /\ Resetting \subseteq Active
      /\ t \notin Active => t \notin Recording /\ t \notin Resetting /\ t \notin Late
  BY DEF TypeInv, Late, Recording, Resetting, Active
<1>1. /\ Resetting # {} => finished = 0 /\ \A u \in Active \ Resetting : overlap[u] = "reset"
      /\ \A x, u \in Active : overlap[x] = "none" => x = u
      /\ Cardinality(Late) <= dirty
      /\ Resetting # {} /\ dirty = 0 => reqs = [r \in Requests |-> 0]
  BY DEF HistoryInv
<1>2. CASE Step(t) /\ ~Return(t)
  <2>1. Frozen
    BY <1>2, StepType
  <2>2. Active' = Active /\ Resetting' = Resetting /\ Recording' = Recording /\ Late' = Late
    BY <2>1 DEF Frozen, Active, Resetting, Recording, Late
  <2> QED
    BY <2>1, <2>2 DEF HistoryInv, Frozen
<1>3. CASE \E r \in Requests : BeginRequest(t, r)
  <2>1. PICK r \in Requests : BeginRequest(t, r)
    BY <1>3
  <2>2. /\ TypeInv' /\ call[t] = "idle" /\ call'[t] = "request"
        /\ \A u \in Goroutines \ {t} : call'[u] = call[u]
        /\ t \notin Active /\ Active' = Active \cup {t}
        /\ \A u \in Active : (overlap'[u] = "reset" <=> overlap[u] = "reset") /\ overlap'[u] # "none"
        /\ overlap'[t] = "reset" <=> Resetting # {}
        /\ overlap'[t] = "none" => Active = {}
        /\ finished' = finished /\ dirty' = IF Resetting # {} THEN dirty + 1 ELSE dirty
    BY <2>1, BeginRequestFacts
  <2>3. Resetting' = Resetting /\ Recording' = Recording \cup {t}
    BY <2>2 DEF Resetting, Recording
  <2>4. Late' = IF Resetting # {} THEN Late \cup {t} ELSE Late
    BY <1>0, <2>2, <2>3 DEF Late
  <2>5. Cardinality(Late') <= dirty'
    <3>1. CASE Resetting # {}
      <4>1. Late' \in SUBSET Goroutines /\ Late' \ {t} = Late \ {t} /\ t \in Late' /\ t \notin Late
        BY <1>0, <2>2, <2>4, <3>1
      <4> DEFINE L == Late'
      <4> HIDE DEF L
      <4>2. Cardinality(L) = Cardinality(Late) + 1 /\ Cardinality(Late) \in Nat
        BY <1>0, <4>1, CardChange DEF L
      <4> QED
        BY <1>0, <1>1, <2>2, <3>1, <4>2 DEF L
    <3>2. CASE Resetting = {}
      BY <1>1, <2>2, <2>4, <3>2
    <3> QED
      BY <3>1, <3>2
  <2>6. Resetting' # {} => dirty' # 0
    BY <1>0, <2>2, <2>3
  <2>7. Resetting' # {} => finished' = 0 /\ \A u \in Active' \ Resetting' : overlap'[u] = "reset"
    BY <1>1, <2>2, <2>3
  <2>8. \A x, u \in Active' : overlap'[x] = "none" => x = u
    BY <2>2
  <2> QED
    BY <2>5, <2>6, <2>7, <2>8 DEF HistoryInv
<1>4. CASE BeginReset(t)
  <2>1. /\ TypeInv' /\ call[t] = "idle" /\ call'[t] = "reset"
        /\ \A u \in Goroutines \ {t} : call'[u] = call[u]
        /\ t \notin Active /\ Active' = Active \cup {t}
        /\ \A u \in Active : overlap'[u] = "reset"
        /\ overlap'[t] # "reset" /\ (overlap'[t] = "none" => Active = {})
        /\ reqs' = [r \in Requests |-> 0] /\ finished' = 0 /\ dirty' = Cardinality(Recording)
    BY <1>4, BeginResetFacts
  <2>2. Recording' = Recording /\ t \in Resetting'
    BY <2>1 DEF Recording, Resetting
  <2>3. Late' = Recording
    BY <1>0, <2>1, <2>2 DEF Late
  <2>4. Cardinality(Late') <= dirty'
    <3>1. Cardinality(Recording) \in Nat
      BY <1>0, CardChange
    <3> QED
      BY <2>1, <2>3, <3>1
  <2>5. \A x, u \in Active' : overlap'[x] = "none" => x = u
    BY <2>1
  <2> QED
    BY <2>1, <2>2, <2>4, <2>5 DEF HistoryInv
<1>5. CASE BeginReader(t)
  <2>1. PICK name \in OtherCalls \cup {"snapshot"} : \E program \in Seq(OpsOf(name)) :
           Begin(t, name, program) /\ UNCHANGED <<reqs, finished, dirty>>
    BY <1>5 DEF BeginReader
  <2>2. /\ call[t] = "idle" /\ call'[t] = name
        /\ \A u \in Goroutines \ {t} : call'[u] = call[u]
        /\ t \notin Active /\ Active' = Active \cup {t}
        /\ \A u \in Active : (overlap'[u] = "reset" <=> overlap[u] = "reset") /\ overlap'[u] # "none"
        /\ overlap'[t] = "reset" <=> Resetting # {}
        /\ overlap'[t] = "none" => Active = {}
        /\ reqs' = reqs /\ finished' = finished /\ dirty' = dirty
        /\ name # "request" /\ name # "reset"
    BY <2>1, BeginReaderFacts
  <2>3. Resetting' = Resetting /\ Recording' = Recording
    BY <2>2 DEF Resetting, Recording
  <2>4. Late' = Late
    BY <1>0, <2>2, <2>3 DEF Late
  <2>5. Resetting' # {} => finished' = 0 /\ \A u \in Active' \ Resetting' : overlap'[u] = "reset"
    BY <1>1, <2>2, <2>3
  <2>6. \A x, u \in Active' : overlap'[x] = "none" => x = u
    BY <2>2
  <2> QED
    BY <1>1, <2>2, <2>3, <2>4, <2>5, <2>6 DEF HistoryInv
<1>6. CASE Return(t)
  <2>1. /\ call[t] # "idle" /\ call'[t] = "idle"
        /\ \A u \in Goroutines \ {t} : call'[u] = call[u] /\ overlap'[u] = overlap[u]
        /\ t \in Active /\ Active' = Active \ {t}
        /\ finished' = IF call[t] = "request" /\ overlap[t] # "reset" THEN finished + 1 ELSE finished
        /\ reqs' = reqs /\ dirty' = dirty
    BY <1>6, ReturnFacts
  <2>2. Resetting' = Resetting \ {t} /\ Recording' = Recording \ {t}
    BY <2>1 DEF Resetting, Recording
  <2>3. Late' = Late \ {t}
    BY <1>0, <2>1, <2>2 DEF Late
  <2>4. Cardinality(Late') <= dirty'
    <3> DEFINE L == Late \ {t}
    <3>1. L \in SUBSET Goroutines /\ L \ {t} = Late \ {t} /\ t \notin L
      BY <1>0
    <3> HIDE DEF L
    <3>2. Cardinality(L) \in Nat /\ Cardinality(Late) \in Nat /\ Cardinality(L) <= Cardinality(Late)
      BY <1>0, <3>1, CardChange
    <3>3. Cardinality(Late') = Cardinality(L)
      BY <2>3 DEF L
    <3> QED
      BY <1>0, <1>1, <2>1, <3>2, <3>3
  <2>5. Resetting # {} => finished' = 0
    <3>1. call[t] = "request" /\ Resetting # {} => overlap[t] = "reset"
      BY <1>1, <2>1 DEF Resetting
    <3> QED
      BY <1>1, <2>1, <3>1
  <2>6. Resetting' # {} => finished' = 0 /\ \A u \in Active' \ Resetting' : overlap'[u] = "reset"
    BY <1>0, <1>1, <2>1, <2>2, <2>5 DEF Active
  <2>7. \A x, u \in Active' : overlap'[x] = "none" => x = u
    BY <1>1, <2>1 DEF Active
  <2> QED
    BY <1>1, <2>1, <2>2, <2>4, <2>6, <2>7 DEF HistoryInv
<1> QED
  BY <1>2, <1>3, <1>4, <1>5, <1>6, NextKinds

-----------------------------------------------------------------------------
(* The books, step by step. *)
LEMMA CellTypes ==
    ASSUME TypeInv, NEW K
    PROVE  /\ \A c \in Counters : cnt[c] \in Nat /\ Kept(K, c) \in Nat
           /\ \A b \in BucketSet : buckets[b] \in Nat /\ KeptBucket(K, b) \in Nat
BY DEF TypeInv, Kept, KeptBucket

LEMMA NewCellTypes ==
    ASSUME TypeInv', NEW K
    PROVE  /\ \A c \in Counters : cnt'[c] \in Nat /\ Kept(K, c)' \in Nat
           /\ \A b \in BucketSet : buckets'[b] \in Nat /\ KeptBucket(K, b)' \in Nat
BY DEF TypeInv, Kept, KeptBucket

LEMMA DriftTypes ==
    ASSUME TypeInv
    PROVE  /\ Past({}) = OnTime /\ Recording \in SUBSET Goroutines /\ OnTime \in SUBSET Goroutines
           /\ Late \in SUBSET Goroutines /\ finished \in Nat /\ dirty \in Nat
           /\ \A M : /\ Past(M) \in SUBSET Goroutines /\ Cardinality(Past(M)) \in Nat
                     /\ Behind(M) \in SUBSET Goroutines /\ Cardinality(Behind(M)) \in Nat
           /\ Cardinality(Recording) \in Nat /\ Cardinality(Late) \in Nat
<1>1. /\ Recording \in SUBSET Goroutines /\ OnTime \in SUBSET Goroutines /\ Late \in SUBSET Goroutines
      /\ \A M : Past(M) \in SUBSET Goroutines /\ Behind(M) \in SUBSET Goroutines
      /\ Past({}) = OnTime
  BY DEF Recording, OnTime, Late, Past, Behind, Has
<1>2. \A A \in SUBSET Goroutines : Cardinality(A) \in Nat
  BY CardChange
<1> QED
  BY <1>1, <1>2 DEF TypeInv

(* What every goroutine that records has left to count is what it was. *)
SameMarks ==
    \A u \in Recording : \A M \in SUBSET (AddOps \cup FillOps) :
        (Has(todo'[u], M) <=> Has(todo[u], M)) /\ Left(todo'[u], M) = Left(todo[u], M)

SameMaxima == \A u \in Recording, n \in Nat : Has(todo'[u], Raises(n)) <=> Has(todo[u], Raises(n))

SameHistory ==
    /\ Recording' = Recording /\ Late' = Late
    /\ reqs' = reqs /\ finished' = finished /\ dirty' = dirty

LEMMA SameSets ==
    ASSUME SameMarks, SameHistory
    PROVE  /\ \A M \in SUBSET (AddOps \cup FillOps) : Past(M)' = Past(M) /\ Behind(M)' = Behind(M)
           /\ Filled' = Filled
           /\ \A M \in SUBSET (AddOps \cup FillOps) : Owed(M)' = Owed(M)
           /\ \A S, w : Due(S, w)' = Due(S, w)
<1>0. OnTime' = OnTime /\ OnTime \subseteq Recording /\ Late \subseteq Recording
  BY DEF SameHistory, OnTime, Late
<1>1. ASSUME NEW M \in SUBSET (AddOps \cup FillOps) PROVE Past(M)' = Past(M) /\ Behind(M)' = Behind(M)
  BY <1>0 DEF SameMarks, SameHistory, Past, Behind
<1>2. Filled' = Filled
  <2>1. Adds({"count"}) \in SUBSET (AddOps \cup FillOps) /\ FillOps \in SUBSET (AddOps \cup FillOps)
    BY DEF Adds
  <2> QED
    BY <2>1 DEF Filled, SameMarks, SameHistory
<1>3. ASSUME NEW M \in SUBSET (AddOps \cup FillOps) PROVE Owed(M)' = Owed(M)
  <2>1. \A u \in Goroutines : Mine(u, M)' = Mine(u, M)
    BY DEF Mine, SameMarks, SameHistory, Recording
  <2> QED
    BY <2>1 DEF Owed
<1>4. \A S, w : Due(S, w)' = Due(S, w)
  BY DEF SameHistory, Due, Weighed
<1> QED
  BY <1>1, <1>2, <1>3, <1>4

(* The cells that K keeps, if only bytesFetched may have grown. *)
SameCells(K) ==
    /\ \A c \in FedCounters \ {"bytesFetched"} : Kept(K, c)' = Kept(K, c)
    /\ Kept(K, "bytesFetched")' >= Kept(K, "bytesFetched")
    /\ \A b \in BucketSet : KeptBucket(K, b)' = KeptBucket(K, b)

LEMMA SameBooks ==
    ASSUME TypeInv, TypeInv', SameMarks, SameHistory, NEW K, SameCells(K)
    PROVE  /\ DriftInv(K) => DriftInv(K)'
           /\ LedgerInv(K) => LedgerInv(K)'
           /\ FillInv(K) => FillInv(K)'
           /\ Kept(K, "max")' = Kept(K, "max") /\ SameMaxima /\ MaxInv(K) => MaxInv(K)'
<1>0. /\ Totals \in SUBSET (AddOps \cup FillOps) /\ Outcomes \in SUBSET (AddOps \cup FillOps)
      /\ {"total", "hits", "misses", "count"} \subseteq FedCounters \ {"bytesFetched"}
  BY DEF Totals, Outcomes, Adds, FedCounters
<1>1. DriftInv(K) => DriftInv(K)'
  BY <1>0, SameSets DEF DriftInv, Within, Done, SameCells, SameHistory
<1>2. ASSUME LedgerInv(K) PROVE LedgerInv(K)'
  <2>1. \A c \in FedCounters \ {"bytesFetched"} : Kept(K, c)' + Owed(Adds({c}))' = Due(Feeders(c), Weight(c))'
    BY <1>2, SameSets, MarkSets DEF LedgerInv, SameCells
  <2>2. Kept(K, "bytesFetched")' + Owed(Adds({"bytesFetched"}))' >= Due(MissSet, SizeOf)'
    <3> DEFINE k1 == Kept(K, "bytesFetched")
               k2 == Kept(K, "bytesFetched")'
               o == Owed(Adds({"bytesFetched"}))
               d == Due(MissSet, SizeOf)
    <3>1. "bytesFetched" \in Counters /\ Adds({"bytesFetched"}) \in SUBSET (AddOps \cup FillOps)
      BY DEF Counters, Adds
    <3>2. k1 \in Nat /\ k2 \in Nat /\ k2 >= k1 /\ k1 + o >= d
      BY <1>2, <3>1, CellTypes, NewCellTypes DEF LedgerInv, SameCells
    <3>3. o \in Int
      <4>1. \A u \in Goroutines : Mine(u, Adds({"bytesFetched"})) \in Nat
        BY <3>1, MineType
      <4>2. [u \in Goroutines |-> Mine(u, Adds({"bytesFetched"}))] \in [Goroutines -> Nat]
        BY <4>1
      <4>3. o \in Nat
        BY <4>2, CallsAssumption, SumNat DEF Owed
      <4> QED
        BY <4>3
    <3>4. d \in Int
      <4>1. MissSet \in SUBSET Requests /\ SizeOf \in [Requests -> Int]
        BY RequestsAssumption DEF MissSet, SizeOf
      <4> QED
        BY <4>1, DueType DEF TypeInv
    <3>5. Owed(Adds({"bytesFetched"}))' = o /\ Due(MissSet, SizeOf)' = d
      BY <3>1, SameSets
    <3> HIDE DEF k1, k2, o, d
    <3>6. k2 + o >= d
      BY <3>2, <3>3, <3>4
    <3> QED
      BY <3>5, <3>6 DEF k2
  <2>3. \A b \in BucketSet : KeptBucket(K, b)' + Owed(FillsOf(b))' = Due(InBucket(b), Ones)'
    BY <1>2, SameSets, MarkSets DEF LedgerInv, SameCells
  <2> QED
    BY <2>1, <2>2, <2>3 DEF LedgerInv
<1>3. ASSUME FillInv(K) PROVE FillInv(K)'
  <2>1. [b \in BucketSet |-> KeptBucket(K, b)'] = [b \in BucketSet |-> KeptBucket(K, b)]
    BY DEF SameCells
  <2>2. Filled' = Filled /\ Kept(K, "count")' = Kept(K, "count")
    BY <1>0, SameSets DEF SameCells
  <2> QED
    BY <1>3, <2>1, <2>2 DEF FillInv
<1>4. ASSUME Kept(K, "max")' = Kept(K, "max"), SameMaxima, MaxInv(K) PROVE MaxInv(K)'
  <2>1. \A r \in Observed : r.latency \in Nat
    BY RequestsAssumption DEF Observed
  <2>2. {r \in Observed : reqs'[r] > 0} = {r \in Observed : reqs[r] > 0} /\ Recording' = Recording
    BY DEF SameHistory
  <2> QED
    BY <1>4, <2>1, <2>2 DEF MaxInv, SameMaxima
<1> QED
  BY <1>1, <1>2, <1>3, <1>4

LEMMA KeeperFacts ==
    ASSUME NEW K \in Keepers
    PROVE  /\ K \subseteq Resetting /\ K \subseteq Goroutines
           /\ Resetting = {} => K = {}
           /\ Resetting # {} => \E u \in Resetting : K = {u}
BY DEF Keepers, Resetting

(* Nobody who records or resets has moved. *)
LEMMA OthersBooks ==
    ASSUME TypeInv, TypeInv', BookInv, SameHistory, Resetting' = Resetting,
           \A u \in Recording \cup Resetting : todo'[u] = todo[u],
           \A c \in Counters \ OtherCounters : cnt'[c] = cnt[c],
           cnt'["bytesFetched"] >= cnt["bytesFetched"], buckets' = buckets
    PROVE  BookInv'
<1>1. PICK K \in Keepers : Book(K)
  BY DEF BookInv
<1>2. K \subseteq Resetting /\ Keepers' = Keepers
  BY KeeperFacts DEF Keepers
<1>3. SameMarks /\ SameMaxima
  BY DEF SameMarks, SameMaxima
<1>4. /\ \A c : (\E u \in K : Has(todo'[u], {Zero(c)})) <=> (\E u \in K : Has(todo[u], {Zero(c)}))
      /\ \A b : (\E u \in K : Has(todo'[u], {Empty(b)})) <=> (\E u \in K : Has(todo[u], {Empty(b)}))
  BY <1>2
<1>5. SameCells(K) /\ Kept(K, "max")' = Kept(K, "max")
  <2>1. /\ FedCounters \ {"bytesFetched"} \subseteq Counters \ OtherCounters
        /\ "max" \in Counters \ OtherCounters
    BY DEF FedCounters, Counters, OtherCounters
  <2>2. /\ \A c \in FedCounters \ {"bytesFetched"} : Kept(K, c)' = Kept(K, c)
        /\ Kept(K, "max")' = Kept(K, "max")
    BY <1>4, <2>1 DEF Kept
  <2>3. Kept(K, "bytesFetched")' >= Kept(K, "bytesFetched")
    <3>1. (\E u \in K : Has(todo'[u], {Zero("bytesFetched")})) <=> (\E u \in K : Has(todo[u], {Zero("bytesFetched")}))
      BY <1>4
    <3> QED
      BY <3>1 DEF Kept
  <2>4. \A b \in BucketSet : KeptBucket(K, b)' = KeptBucket(K, b)
    BY <1>4 DEF KeptBucket
  <2> QED
    BY <2>2, <2>3, <2>4 DEF SameCells
<1>6. Book(K)'
  <2>1. dirty' = dirty
    BY DEF SameHistory
  <2> QED
    BY <1>1, <1>3, <1>5, <2>1, SameBooks DEF Book
<1> QED
  BY <1>2, <1>6 DEF BookInv

LEMMA FrozenHistory ==
    ASSUME Frozen
    PROVE  SameHistory /\ Resetting' = Resetting /\ Active' = Active
BY DEF Frozen, SameHistory, Recording, Late, Resetting, Active

(* The operations of a snapshot and of the calls that record no request. *)
LEMMA ReaderBooks ==
    ASSUME TypeInv, BookInv, NEW t \in Goroutines, Step(t), ~Return(t), call[t] \notin {"request", "reset"}
    PROVE  BookInv'
<1>1. TypeInv' /\ Frozen /\ todo[t] # << >>
  BY StepType
<1>2. SameHistory /\ Resetting' = Resetting
  BY <1>1, FrozenHistory
<1> DEFINE op == Head(todo[t])
<1>3. DoAdd(t) \/ DoLoad(t) \/ DoMean(t) \/ DoRank(t) \/ DoWalk(t) \/ DoInstall(t) \/ DoPolicy(t)
  <2>1. ~DoBucket(t) /\ ~DoMax(t) /\ ~DoCas(t) /\ ~DoZero(t) /\ ~DoEmpty(t)
    BY StepFacts, OpFacts DEF Doing
  <2> QED
    BY <2>1 DEF Step
<1>4. (\E o : Puts(t, o)) \/ Pops(t)
  BY <1>3, StepFacts
<1>5. \A u \in Goroutines \ {t} : todo'[u] = todo[u]
  BY <1>4 DEF Pops, Puts, TypeInv
<1>6. \A u \in Recording \cup Resetting : todo'[u] = todo[u]
  BY <1>5 DEF Recording, Resetting
<1>7. \/ Quiet
      \/ /\ op.at \in OtherCounters /\ op.n \in Nat /\ buckets' = buckets
         /\ cnt' = [cnt EXCEPT ![op.at] = cnt[op.at] + op.n]
  <2>1. CASE DoAdd(t)
    <3>1. Doing(t, "add") /\ buckets' = buckets /\ cnt' = [cnt EXCEPT ![op.at] = cnt[op.at] + op.n]
      BY <2>1, StepFacts
    <3>2. op \in AddOps /\ op.at \in OtherCounters
      BY <3>1, OpFacts DEF Doing
    <3> QED
      BY <3>1, <3>2, OpTypes
  <2>2. CASE ~DoAdd(t)
    BY <1>3, <2>2, StepFacts
  <2> QED
    BY <2>1, <2>2
<1>8. /\ \A c \in Counters \ OtherCounters : cnt'[c] = cnt[c]
      /\ cnt'["bytesFetched"] >= cnt["bytesFetched"] /\ buckets' = buckets
  <2>1. cnt \in [Counters -> Nat] /\ "bytesFetched" \in Counters
    BY DEF TypeInv, Counters
  <2> HIDE DEF op
  <2> QED
    BY <1>7, <2>1 DEF Quiet
<1> QED
  BY <1>1, <1>2, <1>6, <1>8, OthersBooks

LEMMA BeginReaderBooks ==
    ASSUME TypeInv, BookInv, NEW t \in Goroutines, BeginReader(t)
    PROVE  TypeInv' /\ BookInv'
<1>1. PICK name \in OtherCalls \cup {"snapshot"} : \E program \in Seq(OpsOf(name)) :
         Begin(t, name, program) /\ UNCHANGED <<reqs, finished, dirty>>
  BY DEF BeginReader
<1>2. /\ TypeInv' /\ call[t] = "idle" /\ call'[t] = name
      /\ \A u \in Goroutines \ {t} : call'[u] = call[u] /\ todo'[u] = todo[u]
      /\ cnt' = cnt /\ buckets' = buckets
      /\ \A u \in Active : (overlap'[u] = "reset" <=> overlap[u] = "reset")
      /\ reqs' = reqs /\ finished' = finished /\ dirty' = dirty
      /\ name # "request" /\ name # "reset"
  BY <1>1, BeginReaderFacts
<1>3. Resetting' = Resetting /\ Recording' = Recording /\ Recording \subseteq Active /\ t \notin Recording \cup Resetting
  BY <1>2 DEF Resetting, Recording, Active
<1>4. Late' = Late
  BY <1>2, <1>3 DEF Late
<1>5. \A u \in Recording \cup Resetting : todo'[u] = todo[u]
  BY <1>2, <1>3 DEF Recording, Resetting
<1>6. cnt'["bytesFetched"] >= cnt["bytesFetched"]
  BY <1>2 DEF TypeInv, Counters
<1> QED
  BY <1>2, <1>3, <1>4, <1>5, <1>6, OthersBooks DEF SameHistory

LEMMA StutterBooks ==
    ASSUME TypeInv, BookInv, UNCHANGED vars
    PROVE  TypeInv' /\ BookInv'
<1>1. /\ cnt' = cnt /\ buckets' = buckets /\ todo' = todo /\ view' = view /\ call' = call
      /\ reqs' = reqs /\ finished' = finished /\ overlap' = overlap /\ before' = before /\ dirty' = dirty
  BY StutterFacts
<1>2. TypeInv'
  BY <1>1 DEF TypeInv
<1>3. SameHistory /\ Resetting' = Resetting
  BY <1>1, FrozenHistory DEF Frozen
<1>4. cnt'["bytesFetched"] >= cnt["bytesFetched"]
  BY <1>1 DEF TypeInv, Counters
<1> QED
  BY <1>1, <1>2, <1>3, <1>4, OthersBooks

(* No request has been recorded since the last Reset and none is under way. *)
LEMMA FreshBooks ==
    ASSUME TypeInv', Recording' = {}, reqs' = [r \in Requests |-> 0], NEW L,
           \A c \in (FedCounters \ {"bytesFetched"}) \cup {"max"} : Kept(L, c)' = 0,
           \A b \in BucketSet : KeptBucket(L, b)' = 0
    PROVE  LedgerInv(L)' /\ MaxInv(L)' /\ FillInv(L)'
<1>1. \A M : Owed(M)' = 0
  <2> SUFFICES ASSUME NEW M PROVE Owed(M)' = 0
    OBVIOUS
  <2>1. \A u \in Goroutines : [v \in Goroutines |-> Mine(v, M)'][u] = 0
    BY DEF Recording, Mine
  <2> QED
    BY <2>1, CallsAssumption, SumOfZeros DEF Owed
<1>2. ASSUME NEW S \in SUBSET Requests, NEW w \in [Requests -> Int] PROVE Due(S, w)' = 0
  <2> DEFINE f == [r \in Requests |-> reqs'[r] * w[r]]
  <2>1. \A r \in S : f[r] = 0
    OBVIOUS
  <2>2. IsFiniteSet(S)
    BY RequestsAssumption, FS_Subset
  <2> HIDE DEF f
  <2>3. SumFunctionOnSet(f, S) = 0
    BY <2>1, <2>2, SumOfZeros
  <2> QED
    BY <2>3 DEF Due, Weighed, f
<1>3. /\ \A c \in FedCounters : Feeders(c) \in SUBSET Requests /\ Weight(c) \in [Requests -> Int]
      /\ \A b \in BucketSet : InBucket(b) \in SUBSET Requests
      /\ Ones \in [Requests -> Int] /\ SizeOf \in [Requests -> Int] /\ MissSet \in SUBSET Requests
  BY RequestsAssumption DEF Feeders, Weight, Ones, SizeOf, LatencyOf, MissSet, HitSet, Observed, InBucket
<1>4. LedgerInv(L)'
  <2>1. \A c \in FedCounters \ {"bytesFetched"} : Kept(L, c)' + Owed(Adds({c}))' = Due(Feeders(c), Weight(c))'
    <3> SUFFICES ASSUME NEW c \in FedCounters \ {"bytesFetched"}
                 PROVE  Kept(L, c)' + Owed(Adds({c}))' = Due(Feeders(c), Weight(c))'
      OBVIOUS
    <3>1. Kept(L, c)' = 0 /\ Owed(Adds({c}))' = 0 /\ Due(Feeders(c), Weight(c))' = 0
      BY <1>1, <1>2, <1>3
    <3> QED
      BY <3>1
  <2>2. Kept(L, "bytesFetched")' + Owed(Adds({"bytesFetched"}))' >= Due(MissSet, SizeOf)'
    <3>1. Kept(L, "bytesFetched")' \in Nat
      BY NewCellTypes DEF Counters
    <3>2. Owed(Adds({"bytesFetched"}))' = 0 /\ Due(MissSet, SizeOf)' = 0
      BY <1>1, <1>2, <1>3
    <3> QED
      BY <3>1, <3>2
  <2>3. \A b \in BucketSet : KeptBucket(L, b)' + Owed(FillsOf(b))' = Due(InBucket(b), Ones)'
    <3> SUFFICES ASSUME NEW b \in BucketSet PROVE KeptBucket(L, b)' + Owed(FillsOf(b))' = Due(InBucket(b), Ones)'
      OBVIOUS
    <3>1. KeptBucket(L, b)' = 0 /\ Owed(FillsOf(b))' = 0 /\ Due(InBucket(b), Ones)' = 0
      BY <1>1, <1>2, <1>3
    <3> QED
      BY <3>1
  <2> QED
    BY <2>1, <2>2, <2>3 DEF LedgerInv
<1>5. MaxInv(L)'
  <2>1. {r \in Observed : reqs'[r] > 0} = {}
    BY DEF Observed
  <2> QED
    BY <2>1 DEF MaxInv
<1>6. FillInv(L)'
  <2>1. Filled' = {} /\ Kept(L, "count")' = 0
    BY DEF Filled, FedCounters
  <2>2. Cardinality({}) = 0
    BY FS_EmptySet
  <2>3. IsFiniteSet(BucketSet)
    BY SizeFacts, FS_Interval DEF BucketSet
  <2> DEFINE f == [b \in BucketSet |-> KeptBucket(L, b)']
  <2>4. \A b \in BucketSet : f[b] = 0
    OBVIOUS
  <2> HIDE DEF f
  <2>5. SumFunctionOnSet(f, BucketSet) = 0
    BY <2>3, <2>4, SumOfZeros
  <2> QED
    BY <2>1, <2>2, <2>5 DEF FillInv, f
<1> QED
  BY <1>4, <1>5, <1>6

LEMMA ResettingFacts ==
    ASSUME TypeInv, HistoryInv, Resetting # {}
    PROVE  /\ finished = 0 /\ OnTime = {} /\ Late = Recording
           /\ \A M : Past(M) = {} /\ Done(M) = 0
           /\ dirty = 0 => Recording = {} /\ reqs = [r \in Requests |-> 0]
<1>1. finished = 0 /\ \A u \in Recording : overlap[u] = "reset"
  BY DEF HistoryInv, Recording, Resetting, Active
<1>2. OnTime = {} /\ Late = Recording
  BY <1>1 DEF OnTime, Late
<1>3. \A M : Past(M) = {} /\ Done(M) = 0
  BY <1>1, <1>2, FS_EmptySet DEF Past, Done
<1>4. ASSUME dirty = 0 PROVE Recording = {}
  <2>1. Cardinality(Recording) = 0 /\ IsFiniteSet(Recording)
    <3>1. Cardinality(Recording) <= 0
      BY <1>2, <1>4 DEF HistoryInv
    <3>2. IsFiniteSet(Recording)
      BY CallsAssumption, FS_Subset DEF Recording
    <3>3. Cardinality(Recording) \in Nat
      BY <3>2, FS_CardinalityType
    <3> QED
      BY <3>1, <3>2, <3>3
  <2> QED
    BY <2>1, FS_EmptySet
<1> QED
  BY <1>1, <1>2, <1>3, <1>4 DEF HistoryInv

(* While a reset runs, a cell may become zero. *)
LEMMA ResetBooks ==
    ASSUME TypeInv, TypeInv', HistoryInv, Resetting # {}, NEW K, Book(K), NEW L,
           SameHistory, \A u \in Recording : todo'[u] = todo[u],
           \A c \in Counters : Kept(L, c)' \in {Kept(K, c), 0},
           \A b \in BucketSet : KeptBucket(L, b)' \in {KeptBucket(K, b), 0}
    PROVE  Book(L)'
<1>1. /\ finished = 0 /\ \A M : Past(M) = {} /\ Done(M) = 0
      /\ dirty = 0 => Recording = {} /\ reqs = [r \in Requests |-> 0]
  BY ResettingFacts
<1>2. SameMarks
  BY DEF SameMarks
<1>3. /\ Totals \in SUBSET (AddOps \cup FillOps) /\ Outcomes \in SUBSET (AddOps \cup FillOps)
      /\ "total" \in Counters /\ "hits" \in Counters /\ "misses" \in Counters
  BY DEF Totals, Outcomes, Adds, Counters
<1>4. ASSUME NEW M \in {Totals, Outcomes}
      PROVE  Done(M)' = 0 /\ Behind(M)' = Behind(M) /\ Cardinality(Behind(M)) \in Nat
  <2>1. Past(M)' = Past(M) /\ Behind(M)' = Behind(M)
    BY <1>2, <1>3, SameSets
  <2>2. Done(M)' = Done(M)
    BY <2>1 DEF Done, SameHistory
  <2>3. Cardinality(Behind(M)) \in Nat
    BY DriftTypes
  <2> QED
    BY <1>1, <2>1, <2>2, <2>3
<1>5. DriftInv(L)'
  <2> DEFINE k1 == Kept(K, "total")
             k2 == Kept(L, "total")'
             h1 == Kept(K, "hits")
             h2 == Kept(L, "hits")'
             m1 == Kept(K, "misses")
             m2 == Kept(L, "misses")'
             b1 == Cardinality(Behind(Totals))
             b2 == Cardinality(Behind(Outcomes))
  <2>1. k1 \in Nat /\ h1 \in Nat /\ m1 \in Nat /\ k2 \in {k1, 0} /\ h2 \in {h1, 0} /\ m2 \in {m1, 0}
    BY <1>3, CellTypes
  <2>2. b1 \in Nat /\ b2 \in Nat /\ dirty \in Nat /\ dirty' = dirty
    BY <1>4, DriftTypes DEF SameHistory
  <2>3. k1 + b1 <= 0 + dirty /\ (h1 + m1) + b2 <= 0 + dirty
    BY <1>1 DEF Book, DriftInv, Within
  <2>4. /\ Done(Totals)' = 0 /\ Cardinality(Behind(Totals))' = b1
        /\ Done(Outcomes)' = 0 /\ Cardinality(Behind(Outcomes))' = b2
    BY <1>4
  <2> HIDE DEF k1, k2, h1, h2, m1, m2, b1, b2
  <2>5. /\ 0 <= k2 /\ k2 + b1 <= 0 + dirty
        /\ 0 <= h2 + m2 /\ (h2 + m2) + b2 <= 0 + dirty
    BY <2>1, <2>2, <2>3
  <2> QED
    BY <2>2, <2>4, <2>5 DEF DriftInv, Within, k2, h2, m2
<1>6. ASSUME dirty' = 0 PROVE LedgerInv(L)' /\ MaxInv(L)' /\ FillInv(L)'
  <2>1. dirty = 0 /\ Recording = {} /\ Recording' = {} /\ reqs = [r \in Requests |-> 0] /\ reqs' = reqs
    BY <1>1, <1>6 DEF SameHistory
  <2>2. LedgerInv(K) /\ MaxInv(K) /\ FillInv(K)
    BY <2>1 DEF Book
  <2>3. \A M : Owed(M) = 0
    BY <2>1, OwedNothing
  <2>4. ASSUME NEW c \in FedCounters \ {"bytesFetched"} PROVE Kept(K, c) = 0
    <3>1. Feeders(c) \in SUBSET Requests /\ Weight(c) \in [Requests -> Int] /\ c \in Counters
      BY RequestsAssumption, MarkSets DEF Feeders, Weight, Ones, SizeOf, LatencyOf, MissSet, HitSet, Observed
    <3>2. Due(Feeders(c), Weight(c)) = 0
      BY <2>1, <3>1, DueNothing
    <3>3. Kept(K, c) + Owed(Adds({c})) = Due(Feeders(c), Weight(c)) /\ Owed(Adds({c})) = 0 /\ Kept(K, c) \in Nat
      BY <2>2, <2>3, <3>1, CellTypes DEF LedgerInv
    <3> QED
      BY <3>2, <3>3
  <2>5. ASSUME NEW b \in BucketSet PROVE KeptBucket(K, b) = 0
    <3>1. InBucket(b) \in SUBSET Requests /\ Ones \in [Requests -> Int]
      BY DEF InBucket, Observed, Ones
    <3>2. Due(InBucket(b), Ones) = 0
      BY <2>1, <3>1, DueNothing
    <3>3. KeptBucket(K, b) + Owed(FillsOf(b)) = Due(InBucket(b), Ones) /\ Owed(FillsOf(b)) = 0 /\ KeptBucket(K, b) \in Nat
      BY <2>2, <2>3, CellTypes DEF LedgerInv
    <3> QED
      BY <3>2, <3>3
  <2>6. Kept(K, "max") = 0
    <3>1. {r \in Observed : reqs[r] > 0} = {}
      BY <2>1 DEF Observed
    <3> QED
      BY <2>2, <3>1 DEF MaxInv
  <2>7. \A c \in (FedCounters \ {"bytesFetched"}) \cup {"max"} : Kept(L, c)' = 0
    <3>1. (FedCounters \ {"bytesFetched"}) \cup {"max"} \subseteq Counters
      BY DEF FedCounters, Counters
    <3> QED
      BY <2>4, <2>6, <3>1
  <2>8. \A b \in BucketSet : KeptBucket(L, b)' = 0
    BY <2>5
  <2> QED
    BY <2>1, <2>7, <2>8, FreshBooks
<1> QED
  BY <1>5, <1>6 DEF Book

LEMMA ResetStepBooks ==
    ASSUME TypeInv, HistoryInv, BookInv, NEW t \in Goroutines, Step(t), ~Return(t), call[t] = "reset"
    PROVE  BookInv'
<1> DEFINE op == Head(todo[t])
<1>0. TypeInv' /\ Frozen /\ todo[t] # << >> /\ t \in Resetting
  BY StepType DEF Resetting
<1>1. SameHistory /\ Resetting' = Resetting
  BY <1>0, FrozenHistory
<1>2. PICK K \in Keepers : Book(K)
  BY DEF BookInv
<1>3. K \subseteq Goroutines /\ Keepers' = Keepers
  BY <1>1, KeeperFacts DEF Keepers
<1>4. DoZero(t) \/ DoEmpty(t)
  <2>1. /\ ~DoAdd(t) /\ ~DoBucket(t) /\ ~DoMax(t) /\ ~DoCas(t) /\ ~DoLoad(t) /\ ~DoMean(t)
        /\ ~DoRank(t) /\ ~DoWalk(t) /\ ~DoInstall(t) /\ ~DoPolicy(t)
    BY StepFacts, OpFacts DEF Doing, OtherCalls
  <2> QED
    BY <2>1 DEF Step
<1>5. Pops(t)
  BY <1>4, StepFacts
<1>6. todo'[t] = Tail(todo[t]) /\ \A u \in Goroutines \ {t} : todo'[u] = todo[u]
  BY <1>5 DEF Pops, TypeInv
<1>7. \A M : Has(todo[t], M) <=> op \in M \/ Has(todo'[t], M)
  BY <1>0, <1>6, TailMarks DEF TypeInv
<1>8. \A u \in Recording : todo'[u] = todo[u]
  BY <1>0, <1>6 DEF Recording, Resetting
<1>9. \A M : op \notin M => ((\E u \in K : Has(todo'[u], M)) <=> (\E u \in K : Has(todo[u], M)))
  BY <1>3, <1>6, <1>7
<1>10. /\ \A o \in ZeroOps : o = Zero(o.at) /\ o.at \in Counters
       /\ \A o \in EmptyOps : o = Empty(o.at) /\ o.at \in BucketSet
       /\ \A c, b : Zero(c) # Empty(b)
       /\ \A c, b : (Zero(c) = Zero(b) => c = b) /\ (Empty(c) = Empty(b) => c = b)
  BY DEF ZeroOps, EmptyOps, Zero, Empty
<1>11. CASE DoZero(t)
  <2>1. Doing(t, "zero") /\ buckets' = buckets /\ cnt' = [cnt EXCEPT ![op.at] = 0]
    BY <1>11, StepFacts
  <2>2. op = Zero(op.at) /\ op.at \in Counters
    BY <1>10, <2>1, OpFacts DEF Doing
  <2>3. cnt'[op.at] = 0 /\ \A c \in Counters \ {op.at} : cnt'[c] = cnt[c]
    BY <2>1, <2>2 DEF TypeInv
  <2> HIDE DEF op
  <2>4. ASSUME NEW c \in Counters PROVE Kept(K, c)' \in {Kept(K, c), 0}
    <3>1. CASE c = op.at
      BY <2>3, <3>1 DEF Kept
    <3>2. CASE c # op.at
      <4>1. op \notin {Zero(c)}
        BY <1>10, <2>2, <3>2
      <4>2. (\E u \in K : Has(todo'[u], {Zero(c)})) <=> (\E u \in K : Has(todo[u], {Zero(c)}))
        BY <1>9, <4>1
      <4> QED
        BY <2>3, <3>2, <4>2 DEF Kept
    <3> QED
      BY <3>1, <3>2
  <2>5. ASSUME NEW b \in BucketSet PROVE KeptBucket(K, b)' \in {KeptBucket(K, b), 0}
    <3>1. op \notin {Empty(b)}
      BY <1>10, <2>2
    <3>2. (\E u \in K : Has(todo'[u], {Empty(b)})) <=> (\E u \in K : Has(todo[u], {Empty(b)}))
      BY <1>9, <3>1
    <3> QED
      BY <2>1, <3>2 DEF KeptBucket
  <2>6. Book(K)'
    BY <1>0, <1>1, <1>2, <1>8, <2>4, <2>5, ResetBooks
  <2> QED
    BY <1>3, <2>6 DEF BookInv
<1>12. CASE DoEmpty(t)
  <2>1. Doing(t, "empty") /\ cnt' = cnt /\ buckets' = [buckets EXCEPT ![op.at] = 0]
    BY <1>12, StepFacts
  <2>2. op = Empty(op.at) /\ op.at \in BucketSet
    BY <1>10, <2>1, OpFacts DEF Doing
  <2>3. buckets'[op.at] = 0 /\ \A b \in BucketSet \ {op.at} : buckets'[b] = buckets[b]
    BY <2>1, <2>2 DEF TypeInv
  <2> HIDE DEF op
  <2>4. ASSUME NEW c \in Counters PROVE Kept(K, c)' \in {Kept(K, c), 0}
    <3>1. op \notin {Zero(c)}
      BY <1>10, <2>2
    <3>2. (\E u \in K : Has(todo'[u], {Zero(c)})) <=> (\E u \in K : Has(todo[u], {Zero(c)}))
      BY <1>9, <3>1
    <3> QED
      BY <2>1, <3>2 DEF Kept
  <2>5. ASSUME NEW b \in BucketSet PROVE KeptBucket(K, b)' \in {KeptBucket(K, b), 0}
    <3>1. CASE b = op.at
      BY <2>3, <3>1 DEF KeptBucket
    <3>2. CASE b # op.at
      <4>1. op \notin {Empty(b)}
        BY <1>10, <2>2, <3>2
      <4>2. (\E u \in K : Has(todo'[u], {Empty(b)})) <=> (\E u \in K : Has(todo[u], {Empty(b)}))
        BY <1>9, <4>1
      <4> QED
        BY <2>3, <3>2, <4>2 DEF KeptBucket
    <3> QED
      BY <3>1, <3>2
  <2>6. Book(K)'
    BY <1>0, <1>1, <1>2, <1>8, <2>4, <2>5, ResetBooks
  <2> QED
    BY <1>3, <2>6 DEF BookInv
<1> QED
  BY <1>4, <1>11, <1>12

LEMMA ResetReturnBooks ==
    ASSUME TypeInv, HistoryInv, BookInv, NEW t \in Goroutines, Return(t), call[t] = "reset"
    PROVE  BookInv'
<1>1. /\ TypeInv' /\ call'[t] = "idle" /\ todo[t] = << >> /\ todo' = todo
      /\ \A u \in Goroutines \ {t} : call'[u] = call[u] /\ overlap'[u] = overlap[u]
      /\ cnt' = cnt /\ buckets' = buckets /\ finished' = finished
      /\ reqs' = reqs /\ dirty' = dirty
  BY ReturnFacts
<1>2. Resetting' = Resetting \ {t} /\ Recording' = Recording /\ t \in Resetting /\ t \notin Recording
  BY <1>1 DEF Resetting, Recording
<1>3. Late' = Late
  BY <1>1, <1>2 DEF Late, Recording
<1>4. SameHistory
  BY <1>1, <1>2, <1>3 DEF SameHistory
<1>5. PICK K \in Keepers : Book(K)
  BY DEF BookInv
<1>6. PICK k \in Resetting : K = {k}
  BY <1>2, KeeperFacts
<1>7. \A M : ~Has(todo[t], M)
  BY <1>1, NoMarks
<1>8. PICK L \in Keepers' : L = K \/ k = t
  <2>1. CASE k # t
    BY <1>2, <1>6, <2>1 DEF Keepers
  <2>2. CASE k = t
    BY <2>2 DEF Keepers
  <2> QED
    BY <2>1, <2>2
<1>9. /\ \A c \in Counters : Kept(L, c)' \in {Kept(K, c), 0}
      /\ \A b \in BucketSet : KeptBucket(L, b)' \in {KeptBucket(K, b), 0}
  BY <1>1, <1>6, <1>7, <1>8 DEF Kept, KeptBucket
<1>10. Book(L)'
  BY <1>1, <1>2, <1>4, <1>5, <1>9, ResetBooks
<1> QED
  BY <1>8, <1>10 DEF BookInv

LEMMA BeginResetBooks ==
    ASSUME TypeInv, NEW t \in Goroutines, BeginReset(t)
    PROVE  BookInv'
<1> DEFINE L == {t}
<1>1. /\ TypeInv' /\ call[t] = "idle" /\ call'[t] = "reset" /\ todo'[t] = Reset
      /\ \A u \in Goroutines \ {t} : call'[u] = call[u] /\ todo'[u] = todo[u]
      /\ \A u \in Active : overlap'[u] = "reset"
      /\ reqs' = [r \in Requests |-> 0] /\ finished' = 0 /\ dirty' = Cardinality(Recording)
  BY BeginResetFacts
<1>2. Recording' = Recording /\ t \in Resetting' /\ Recording \subseteq Active
  BY <1>1 DEF Recording, Resetting, Active
<1>3. Late' = Recording /\ OnTime' = {}
  BY <1>1, <1>2 DEF Late, OnTime
<1>4. L \in Keepers'
  BY <1>2 DEF Keepers
<1>5. /\ \A c \in Counters : Kept(L, c)' = 0
      /\ \A b \in BucketSet : KeptBucket(L, b)' = 0
  BY <1>1, ResetProgram DEF Kept, KeptBucket
<1>6. ASSUME NEW M PROVE Done(M)' = 0 /\ Cardinality(Behind(M))' \in Nat /\ Cardinality(Behind(M))' <= dirty'
  <2>1. Past(M)' = {} /\ Behind(M)' \subseteq Recording
    BY <1>3 DEF Past, Behind
  <2>2. Done(M)' = 0
    BY <1>1, <2>1, FS_EmptySet DEF Done
  <2> DEFINE B == Behind(M)'
  <2>3. IsFiniteSet(Recording) /\ B \in SUBSET Recording
    BY <2>1, CallsAssumption, FS_Subset DEF Recording
  <2> HIDE DEF B
  <2>4. IsFiniteSet(B) /\ Cardinality(B) <= Cardinality(Recording) /\ Cardinality(B) \in Nat
    BY <2>3, FS_Subset, FS_CardinalityType
  <2> QED
    BY <1>1, <2>2, <2>4 DEF B
<1> HIDE DEF L
<1>7. DriftInv(L)'
  <2>1. dirty' \in Nat
    BY <1>1, DriftTypes
  <2>2. Kept(L, "total")' = 0 /\ Kept(L, "hits")' = 0 /\ Kept(L, "misses")' = 0
    BY <1>5 DEF Counters
  <2>3. \A M : Within(0, M)'
    <3> SUFFICES ASSUME NEW M PROVE Done(M)' <= 0 /\ 0 + Cardinality(Behind(M))' <= Done(M)' + dirty'
      BY DEF Within
    <3> QED
      BY <1>6, <2>1
  <2>4. Kept(L, "hits")' + Kept(L, "misses")' = 0
    BY <2>2
  <2> QED
    BY <2>2, <2>3, <2>4 DEF DriftInv, Within
<1>8. ASSUME dirty' = 0 PROVE LedgerInv(L)' /\ MaxInv(L)' /\ FillInv(L)'
  <2>1. Recording = {}
    <3>1. IsFiniteSet(Recording)
      BY CallsAssumption, FS_Subset DEF Recording
    <3> QED
      BY <1>1, <1>8, <3>1, FS_EmptySet
  <2>2. \A c \in (FedCounters \ {"bytesFetched"}) \cup {"max"} : Kept(L, c)' = 0
    BY <1>5 DEF FedCounters, Counters
  <2> QED
    BY <1>1, <1>2, <1>5, <2>1, <2>2, FreshBooks
<1> QED
  BY <1>4, <1>7, <1>8 DEF Book, BookInv

(* The sums are numbers. *)
LEMMA LedgerTypes ==
    ASSUME TypeInv
    PROVE  /\ \A M \in SUBSET (AddOps \cup FillOps) : Owed(M) \in Nat
           /\ \A c \in FedCounters : /\ Adds({c}) \in SUBSET (AddOps \cup FillOps)
                                     /\ Feeders(c) \in SUBSET Requests /\ Weight(c) \in [Requests -> Int]
                                     /\ Due(Feeders(c), Weight(c)) \in Int
           /\ \A b \in BucketSet : /\ FillsOf(b) \in SUBSET (AddOps \cup FillOps)
                                   /\ InBucket(b) \in SUBSET Requests /\ Due(InBucket(b), Ones) \in Int
           /\ Ones \in [Requests -> Int]
           /\ Feeders("bytesFetched") = MissSet /\ Weight("bytesFetched") = SizeOf
<1>1. ASSUME NEW M \in SUBSET (AddOps \cup FillOps) PROVE Owed(M) \in Nat
  <2>1. \A u \in Goroutines : Mine(u, M) \in Nat
    BY MineType
  <2>2. [u \in Goroutines |-> Mine(u, M)] \in [Goroutines -> Nat]
    BY <2>1
  <2> QED
    BY <2>2, CallsAssumption, SumNat DEF Owed
<1>2. /\ \A c \in FedCounters : /\ Adds({c}) \in SUBSET (AddOps \cup FillOps)
                                /\ Feeders(c) \in SUBSET Requests /\ Weight(c) \in [Requests -> Int]
      /\ \A b \in BucketSet : FillsOf(b) \in SUBSET (AddOps \cup FillOps) /\ InBucket(b) \in SUBSET Requests
      /\ Ones \in [Requests -> Int]
  BY RequestsAssumption, MarkSets
     DEF Feeders, Weight, Ones, SizeOf, LatencyOf, MissSet, HitSet, Observed, InBucket
<1>3. reqs \in [Requests -> Nat]
  BY DEF TypeInv
<1>4. /\ \A c \in FedCounters : Due(Feeders(c), Weight(c)) \in Int
      /\ \A b \in BucketSet : Due(InBucket(b), Ones) \in Int
  BY <1>2, <1>3, DueType
<1> QED
  BY <1>1, <1>2, <1>4 DEF Feeders, Weight

LEMMA BeginRequestBooks ==
    ASSUME TypeInv, BookInv, NEW t \in Goroutines, NEW r \in Requests, BeginRequest(t, r)
    PROVE  BookInv'
<1> DEFINE p == RecordRequest(r)
<1>1. /\ TypeInv' /\ call[t] = "idle" /\ call'[t] = "request" /\ todo'[t] = p
      /\ \A u \in Goroutines \ {t} : call'[u] = call[u] /\ todo'[u] = todo[u]
      /\ cnt' = cnt /\ buckets' = buckets /\ t \notin Active
      /\ \A u \in Active : (overlap'[u] = "reset" <=> overlap[u] = "reset")
      /\ overlap'[t] = "reset" <=> Resetting # {}
      /\ reqs' = [reqs EXCEPT ![r] = @ + 1] /\ finished' = finished
      /\ dirty' = IF Resetting # {} THEN dirty + 1 ELSE dirty
  BY BeginRequestFacts
<1>2. /\ Resetting' = Resetting /\ Recording' = Recording \cup {t} /\ t \notin Recording /\ t \notin Resetting
      /\ Recording \subseteq Active /\ Recording \subseteq Goroutines
  BY <1>1 DEF Recording, Resetting, Active
<1>3. /\ Late' = IF Resetting # {} THEN Late \cup {t} ELSE Late
      /\ OnTime' = IF Resetting # {} THEN OnTime ELSE OnTime \cup {t}
      /\ Late \subseteq Recording /\ OnTime \subseteq Recording
  BY <1>1, <1>2 DEF Late, OnTime
<1>4. PICK K \in Keepers : Book(K)
  BY DEF BookInv
<1>5. K \subseteq Resetting /\ Keepers' = Keepers
  BY <1>2, KeeperFacts DEF Keepers
<1>6. /\ \A c : Kept(K, c)' = Kept(K, c)
      /\ \A b : KeptBucket(K, b)' = KeptBucket(K, b)
  <2>1. \A u \in K : todo'[u] = todo[u]
    BY <1>1, <1>2, <1>5 DEF Resetting
  <2> QED
    BY <1>1, <2>1 DEF Kept, KeptBucket
<1>7. /\ Has(p, Totals) /\ Has(p, Outcomes)
      /\ \A c \in FedCounters : Left(p, Adds({c})) = Share(r, Feeders(c), Weight(c))
      /\ \A i \in BucketSet : Left(p, FillsOf(i)) = Share(r, InBucket(i), Ones)
      /\ \A m : Has(p, Raises(m)) <=> r \in Observed /\ r.latency = m
      /\ Has(p, Adds({"count"})) => Has(p, FillOps)
  BY RequestProgram
<1> HIDE DEF p
<1>8. ASSUME NEW M, Has(p, M), NEW v, Within(v, M), v \in Int PROVE Within(v, M)'
  <2>1. Past(M)' = Past(M)
    BY <1>1, <1>2, <1>3, <1>8 DEF Past
  <2>2. Done(M)' = Done(M) /\ Done(M) \in Int
    BY <1>1, <2>1, DriftTypes DEF Done
  <2>3. Behind(M)' = IF Resetting # {} THEN Behind(M) \cup {t} ELSE Behind(M)
    BY <1>1, <1>2, <1>3, <1>8 DEF Behind
  <2>4. Behind(M) \in SUBSET Goroutines /\ t \notin Behind(M) /\ Cardinality(Behind(M)) \in Nat /\ dirty \in Nat
    BY <1>2, <1>3, DriftTypes DEF Behind
  <2>5. Cardinality(Behind(M) \cup {t}) = Cardinality(Behind(M)) + 1
    BY <2>4, CardChange
  <2>6. Done(M) <= v /\ v + Cardinality(Behind(M)) <= Done(M) + dirty
    BY <1>8 DEF Within
  <2>7. v + Cardinality(Behind(M))' <= Done(M) + dirty'
    <3>1. CASE Resetting # {}
      <4>1. Cardinality(Behind(M))' = Cardinality(Behind(M)) + 1 /\ dirty' = dirty + 1
        BY <1>1, <2>3, <2>5, <3>1
      <4> QED
        BY <1>8, <2>2, <2>4, <2>6, <4>1
    <3>2. CASE Resetting = {}
      BY <1>1, <2>3, <2>6, <3>2
    <3> QED
      BY <3>1, <3>2
  <2> QED
    BY <2>2, <2>6, <2>7 DEF Within
<1>9. DriftInv(K)'
  <2>1. /\ Kept(K, "total") \in Int /\ Kept(K, "hits") + Kept(K, "misses") \in Int
    BY CellTypes DEF Counters
  <2>2. Within(Kept(K, "total"), Totals) /\ Within(Kept(K, "hits") + Kept(K, "misses"), Outcomes)
    BY <1>4 DEF Book, DriftInv
  <2> DEFINE a == Kept(K, "total")
             b == Kept(K, "hits") + Kept(K, "misses")
  <2> HIDE DEF a, b
  <2>3. \A v, M : Within(v, M)' <=> (Done(M)' <= v /\ v + Cardinality(Behind(M))' <= Done(M)' + dirty')
    BY DEF Within
  <2>4. /\ Done(Totals)' <= a /\ a + Cardinality(Behind(Totals))' <= Done(Totals)' + dirty'
        /\ Done(Outcomes)' <= b /\ b + Cardinality(Behind(Outcomes))' <= Done(Outcomes)' + dirty'
    <3>1. ASSUME NEW M, Has(p, M), NEW v, Within(v, M), v \in Int
          PROVE  Done(M)' <= v /\ v + Cardinality(Behind(M))' <= Done(M)' + dirty'
      BY <1>8, <3>1 DEF Within
    <3> QED
      BY <1>7, <2>1, <2>2, <3>1 DEF a, b
  <2>5. a = Kept(K, "total")' /\ b = Kept(K, "hits")' + Kept(K, "misses")'
    BY <1>6 DEF a, b
  <2> QED
    BY <2>4, <2>5 DEF DriftInv, Within
<1>10. ASSUME dirty' = 0 PROVE LedgerInv(K)' /\ MaxInv(K)' /\ FillInv(K)'
  <2>0. dirty = 0 /\ Resetting = {} /\ LedgerInv(K) /\ MaxInv(K) /\ FillInv(K) /\ reqs \in [Requests -> Nat]
    <3>1. dirty \in Nat
      BY DEF TypeInv
    <3>2. dirty = 0 /\ Resetting = {}
      BY <1>1, <1>10, <3>1
    <3> QED
      BY <1>4, <3>2 DEF Book, TypeInv
  <2>1. ASSUME NEW M \in SUBSET (AddOps \cup FillOps) PROVE Owed(M)' = Owed(M) + Left(p, M) /\ Left(p, M) \in Nat
    <3>1. Owed(M)' = Owed(M) + Mine(t, M)' - Mine(t, M) /\ Owed(M) \in Nat
      BY <1>1, OwedChanges
    <3>2. Mine(t, M)' = Left(p, M) /\ Mine(t, M) = 0
      BY <1>1 DEF Mine
    <3>3. Left(p, M) \in Nat
      BY RequestProgram, LeftFacts DEF p
    <3> QED
      BY <3>1, <3>2, <3>3
  <2>2. ASSUME NEW S \in SUBSET Requests, NEW w \in [Requests -> Int] PROVE Due(S, w)' = Due(S, w) + Share(r, S, w)
    BY <1>1, <2>0, DueBump
  <2>3. ASSUME NEW c \in FedCounters \ {"bytesFetched"}
        PROVE  Kept(K, c)' + Owed(Adds({c}))' = Due(Feeders(c), Weight(c))'
    <3> DEFINE k == Kept(K, c)
               o == Owed(Adds({c}))
               d == Due(Feeders(c), Weight(c))
               x == Left(p, Adds({c}))
    <3>1. /\ k \in Nat /\ o \in Nat /\ d \in Int /\ x \in Nat /\ k + o = d
          /\ Owed(Adds({c}))' = o + x /\ Due(Feeders(c), Weight(c))' = d + x /\ Kept(K, c)' = k
      BY <1>6, <1>7, <2>0, <2>1, <2>2, CellTypes, LedgerTypes, MarkSets DEF LedgerInv
    <3> HIDE DEF k, o, d, x
    <3> QED
      BY <3>1
  <2>4. Kept(K, "bytesFetched")' + Owed(Adds({"bytesFetched"}))' >= Due(MissSet, SizeOf)'
    <3> DEFINE k == Kept(K, "bytesFetched")
               o == Owed(Adds({"bytesFetched"}))
               d == Due(MissSet, SizeOf)
               x == Left(p, Adds({"bytesFetched"}))
    <3>0. "bytesFetched" \in FedCounters
      BY DEF FedCounters
    <3>1. /\ k \in Nat /\ o \in Nat /\ d \in Int /\ x \in Nat /\ k + o >= d
          /\ Owed(Adds({"bytesFetched"}))' = o + x /\ Due(MissSet, SizeOf)' = d + x
          /\ Kept(K, "bytesFetched")' = k
      BY <1>6, <1>7, <2>0, <2>1, <2>2, <3>0, CellTypes, LedgerTypes, MarkSets DEF LedgerInv
    <3> HIDE DEF k, o, d, x
    <3> QED
      BY <3>1
  <2>5. ASSUME NEW b \in BucketSet PROVE KeptBucket(K, b)' + Owed(FillsOf(b))' = Due(InBucket(b), Ones)'
    <3> DEFINE k == KeptBucket(K, b)
               o == Owed(FillsOf(b))
               d == Due(InBucket(b), Ones)
               x == Left(p, FillsOf(b))
    <3>1. /\ k \in Nat /\ o \in Nat /\ d \in Int /\ x \in Nat /\ k + o = d
          /\ Owed(FillsOf(b))' = o + x /\ Due(InBucket(b), Ones)' = d + x /\ KeptBucket(K, b)' = k
      BY <1>6, <1>7, <2>0, <2>1, <2>2, CellTypes, LedgerTypes DEF LedgerInv
    <3> HIDE DEF k, o, d, x
    <3> QED
      BY <3>1
  <2>6. MaxInv(K)'
    <3> DEFINE seen == {q \in Observed : reqs[q] > 0}
               later == {q \in Observed : reqs'[q] > 0}
    <3>0. Observed \subseteq Requests
      BY DEF Observed
    <3>1. seen \subseteq later /\ later \subseteq seen \cup {r} /\ (r \in Observed => r \in later)
      BY <1>1, <2>0, <3>0
    <3>2. /\ Kept(K, "max") \in {0} \cup {q.latency : q \in seen}
          /\ \A q \in seen : q.latency <= Kept(K, "max") \/ \E u \in Recording : Has(todo[u], Raises(q.latency))
          /\ \A u \in Recording, n \in Nat : Has(todo[u], Raises(n)) => \E q \in seen : q.latency = n
      BY <2>0 DEF MaxInv
    <3>3. \A u \in Recording : u \in Recording' /\ todo'[u] = todo[u]
      BY <1>1, <1>2
    <3> HIDE DEF seen
    <3>4. \A q \in later : q.latency <= Kept(K, "max")' \/ \E u \in Recording' : Has(todo'[u], Raises(q.latency))
      <4> SUFFICES ASSUME NEW q \in later
                   PROVE  q.latency <= Kept(K, "max")' \/ \E u \in Recording' : Has(todo'[u], Raises(q.latency))
        OBVIOUS
      <4>1. CASE q \in seen
        BY <1>6, <3>2, <3>3, <4>1
      <4>2. CASE q = r
        <5>1. Has(todo'[t], Raises(q.latency)) /\ t \in Recording'
          BY <1>1, <1>2, <1>7, <4>2
        <5> QED
          BY <5>1
      <4> QED
        BY <3>1, <4>1, <4>2
    <3>5. \A u \in Recording', n \in Nat : Has(todo'[u], Raises(n)) => \E q \in later : q.latency = n
      <4> SUFFICES ASSUME NEW u \in Recording', NEW n \in Nat, Has(todo'[u], Raises(n))
                   PROVE  \E q \in later : q.latency = n
        OBVIOUS
      <4> HIDE DEF later
      <4>1. CASE u \in Recording
        BY <3>1, <3>2, <3>3, <4>1
      <4>2. CASE u = t
        BY <1>1, <1>7, <3>1, <4>2
      <4> QED
        BY <1>2, <4>1, <4>2
    <3>6. Kept(K, "max")' \in {0} \cup {q.latency : q \in later}
      <4> HIDE DEF later
      <4> QED
        BY <1>6, <3>1, <3>2
    <3> QED
      BY <3>4, <3>5, <3>6 DEF MaxInv
  <2>7. FillInv(K)'
    <3>1. Filled' = Filled
      BY <1>1, <1>2, <1>7 DEF Filled
    <3>2. [b \in BucketSet |-> KeptBucket(K, b)'] = [b \in BucketSet |-> KeptBucket(K, b)]
      BY <1>6
    <3> QED
      BY <1>6, <2>0, <3>1, <3>2 DEF FillInv
  <2> QED
    BY <2>3, <2>4, <2>5, <2>6, <2>7 DEF LedgerInv
<1> QED
  BY <1>4, <1>5, <1>9, <1>10 DEF Book, BookInv

LEMMA ReturnRequestBooks ==
    ASSUME TypeInv, BookInv, NEW t \in Goroutines, Return(t), call[t] = "request"
    PROVE  BookInv'
<1>1. /\ TypeInv' /\ call'[t] = "idle" /\ todo[t] = << >> /\ todo' = todo
      /\ \A u \in Goroutines \ {t} : call'[u] = call[u] /\ overlap'[u] = overlap[u]
      /\ cnt' = cnt /\ buckets' = buckets
      /\ finished' = IF overlap[t] # "reset" THEN finished + 1 ELSE finished
      /\ reqs' = reqs /\ dirty' = dirty
  BY ReturnFacts
<1>2. Resetting' = Resetting /\ Recording' = Recording \ {t} /\ t \in Recording /\ t \notin Resetting
  BY <1>1 DEF Resetting, Recording
<1>3. Late' = Late \ {t} /\ OnTime' = OnTime \ {t} /\ (t \in OnTime <=> overlap[t] # "reset")
  BY <1>1, <1>2 DEF Late, OnTime, Recording
<1>4. \A M : ~Has(todo[t], M)
  BY <1>1, NoMarks
<1>5. PICK K \in Keepers : Book(K)
  BY DEF BookInv
<1>6. Keepers' = Keepers
  BY <1>2 DEF Keepers
<1>7. /\ \A c : Kept(K, c)' = Kept(K, c)
      /\ \A b : KeptBucket(K, b)' = KeptBucket(K, b)
  BY <1>1 DEF Kept, KeptBucket
<1>8. \A M : Done(M)' = Done(M) /\ Behind(M)' = Behind(M)
  <2> SUFFICES ASSUME NEW M PROVE Done(M)' = Done(M) /\ Behind(M)' = Behind(M)
    OBVIOUS
  <2>1. Behind(M)' = Behind(M)
    BY <1>1, <1>3, <1>4 DEF Behind
  <2>2. Past(M)' = Past(M) \ {t} /\ (t \in Past(M) <=> overlap[t] # "reset")
    BY <1>1, <1>3, <1>4 DEF Past
  <2>3. Past(M) \in SUBSET Goroutines /\ Cardinality(Past(M)) \in Nat /\ finished \in Nat
    BY DriftTypes
  <2> DEFINE A == Past(M)
             B == Past(M)'
  <2>4. A \in SUBSET Goroutines /\ B = A \ {t} /\ (t \in A <=> overlap[t] # "reset") /\ Cardinality(A) \in Nat
    BY <2>2, <2>3
  <2> HIDE DEF A, B
  <2>5. CASE overlap[t] # "reset"
    <3>1. Cardinality(B) = Cardinality(A) - 1
      BY <2>4, <2>5, CardChange
    <3>2. finished' = finished + 1
      BY <1>1, <2>5
    <3>3. finished' + Cardinality(B) = finished + Cardinality(A)
      BY <2>3, <2>4, <3>1, <3>2
    <3> QED
      BY <2>1, <3>3 DEF Done, A, B
  <2>6. CASE overlap[t] = "reset"
    <3>1. B = A /\ finished' = finished
      BY <1>1, <2>4, <2>6
    <3> QED
      BY <2>1, <3>1 DEF Done, A, B
  <2> QED
    BY <2>5, <2>6
<1>9. DriftInv(K) => DriftInv(K)'
  BY <1>1, <1>7, <1>8 DEF DriftInv, Within
<1>10. ASSUME NEW M \in SUBSET (AddOps \cup FillOps) PROVE Owed(M)' = Owed(M)
  <2>1. \A u \in Goroutines : Mine(u, M)' = Mine(u, M)
    <3> SUFFICES ASSUME NEW u \in Goroutines PROVE Mine(u, M)' = Mine(u, M)
      OBVIOUS
    <3>1. CASE u = t
      <4>1. Left(todo[t], M) = 0
        BY <1>4, LeftFacts DEF TypeInv
      <4> QED
        BY <1>1, <3>1, <4>1 DEF Mine
    <3>2. CASE u # t
      BY <1>1, <3>2 DEF Mine
    <3> QED
      BY <3>1, <3>2
  <2> QED
    BY <2>1 DEF Owed
<1>11. \A S, w : Due(S, w)' = Due(S, w)
  BY <1>1 DEF Due, Weighed
<1>12. LedgerInv(K) => LedgerInv(K)'
  <2>1. "bytesFetched" \in FedCounters
    BY DEF FedCounters
  <2> QED
    BY <1>7, <1>10, <1>11, <2>1, LedgerTypes DEF LedgerInv
<1>13. MaxInv(K) => MaxInv(K)'
  <2>1. \A u \in Recording : \A M : Has(todo[u], M) => u \in Recording'
    BY <1>2, <1>4
  <2> QED
    BY <1>1, <1>2, <1>7, <2>1 DEF MaxInv
<1>14. FillInv(K) => FillInv(K)'
  <2>1. Filled' = Filled
    BY <1>1, <1>2, <1>4 DEF Filled
  <2>2. [b \in BucketSet |-> KeptBucket(K, b)'] = [b \in BucketSet |-> KeptBucket(K, b)]
    BY <1>7
  <2> QED
    BY <1>7, <2>1, <2>2 DEF FillInv
<1> QED
  BY <1>1, <1>5, <1>6, <1>9, <1>12, <1>13, <1>14 DEF Book, BookInv

LEMMA ReturnBooks ==
    ASSUME TypeInv, HistoryInv, BookInv, NEW t \in Goroutines, Return(t)
    PROVE  BookInv'
<1>1. CASE call[t] \notin {"request", "reset"}
  <2>1. /\ TypeInv' /\ call'[t] = "idle" /\ todo' = todo
        /\ \A u \in Goroutines \ {t} : call'[u] = call[u] /\ overlap'[u] = overlap[u]
        /\ cnt' = cnt /\ buckets' = buckets /\ finished' = finished
        /\ reqs' = reqs /\ dirty' = dirty
    BY <1>1, ReturnFacts
  <2>2. Resetting' = Resetting /\ Recording' = Recording /\ t \notin Recording
    BY <1>1, <2>1 DEF Resetting, Recording
  <2>3. Late' = Late
    BY <2>1, <2>2 DEF Late, Recording
  <2>4. cnt'["bytesFetched"] >= cnt["bytesFetched"]
    BY <2>1 DEF TypeInv, Counters
  <2> QED
    BY <2>1, <2>2, <2>3, <2>4, OthersBooks DEF SameHistory
<1> QED
  BY <1>1, ReturnRequestBooks, ResetReturnBooks

(* A request that met no reset runs beside none; if no request met one,    *)
(* no reset runs beside a request at all.                                  *)
LEMMA RequestAlone ==
    ASSUME TypeInv, HistoryInv, NEW t \in Goroutines, call[t] = "request"
    PROVE  /\ t \in Recording
           /\ t \in OnTime => Resetting = {}
           /\ dirty = 0 => t \in OnTime /\ Resetting = {} /\ Late = {}
<1>1. t \in Recording /\ t \in Active /\ t \notin Resetting
  BY DEF Recording, Active, Resetting
<1>2. t \in OnTime => Resetting = {}
  BY <1>1 DEF HistoryInv, OnTime, Late
<1>3. ASSUME dirty = 0 PROVE Late = {}
  <2>1. IsFiniteSet(Late) /\ Cardinality(Late) \in Nat /\ Cardinality(Late) <= 0
    BY <1>3, CallsAssumption, FS_Subset, FS_CardinalityType DEF Late, Recording, HistoryInv
  <2>2. Cardinality(Late) = 0
    BY <2>1
  <2> QED
    BY <2>1, <2>2, FS_EmptySet
<1> QED
  BY <1>1, <1>2, <1>3 DEF OnTime

LEMMA KeptNothing ==
    ASSUME NEW K, K = {}
    PROVE  /\ \A c : Kept(K, c) = cnt[c] /\ Kept(K, c)' = cnt'[c]
           /\ \A b : KeptBucket(K, b) = buckets[b] /\ KeptBucket(K, b)' = buckets'[b]
BY DEF Kept, KeptBucket

(* Raising the maximum. *)
LEMMA MaxBooks ==
    ASSUME TypeInv, HistoryInv, BookInv, NEW t \in Goroutines, DoMax(t) \/ DoCas(t)
    PROVE  BookInv'
<1> DEFINE op == Head(todo[t])
           s == Tail(todo[t])
<1>0. Step(t) /\ ~Return(t)
  <2>1. todo[t] # << >>
    BY StepFacts DEF Doing
  <2> QED
    BY <2>1 DEF Step, Return
<1>1. TypeInv' /\ Frozen /\ todo[t] # << >>
  BY <1>0, StepType
<1>2. op \in MaxOps \cup CasOps /\ call[t] = "request" /\ op.n \in Nat
  <2>1. op.do = "max" \/ op.do = "cas"
    BY StepFacts DEF Doing
  <2> QED
    BY <1>1, <2>1, OpFacts, OpTypes
<1>3. SameHistory /\ Resetting' = Resetting /\ t \in Recording
  BY <1>1, <1>2, FrozenHistory, RequestAlone
<1>4. PICK K \in Keepers : Book(K)
  BY DEF BookInv
<1>5. K \subseteq Resetting /\ Keepers' = Keepers /\ t \notin K
  BY <1>2, <1>3, KeeperFacts DEF Keepers, Resetting
<1>6. /\ todo[t] \in Seq(OpsOf("request")) /\ s \in Seq(OpsOf("request"))
      /\ \A M : Has(todo[t], M) <=> op \in M \/ Has(s, M)
  BY <1>1, <1>2, TailMarks DEF TypeInv
<1>7. /\ buckets' = buckets
      /\ \/ /\ Pops(t)
            /\ \/ cnt' = cnt /\ op.n <= cnt["max"]
               \/ op \in CasOps /\ cnt["max"] = op.cur /\ cnt' = [cnt EXCEPT !["max"] = op.n]
         \/ /\ cnt' = cnt
            /\ \E o \in OpsOf("request") \cap (MaxOps \cup CasOps) : o.n = op.n /\ Puts(t, o)
  <2>0. cnt["max"] \in Nat
    BY DEF TypeInv, Counters
  <2>1. CASE DoMax(t)
    <3>1. /\ Quiet
          /\ \/ op.n <= cnt["max"] /\ Pops(t)
             \/ ~(op.n <= cnt["max"]) /\ Puts(t, Cas(op.n, cnt["max"]))
      BY <2>1, StepFacts
    <3>2. ~(op.n <= cnt["max"]) =>
             Cas(op.n, cnt["max"]) \in OpsOf("request") \cap (MaxOps \cup CasOps) /\ Cas(op.n, cnt["max"]).n = op.n
      <4>1. ~(op.n <= cnt["max"]) => cnt["max"] < op.n
        BY <1>2, <2>0
      <4> QED
        BY <1>2, <2>0, <4>1, PutOps DEF Cas
    <3> QED
      BY <3>1, <3>2 DEF Quiet
  <2>2. CASE DoCas(t)
    <3>1. /\ Doing(t, "cas") /\ buckets' = buckets
          /\ \/ cnt["max"] = op.cur /\ Pops(t) /\ cnt' = [cnt EXCEPT !["max"] = op.n]
             \/ Puts(t, RaiseMax(op.n)) /\ cnt' = cnt
      BY <2>2, StepFacts
    <3>2. op \in CasOps
      BY <3>1, OpFacts DEF Doing
    <3>3. RaiseMax(op.n) \in OpsOf("request") \cap (MaxOps \cup CasOps) /\ RaiseMax(op.n).n = op.n
      BY <1>2, PutOps, RaiseIs DEF RaiseMax
    <3> QED
      BY <3>1, <3>2, <3>3
  <2> QED
    BY <2>1, <2>2
<1>8. \A u \in Goroutines \ {t} : todo'[u] = todo[u]
  BY <1>7 DEF Pops, Puts, TypeInv
<1>9. \A M \in SUBSET (AddOps \cup FillOps) : \A o \in MaxOps \cup CasOps : o \notin M
  BY PutMarks DEF Adds, AddOps, MaxOps, CasOps, FillOps
<1>10. /\ Pops(t) => todo'[t] = s
       /\ \A o : Puts(t, o) => todo'[t] = <<o>> \o s
  BY DEF Pops, Puts, TypeInv
<1> HIDE DEF op, s
<1>11. ASSUME NEW M \in SUBSET (AddOps \cup FillOps)
       PROVE  (Has(todo'[t], M) <=> Has(todo[t], M)) /\ Left(todo'[t], M) = Left(todo[t], M)
  <2>1. (Has(s, M) <=> Has(todo[t], M)) /\ Left(s, M) = Left(todo[t], M)
    <3>1. op \notin M
      BY <1>2, <1>9
    <3>2. Left(s, M) = Left(todo[t], M)
      BY <1>1, <1>6, <3>1, LeftTail DEF op, s
    <3> QED
      BY <1>6, <3>1, <3>2
  <2>2. CASE Pops(t)
    BY <1>10, <2>1, <2>2
  <2>3. CASE \E o \in OpsOf("request") \cap (MaxOps \cup CasOps) : Puts(t, o)
    <3>1. PICK o \in OpsOf("request") \cap (MaxOps \cup CasOps) : Puts(t, o)
      BY <2>3
    <3>2. o \notin M
      BY <1>9
    <3>3. (Has(<<o>> \o s, M) <=> Has(s, M)) /\ Left(<<o>> \o s, M) = Left(s, M)
      BY <1>6, <3>2, ConsMarks, LeftCons
    <3> QED
      BY <1>10, <2>1, <3>1, <3>3
  <2> QED
    BY <1>7, <2>2, <2>3
<1>12. SameMarks
  BY <1>8, <1>11 DEF SameMarks, Recording
<1>13. \A u \in K : todo'[u] = todo[u]
  BY <1>5, <1>8 DEF Resetting
<1>14. SameCells(K)
  <2>1. \A c \in FedCounters : cnt'[c] = cnt[c]
    BY <1>7 DEF FedCounters, TypeInv, Counters
  <2>2. "bytesFetched" \in FedCounters /\ cnt["bytesFetched"] \in Nat
    BY DEF FedCounters, TypeInv, Counters
  <2>3. \A c \in FedCounters : Kept(K, c)' = Kept(K, c)
    BY <1>13, <2>1 DEF Kept
  <2>4. \A b \in BucketSet : KeptBucket(K, b)' = KeptBucket(K, b)
    BY <1>7, <1>13 DEF KeptBucket
  <2>5. Kept(K, "bytesFetched") \in Nat
    BY CellTypes DEF Counters
  <2> QED
    BY <2>2, <2>3, <2>4, <2>5 DEF SameCells
<1>15. ASSUME dirty' = 0, MaxInv(K) PROVE MaxInv(K)'
  <2>1. Resetting = {} /\ K = {}
    <3>1. dirty = 0
      BY <1>1, <1>15 DEF Frozen
    <3> QED
      BY <1>2, <1>5, <3>1, RequestAlone
  <2>2. Kept(K, "max") = cnt["max"] /\ Kept(K, "max")' = cnt'["max"] /\ cnt["max"] \in Nat
    BY <2>1, KeptNothing DEF TypeInv, Counters
  <2> DEFINE seen == {r \in Observed : reqs[r] > 0}
  <2>3. /\ cnt["max"] \in {0} \cup {r.latency : r \in seen}
        /\ \A r \in seen : r.latency <= cnt["max"] \/ \E u \in Recording : Has(todo[u], Raises(r.latency))
        /\ \A u \in Recording, n \in Nat : Has(todo[u], Raises(n)) => \E r \in seen : r.latency = n
    BY <1>15, <2>2 DEF MaxInv
  <2>4. \A r \in seen : r.latency \in Nat
    BY RequestsAssumption DEF Observed
  <2> HIDE DEF seen
  <2>5. /\ \A o \in MaxOps \cup CasOps : \A n : o \in Raises(n) <=> o.n = n
        /\ Has(todo[t], Raises(op.n))
    BY <1>2, <1>6 DEF Raises
  <2>6. CASE Pops(t) /\ (\/ cnt' = cnt /\ op.n <= cnt["max"]
                         \/ op \in CasOps /\ cnt["max"] = op.cur /\ cnt' = [cnt EXCEPT !["max"] = op.n])
    <3>1. cnt'["max"] \in Nat /\ cnt["max"] <= cnt'["max"] /\ op.n <= cnt'["max"] /\ cnt'["max"] \in {cnt["max"], op.n}
      <4>1. CASE cnt' = cnt /\ op.n <= cnt["max"]
        BY <2>2, <4>1
      <4>2. CASE op \in CasOps /\ cnt["max"] = op.cur /\ cnt' = [cnt EXCEPT !["max"] = op.n]
        <5>1. op.cur < op.n /\ cnt'["max"] = op.n
          BY <4>2, OpTypes DEF TypeInv, Counters
        <5> QED
          BY <1>2, <2>2, <4>2, <5>1
      <4> QED
        BY <2>6, <4>1, <4>2
    <3>2. \A n : n # op.n => (Has(todo'[t], Raises(n)) <=> Has(todo[t], Raises(n)))
      BY <1>2, <1>6, <1>10, <2>5, <2>6
    <3>3. \A n : Has(todo'[t], Raises(n)) => Has(todo[t], Raises(n))
      BY <1>6, <1>10, <2>6
    <3>4. cnt'["max"] \in {0} \cup {r.latency : r \in seen}
      BY <1>2, <1>3, <2>3, <2>5, <3>1
    <3>5. ASSUME NEW r \in seen
          PROVE  r.latency <= cnt'["max"] \/ \E u \in Recording : Has(todo'[u], Raises(r.latency))
      <4>1. CASE r.latency <= cnt["max"] \/ r.latency = op.n
        BY <1>2, <2>2, <2>4, <3>1, <4>1
      <4>2. CASE r.latency # op.n /\ \E u \in Recording : Has(todo[u], Raises(r.latency))
        <5>1. PICK u \in Recording : Has(todo[u], Raises(r.latency))
          BY <4>2
        <5>2. Has(todo'[u], Raises(r.latency))
          BY <1>8, <3>2, <4>2, <5>1 DEF Recording
        <5> QED
          BY <5>1, <5>2
      <4> QED
        BY <2>3, <4>1, <4>2
    <3>6. \A u \in Recording, n \in Nat : Has(todo'[u], Raises(n)) => \E r \in seen : r.latency = n
      BY <1>8, <2>3, <3>3 DEF Recording
    <3>7. Recording' = Recording /\ reqs' = reqs
      BY <1>3 DEF SameHistory
    <3> QED
      BY <2>2, <3>4, <3>5, <3>6, <3>7 DEF MaxInv, seen
  <2>7. CASE cnt' = cnt /\ \E o \in OpsOf("request") \cap (MaxOps \cup CasOps) : o.n = op.n /\ Puts(t, o)
    <3>1. PICK o \in OpsOf("request") \cap (MaxOps \cup CasOps) : o.n = op.n /\ Puts(t, o)
      BY <2>7
    <3>2. \A n : Has(todo'[t], Raises(n)) <=> Has(todo[t], Raises(n))
      <4> SUFFICES ASSUME NEW n PROVE Has(todo'[t], Raises(n)) <=> Has(todo[t], Raises(n))
        OBVIOUS
      <4>1. Has(<<o>> \o s, Raises(n)) <=> o \in Raises(n) \/ Has(s, Raises(n))
        BY <1>6, ConsMarks
      <4> QED
        BY <1>2, <1>6, <1>10, <2>5, <3>1, <4>1
    <3>3. SameMaxima
      BY <1>8, <3>2 DEF SameMaxima, Recording
    <3>4. Kept(K, "max")' = Kept(K, "max")
      BY <2>2, <2>7
    <3> QED
      BY <1>1, <1>3, <1>12, <1>14, <1>15, <3>3, <3>4, SameBooks
  <2> QED
    BY <1>7, <2>6, <2>7
<1>16. DriftInv(K)' /\ (dirty' = 0 => LedgerInv(K)' /\ FillInv(K)')
  BY <1>1, <1>3, <1>4, <1>12, <1>14, SameBooks DEF Book, SameHistory
<1>17. dirty' = dirty
  BY <1>3 DEF SameHistory
<1> QED
  BY <1>4, <1>5, <1>15, <1>16, <1>17 DEF Book, BookInv

LEMMA SameMaximum ==
    ASSUME TypeInv, SameHistory, SameMaxima, NEW K, Kept(K, "max")' = Kept(K, "max"), MaxInv(K)
    PROVE  MaxInv(K)'
<1>1. \A r \in Observed : r.latency \in Nat
  BY RequestsAssumption DEF Observed
<1>2. {r \in Observed : reqs'[r] > 0} = {r \in Observed : reqs[r] > 0} /\ Recording' = Recording
  BY DEF SameHistory
<1> QED
  BY <1>1, <1>2 DEF MaxInv, SameMaxima

(* A request adds to a counter or fills a bucket. *)
Counting(t) == Step(t) /\ call[t] = "request" /\ todo[t] # << >> /\ Frozen /\ Pops(t)
               /\ Head(todo[t]) \in AddOps \cup FillOps

LEMMA CountingFacts ==
    ASSUME TypeInv, TypeInv', ShapeInv, NEW t \in Goroutines, Counting(t)
    PROVE  /\ SameHistory /\ Resetting' = Resetting /\ Keepers' = Keepers /\ t \in Recording /\ t \notin Resetting
           /\ \A u \in Goroutines \ {t} : todo'[u] = todo[u] /\ call'[u] = call[u]
           /\ RequestShape(todo[t])
           /\ \A M : /\ Has(todo[t], M) <=> Head(todo[t]) \in M \/ Has(todo'[t], M)
                     /\ Once(todo[t], M) /\ Head(todo[t]) \in M => ~Has(todo'[t], M)
           /\ \A M, N : Precedes(todo[t], M, N) /\ Head(todo[t]) \in N => ~Has(todo[t], M)
           /\ SameMaxima
<1>1. /\ call[t] = "request" /\ todo[t] # << >> /\ Frozen /\ Pops(t) /\ Head(todo[t]) \in AddOps \cup FillOps
  BY DEF Counting
<1>2. SameHistory /\ Resetting' = Resetting
  BY <1>1, FrozenHistory
<1>3. Keepers' = Keepers /\ t \in Recording /\ t \notin Resetting /\ RequestShape(todo[t])
  BY <1>1, <1>2 DEF Keepers, Recording, Resetting, ShapeInv
<1>4. todo'[t] = Tail(todo[t]) /\ \A u \in Goroutines \ {t} : todo'[u] = todo[u] /\ call'[u] = call[u]
  BY <1>1 DEF Pops, TypeInv, Frozen
<1>5. todo[t] \in Seq(OpsOf(call[t]))
  BY DEF TypeInv
<1>6. \A M : /\ Has(todo[t], M) <=> Head(todo[t]) \in M \/ Has(todo'[t], M)
             /\ Once(todo[t], M) /\ Head(todo[t]) \in M => ~Has(todo'[t], M)
  BY <1>1, <1>4, <1>5, TailMarks
<1>7. \A M, N : Precedes(todo[t], M, N) /\ Head(todo[t]) \in N => ~Has(todo[t], M)
  BY <1>1, <1>5, TailPrecedes
<1>8. \A n : Head(todo[t]) \notin Raises(n)
  BY <1>1 DEF Raises, AddOps, FillOps, MaxOps, CasOps
<1>9. SameMaxima
  BY <1>4, <1>6, <1>8 DEF SameMaxima, Recording
<1> QED
  BY <1>2, <1>3, <1>4, <1>6, <1>7, <1>9

LEMMA CountingOwed ==
    ASSUME TypeInv, TypeInv', ShapeInv, NEW t \in Goroutines, Counting(t),
           NEW M \in SUBSET (AddOps \cup FillOps)
    PROVE  /\ Owed(M) \in Nat /\ Owed(M)' \in Nat
           /\ Head(todo[t]) \notin M => Owed(M)' = Owed(M)
           /\ Head(todo[t]) \in M /\ Once(todo[t], M) => Owed(M)' = Owed(M) - Amount(Head(todo[t]))
<1>1. Owed(M)' = Owed(M) + Mine(t, M)' - Mine(t, M) /\ Owed(M) \in Nat /\ Owed(M)' \in Nat
  BY CountingFacts, OwedChanges
<1>2. call[t] = "request" /\ call' = call /\ todo[t] # << >> /\ todo'[t] = Tail(todo[t])
  BY DEF Counting, Frozen, Pops, TypeInv
<1>3. Mine(t, M) = Left(todo[t], M) /\ Mine(t, M)' = Left(Tail(todo[t]), M)
  BY <1>2 DEF Mine
<1>4. todo[t] \in Seq(OpsOf(call[t]))
  BY DEF TypeInv
<1>5. /\ Head(todo[t]) \notin M => Left(Tail(todo[t]), M) = Left(todo[t], M)
      /\ Head(todo[t]) \in M /\ Once(todo[t], M) =>
            Left(todo[t], M) = Amount(Head(todo[t])) /\ Left(Tail(todo[t]), M) = 0
  BY <1>2, <1>4, LeftTail
<1>6. Left(todo[t], M) \in Nat
  BY <1>4, LeftFacts
<1> QED
  BY <1>1, <1>3, <1>5, <1>6

LEMMA CountingDrift ==
    ASSUME TypeInv, TypeInv', ShapeInv, NEW t \in Goroutines, Counting(t), NEW M,
           NEW v \in Nat, Within(v, M), NEW w \in Nat,
           \/ Head(todo[t]) \notin M /\ w = v
           \/ Head(todo[t]) \in M /\ Once(todo[t], M) /\ t \in OnTime /\ w = v + 1
           \/ Head(todo[t]) \in M /\ Once(todo[t], M) /\ t \in Late /\ w \in {v, v + 1}
    PROVE  Done(M)' <= w /\ w + Cardinality(Behind(M))' <= Done(M)' + dirty'
<1> DEFINE op == Head(todo[t])
           P == Past(M)
           Q == Past(M)'
           B == Behind(M)
           C == Behind(M)'
<1>1. /\ Recording' = Recording /\ Late' = Late /\ OnTime' = OnTime /\ finished' = finished /\ dirty' = dirty
      /\ t \in Recording
  BY CountingFacts DEF SameHistory, OnTime
<1>2. /\ \A u \in Goroutines \ {t} : todo'[u] = todo[u]
      /\ Has(todo[t], M) <=> op \in M \/ Has(todo'[t], M)
      /\ Once(todo[t], M) /\ op \in M => ~Has(todo'[t], M)
  BY CountingFacts
<1>3. /\ P \in SUBSET Goroutines /\ Q \in SUBSET Goroutines /\ B \in SUBSET Goroutines /\ C \in SUBSET Goroutines
      /\ Q \ {t} = P \ {t} /\ C \ {t} = B \ {t}
  BY <1>1, <1>2 DEF Past, Behind, OnTime, Late, Recording
<1>4. /\ t \in P <=> t \in OnTime /\ ~Has(todo[t], M)
      /\ t \in Q <=> t \in OnTime /\ ~Has(todo'[t], M)
      /\ t \in B <=> t \in Late /\ Has(todo[t], M)
      /\ t \in C <=> t \in Late /\ Has(todo'[t], M)
  BY <1>1 DEF Past, Behind
<1>5. t \in OnTime => t \notin Late
  BY DEF OnTime
<1>6. /\ Done(M) = finished + Cardinality(P) /\ Done(M)' = finished + Cardinality(Q)
      /\ Done(M) <= v /\ v + Cardinality(B) <= Done(M) + dirty
      /\ Cardinality(C) = Cardinality(Behind(M))'
  BY <1>1 DEF Done, Within
<1>7. finished \in Nat /\ dirty \in Nat
  BY DEF TypeInv
<1> HIDE DEF op, P, Q, B, C
<1>8. Cardinality(P) \in Nat /\ Cardinality(B) \in Nat
  BY <1>3, CardChange
<1>9. CASE op \notin M /\ w = v
  <2>1. (t \in Q <=> t \in P) /\ (t \in C <=> t \in B)
    BY <1>2, <1>4, <1>9
  <2>2. Q = P /\ C = B
    BY <1>3, <2>1
  <2> QED
    BY <1>1, <1>6, <1>7, <1>8, <1>9, <2>2
<1>10. CASE op \in M /\ Once(todo[t], M) /\ t \in OnTime /\ w = v + 1
  <2>1. t \notin P /\ t \in Q /\ t \notin B /\ t \notin C
    BY <1>2, <1>4, <1>5, <1>10
  <2>2. Cardinality(Q) = Cardinality(P) + 1
    BY <1>3, <2>1, CardChange
  <2>3. B = C
    BY <1>3, <2>1
  <2> QED
    BY <1>1, <1>6, <1>7, <1>8, <1>10, <2>2, <2>3
<1>11. CASE op \in M /\ Once(todo[t], M) /\ t \in Late /\ w \in {v, v + 1}
  <2>1. t \notin P /\ t \notin Q /\ t \in B /\ t \notin C
    BY <1>2, <1>4, <1>5, <1>11
  <2>2. Cardinality(C) = Cardinality(B) - 1
    BY <1>3, <2>1, CardChange
  <2>3. P = Q
    BY <1>3, <2>1
  <2> QED
    BY <1>1, <1>6, <1>7, <1>8, <1>11, <2>2, <2>3
<1> QED
  BY <1>9, <1>10, <1>11 DEF op

(* The books of a request that adds to a counter. *)
LEMMA AddDrift ==
    ASSUME TypeInv, TypeInv', ShapeInv, HistoryInv, NEW t \in Goroutines, Counting(t),
           NEW op \in AddOps, op = Head(todo[t]), op.at \in FedCounters,
           buckets' = buckets, cnt' = [cnt EXCEPT ![op.at] = cnt[op.at] + op.n],
           NEW K \in Keepers, DriftInv(K)
    PROVE  DriftInv(K)'
<1>1. K \subseteq Resetting /\ t \notin K /\ t \in Recording /\ \A u \in K : todo'[u] = todo[u]
  BY CountingFacts, KeeperFacts DEF Resetting
<1>2. op.at \in Counters /\ op.n \in Nat /\ (op.at \in UnitCounters => op.n = 1)
  BY OpTypes DEF AddOps
<1>3. /\ \A c \in Counters \ {op.at} : cnt'[c] = cnt[c]
      /\ cnt'[op.at] = cnt[op.at] + op.n
  BY <1>2 DEF TypeInv
<1>4. \A c \in Counters \ {op.at} : Kept(K, c)' = Kept(K, c)
  BY <1>1, <1>3 DEF Kept
<1>5. Kept(K, op.at)' \in {Kept(K, op.at), Kept(K, op.at) + op.n}
  BY <1>1, <1>3 DEF Kept
<1>6. t \in OnTime => Kept(K, op.at)' = Kept(K, op.at) + op.n
  <2>1. ASSUME t \in OnTime PROVE K = {}
    BY <1>1, <2>1, RequestAlone, KeeperFacts DEF Counting
  <2> QED
    BY <1>3, <2>1, KeptNothing
<1>7. t \in OnTime \/ t \in Late
  BY <1>1 DEF OnTime
<1>8. /\ Once(todo[t], Totals) /\ Once(todo[t], Outcomes)
  <2>1. RequestShape(todo[t]) /\ "total" \in FedCounters
    BY CountingFacts DEF FedCounters
  <2> QED
    BY <2>1 DEF RequestShape, Totals
<1>9. /\ op \in Totals <=> op.at = "total"
      /\ op \in Outcomes <=> op.at \in {"hits", "misses"}
  BY DEF Totals, Outcomes, Adds
<1>10. {"total", "hits", "misses"} \subseteq Counters \cap UnitCounters
  BY DEF Counters, UnitCounters
<1> DEFINE v1 == Kept(K, "total")
           w1 == Kept(K, "total")'
           v2 == Kept(K, "hits") + Kept(K, "misses")
           w2 == Kept(K, "hits")' + Kept(K, "misses")'
<1>11. v1 \in Nat /\ w1 \in Nat /\ v2 \in Nat /\ w2 \in Nat
  BY <1>10, CellTypes, NewCellTypes
<1>12. Within(v1, Totals) /\ Within(v2, Outcomes)
  BY DEF DriftInv
<1>13. \/ op \notin Totals /\ w1 = v1
       \/ op \in Totals /\ Once(todo[t], Totals) /\ t \in OnTime /\ w1 = v1 + 1
       \/ op \in Totals /\ Once(todo[t], Totals) /\ t \in Late /\ w1 \in {v1, v1 + 1}
  BY <1>2, <1>4, <1>5, <1>6, <1>7, <1>8, <1>9, <1>10
<1>14. \/ op \notin Outcomes /\ w2 = v2
       \/ op \in Outcomes /\ Once(todo[t], Outcomes) /\ t \in OnTime /\ w2 = v2 + 1
       \/ op \in Outcomes /\ Once(todo[t], Outcomes) /\ t \in Late /\ w2 \in {v2, v2 + 1}
  <2> DEFINE h == Kept(K, "hits")
             m == Kept(K, "misses")
             hh == Kept(K, "hits")'
             mm == Kept(K, "misses")'
  <2>1. h \in Nat /\ m \in Nat
    BY <1>10, CellTypes
  <2>2. /\ op.at \notin {"hits", "misses"} => hh = h /\ mm = m
        /\ op.at = "hits" => mm = m /\ hh \in {h, h + 1} /\ (t \in OnTime => hh = h + 1)
        /\ op.at = "misses" => hh = h /\ mm \in {m, m + 1} /\ (t \in OnTime => mm = m + 1)
    BY <1>2, <1>4, <1>5, <1>6, <1>10
  <2>3. v2 = h + m /\ w2 = hh + mm
    OBVIOUS
  <2> HIDE DEF h, m, hh, mm, v2, w2
  <2> QED
    BY <1>7, <1>8, <1>9, <2>1, <2>2, <2>3
<1> HIDE DEF v1, v2, w1, w2
<1>15. Done(Totals)' <= w1 /\ w1 + Cardinality(Behind(Totals))' <= Done(Totals)' + dirty'
  BY <1>11, <1>12, <1>13, CountingDrift
<1>16. Done(Outcomes)' <= w2 /\ w2 + Cardinality(Behind(Outcomes))' <= Done(Outcomes)' + dirty'
  BY <1>11, <1>12, <1>14, CountingDrift
<1> QED
  BY <1>15, <1>16 DEF DriftInv, Within, w1, w2

LEMMA BucketsFinite == IsFiniteSet(BucketSet) /\ BucketSet = 0..numBuckets - 1 /\ numBuckets \in Nat \ {0}
<1>1. BucketSet = 0..numBuckets - 1 /\ numBuckets \in Nat \ {0}
  BY SizeFacts DEF BucketSet
<1>2. numBuckets - 1 \in Int
  BY <1>1
<1> QED
  BY <1>1, <1>2, FS_Interval

LEMMA AddBooks ==
    ASSUME TypeInv, ShapeInv, HistoryInv, BookInv, NEW t \in Goroutines, DoAdd(t), call[t] = "request"
    PROVE  BookInv'
<1> DEFINE op == Head(todo[t])
<1>1. /\ todo[t] # << >> /\ op.do = "add" /\ Frozen /\ Pops(t) /\ buckets' = buckets
      /\ cnt' = [cnt EXCEPT ![op.at] = cnt[op.at] + op.n]
  BY StepFacts DEF Doing
<1>2. op \in AddOps /\ op.at \in FedCounters
  <2>1. "request" \notin OtherCalls
    BY DEF OtherCalls
  <2> QED
    BY <1>1, <2>1, OpFacts
<1>3. Step(t) /\ TypeInv'
  <2>1. Step(t) /\ ~Return(t)
    BY <1>1 DEF Step, Return
  <2> QED
    BY <2>1, StepType
<1>4. Counting(t)
  BY <1>1, <1>2, <1>3 DEF Counting
<1>5. /\ SameHistory /\ Keepers' = Keepers /\ t \in Recording /\ t \notin Resetting /\ SameMaxima
      /\ \A u \in Goroutines \ {t} : todo'[u] = todo[u]
      /\ RequestShape(todo[t])
      /\ \A M : /\ Has(todo[t], M) <=> op \in M \/ Has(todo'[t], M)
                /\ Once(todo[t], M) /\ op \in M => ~Has(todo'[t], M)
      /\ \A M, N : Precedes(todo[t], M, N) /\ op \in N => ~Has(todo[t], M)
  BY <1>3, <1>4, CountingFacts
<1>6. PICK K \in Keepers : Book(K)
  BY DEF BookInv
<1>7. op.at \in Counters /\ op.n \in Nat /\ (op.at \in UnitCounters => op.n = 1) /\ Amount(op) = op.n
  BY <1>1, <1>2, OpTypes DEF AddOps, Amount
<1>8. DriftInv(K)'
  BY <1>1, <1>2, <1>3, <1>4, <1>6, AddDrift DEF Book
<1>9. ASSUME dirty' = 0 PROVE LedgerInv(K)' /\ MaxInv(K)' /\ FillInv(K)'
  <2>1. dirty = 0 /\ LedgerInv(K) /\ MaxInv(K) /\ FillInv(K)
    BY <1>6, <1>9, <1>5 DEF Book, SameHistory
  <2>2. K = {}
    BY <1>5, <2>1, RequestAlone, KeeperFacts DEF Recording
  <2>3. /\ \A c : Kept(K, c) = cnt[c] /\ Kept(K, c)' = cnt'[c]
        /\ \A b : KeptBucket(K, b) = buckets[b] /\ KeptBucket(K, b)' = buckets'[b]
    BY <2>2, KeptNothing
  <2>4. /\ cnt'[op.at] = cnt[op.at] + op.n
        /\ \A c \in Counters \ {op.at} : cnt'[c] = cnt[c]
        /\ \A c \in Counters : cnt[c] \in Nat
    BY <1>1, <1>7 DEF TypeInv
  <2> HIDE DEF op
  <2>5. \A c : op \in Adds({c}) <=> op.at = c
    BY <1>2 DEF Adds
  <2>6. ASSUME NEW c \in FedCounters
        PROVE  /\ cnt'[c] + Owed(Adds({c}))' = cnt[c] + Owed(Adds({c}))
               /\ Due(Feeders(c), Weight(c))' = Due(Feeders(c), Weight(c))
    <3>1. Once(todo[t], Adds({c})) /\ Adds({c}) \in SUBSET (AddOps \cup FillOps) /\ c \in Counters
      BY <1>5, MarkSets DEF RequestShape
    <3>2. /\ Owed(Adds({c})) \in Nat
          /\ op \notin Adds({c}) => Owed(Adds({c}))' = Owed(Adds({c}))
          /\ op \in Adds({c}) => Owed(Adds({c}))' = Owed(Adds({c})) - op.n
      BY <1>3, <1>4, <1>7, <3>1, CountingOwed DEF op
    <3>3. Due(Feeders(c), Weight(c))' = Due(Feeders(c), Weight(c))
      BY <1>5 DEF SameHistory, Due, Weighed
    <3>4. CASE op.at = c
      <4> DEFINE k == cnt[c]
                 kk == cnt'[c]
                 o == Owed(Adds({c}))
                 oo == Owed(Adds({c}))'
      <4>1. k \in Nat /\ o \in Nat /\ op.n \in Nat /\ kk = k + op.n /\ oo = o - op.n
        BY <1>7, <2>4, <2>5, <3>1, <3>2, <3>4
      <4> HIDE DEF k, kk, o, oo
      <4>2. kk + oo = k + o
        BY <4>1
      <4> QED
        BY <3>3, <4>2 DEF k, kk, o, oo
    <3>5. CASE op.at # c
      BY <2>4, <2>5, <3>1, <3>2, <3>3, <3>5
    <3> QED
      BY <3>4, <3>5
  <2>7. ASSUME NEW b \in BucketSet
        PROVE  /\ Owed(FillsOf(b))' = Owed(FillsOf(b))
               /\ Due(InBucket(b), Ones)' = Due(InBucket(b), Ones)
    <3>1. op \notin FillsOf(b) /\ FillsOf(b) \in SUBSET (AddOps \cup FillOps)
      BY <1>2, MarkSets DEF FillsOf, FillOps, AddOps
    <3>2. Due(InBucket(b), Ones)' = Due(InBucket(b), Ones)
      BY <1>5 DEF SameHistory, Due, Weighed
    <3> QED
      BY <1>3, <1>4, <3>1, <3>2, CountingOwed DEF op
  <2>8. LedgerInv(K)'
    <3>1. \A c \in FedCounters \ {"bytesFetched"} : cnt'[c] + Owed(Adds({c}))' = Due(Feeders(c), Weight(c))'
      BY ZenonT(30), <2>1, <2>3, <2>6 DEF LedgerInv
    <3>2. cnt'["bytesFetched"] + Owed(Adds({"bytesFetched"}))' >= Due(MissSet, SizeOf)'
      <4>1. "bytesFetched" \in FedCounters /\ Feeders("bytesFetched") = MissSet /\ Weight("bytesFetched") = SizeOf
        BY DEF FedCounters, Feeders, Weight
      <4>2. cnt["bytesFetched"] + Owed(Adds({"bytesFetched"})) >= Due(MissSet, SizeOf)
        BY <2>1, <2>3 DEF LedgerInv
      <4> QED
        BY <2>6, <4>1, <4>2
    <3>3. \A b \in BucketSet : buckets'[b] + Owed(FillsOf(b))' = Due(InBucket(b), Ones)'
      BY <1>1, <2>1, <2>3, <2>7 DEF LedgerInv
    <3> QED
      BY <2>3, <3>1, <3>2, <3>3 DEF LedgerInv
  <2>9. MaxInv(K)'
    <3>1. "max" \in Counters /\ "max" # op.at
      BY <1>2 DEF Counters, FedCounters
    <3>2. Kept(K, "max")' = Kept(K, "max")
      BY <2>3, <2>4, <3>1
    <3> QED
      BY <1>5, <2>1, <3>2, SameMaximum
  <2>10. FillInv(K)'
    <3>1. SumFunctionOnSet([b \in BucketSet |-> KeptBucket(K, b)], BucketSet) = cnt["count"] + Cardinality(Filled)
      BY <2>1, <2>3 DEF FillInv
    <3>2. [b \in BucketSet |-> KeptBucket(K, b)'] = [b \in BucketSet |-> KeptBucket(K, b)]
      BY <1>1, <2>3
    <3>3. cnt'["count"] + Cardinality(Filled)' = cnt["count"] + Cardinality(Filled)
      <4>0. Filled \in SUBSET Goroutines /\ Filled' \in SUBSET Goroutines /\ Recording' = Recording
        BY <1>5 DEF Filled, Recording, SameHistory
      <4>1. Filled' \ {t} = Filled \ {t}
        BY <1>5, <4>0 DEF Filled
      <4>2. op \notin FillOps /\ "count" \in Counters
        BY <1>2 DEF FillOps, AddOps, Counters
      <4> DEFINE A == Filled
                 B == Filled'
      <4>3. /\ t \in A <=> Has(todo[t], Adds({"count"})) /\ ~Has(todo[t], FillOps)
            /\ t \in B <=> Has(todo'[t], Adds({"count"})) /\ ~Has(todo'[t], FillOps)
        BY <1>5, <4>0 DEF Filled
      <4>4. A \in SUBSET Goroutines /\ B \in SUBSET Goroutines /\ A \ {t} = B \ {t}
        BY <4>0, <4>1
      <4> HIDE DEF A, B
      <4>5. Cardinality(A) \in Nat
        BY <4>4, CardChange
      <4>6. CASE op.at = "count"
        <5>1. op.n = 1 /\ cnt'["count"] = cnt["count"] + 1
          BY <1>7, <2>4, <4>6 DEF UnitCounters
        <5>2. op \in Adds({"count"})
          BY <2>5, <4>6
        <5>3. t \in A
          <6>1. ~Has(todo[t], FillOps)
            BY <1>5, <5>2 DEF RequestShape
          <6> QED
            BY <1>5, <4>3, <5>2, <6>1
        <5>4. t \notin B
          <6>1. Once(todo[t], Adds({"count"}))
            BY <1>5 DEF RequestShape, FedCounters
          <6> QED
            BY <1>5, <4>3, <5>2, <6>1
        <5>5. Cardinality(B) = Cardinality(A) - 1
          BY <4>4, <5>3, <5>4, CardChange
        <5>6. cnt'["count"] + Cardinality(B) = cnt["count"] + Cardinality(A)
          BY <2>4, <4>2, <4>5, <5>1, <5>5
        <5> QED
          BY <5>6 DEF A, B
      <4>7. CASE op.at # "count"
        <5>1. cnt'["count"] = cnt["count"] /\ op \notin Adds({"count"})
          BY <2>4, <2>5, <4>2, <4>7
        <5>2. t \in A <=> t \in B
          BY <1>5, <4>2, <4>3, <5>1
        <5>3. A = B
          BY <4>4, <5>2
        <5>4. Filled' = Filled
          BY <5>3 DEF A, B
        <5> QED
          BY <5>1, <5>4
      <4> QED
        BY <4>6, <4>7
    <3> QED
      BY <2>3, <3>1, <3>2, <3>3 DEF FillInv
  <2> QED
    BY <2>8, <2>9, <2>10
<1> QED
  BY <1>5, <1>6, <1>8, <1>9 DEF Book, BookInv

LEMMA BucketBooks ==
    ASSUME TypeInv, ShapeInv, HistoryInv, BookInv, NEW t \in Goroutines, DoBucket(t)
    PROVE  BookInv'
<1> DEFINE op == Head(todo[t])
<1>1. /\ todo[t] # << >> /\ op.do = "bucket" /\ Frozen /\ Pops(t) /\ cnt' = cnt
      /\ buckets' = [buckets EXCEPT ![op.at] = buckets[op.at] + 1]
  BY StepFacts DEF Doing
<1>2. op \in FillOps /\ call[t] = "request"
  BY <1>1, OpFacts
<1>3. Step(t) /\ TypeInv'
  <2>1. Step(t) /\ ~Return(t)
    BY <1>1 DEF Step, Return
  <2> QED
    BY <2>1, StepType
<1>4. Counting(t)
  BY <1>1, <1>2, <1>3 DEF Counting
<1>5. /\ SameHistory /\ Keepers' = Keepers /\ t \in Recording /\ t \notin Resetting /\ SameMaxima
      /\ \A u \in Goroutines \ {t} : todo'[u] = todo[u]
      /\ RequestShape(todo[t])
      /\ \A M : /\ Has(todo[t], M) <=> op \in M \/ Has(todo'[t], M)
                /\ Once(todo[t], M) /\ op \in M => ~Has(todo'[t], M)
  BY <1>3, <1>4, CountingFacts
<1>6. PICK K \in Keepers : Book(K)
  BY DEF BookInv
<1>7. op.at \in BucketSet /\ Amount(op) = 1 /\ \A C : op \notin Adds(C)
  BY <1>1, <1>2, OpTypes DEF Amount, Adds, AddOps
<1> HIDE DEF op
<1>8. DriftInv(K)'
  <2>1. K \subseteq Resetting /\ \A u \in K : todo'[u] = todo[u]
    BY <1>5, KeeperFacts DEF Resetting
  <2>2. \A c : Kept(K, c)' = Kept(K, c)
    BY <1>1, <2>1 DEF Kept
  <2>3. \A c \in Counters : Kept(K, c) \in Nat
    BY CellTypes
  <2>4. {"total", "hits", "misses"} \subseteq Counters
    BY DEF Counters
  <2> DEFINE v1 == Kept(K, "total")
             v2 == Kept(K, "hits") + Kept(K, "misses")
  <2>5. v1 \in Nat /\ v2 \in Nat /\ v1 = Kept(K, "total")' /\ v2 = Kept(K, "hits")' + Kept(K, "misses")'
    BY <2>2, <2>3, <2>4
  <2>6. Within(v1, Totals) /\ Within(v2, Outcomes)
    BY <1>6 DEF Book, DriftInv
  <2>7. op \notin Totals /\ op \notin Outcomes
    BY <1>7 DEF Totals, Outcomes
  <2> HIDE DEF v1, v2
  <2>8. /\ Done(Totals)' <= v1 /\ v1 + Cardinality(Behind(Totals))' <= Done(Totals)' + dirty'
        /\ Done(Outcomes)' <= v2 /\ v2 + Cardinality(Behind(Outcomes))' <= Done(Outcomes)' + dirty'
    BY <1>3, <1>4, <2>5, <2>6, <2>7, CountingDrift DEF op
  <2> QED
    BY <2>5, <2>8 DEF DriftInv, Within
<1>9. ASSUME dirty' = 0 PROVE LedgerInv(K)' /\ MaxInv(K)' /\ FillInv(K)'
  <2>1. dirty = 0 /\ LedgerInv(K) /\ MaxInv(K) /\ FillInv(K)
    BY <1>6, <1>9, <1>5 DEF Book, SameHistory
  <2>2. K = {}
    BY <1>5, <2>1, RequestAlone, KeeperFacts DEF Recording
  <2>3. /\ \A c : Kept(K, c) = cnt[c] /\ Kept(K, c)' = cnt'[c]
        /\ \A b : KeptBucket(K, b) = buckets[b] /\ KeptBucket(K, b)' = buckets'[b]
    BY <2>2, KeptNothing
  <2>4. /\ buckets'[op.at] = buckets[op.at] + 1
        /\ \A b \in BucketSet \ {op.at} : buckets'[b] = buckets[b]
        /\ buckets \in [BucketSet -> Nat] /\ buckets' \in [BucketSet -> Nat]
    BY <1>1, <1>3, <1>7 DEF TypeInv
  <2>5. Once(todo[t], FillOps) /\ Precedes(todo[t], FillOps, Adds({"count"}))
    BY <1>5 DEF RequestShape
  <2>6. ASSUME NEW c \in FedCounters
        PROVE  /\ Owed(Adds({c}))' = Owed(Adds({c}))
               /\ Due(Feeders(c), Weight(c))' = Due(Feeders(c), Weight(c))
    <3>1. Adds({c}) \in SUBSET (AddOps \cup FillOps)
      BY MarkSets
    <3>2. Due(Feeders(c), Weight(c))' = Due(Feeders(c), Weight(c))
      BY <1>5 DEF SameHistory, Due, Weighed
    <3> QED
      BY <1>3, <1>4, <1>7, <3>1, <3>2, CountingOwed DEF op
  <2>7. ASSUME NEW b \in BucketSet
        PROVE  /\ buckets'[b] + Owed(FillsOf(b))' = buckets[b] + Owed(FillsOf(b))
               /\ Due(InBucket(b), Ones)' = Due(InBucket(b), Ones)
    <3>1. /\ op \in FillsOf(b) <=> op.at = b
          /\ FillsOf(b) \in SUBSET (AddOps \cup FillOps) /\ FillsOf(b) \subseteq FillOps
      BY <1>2, MarkSets DEF FillsOf
    <3>2. Once(todo[t], FillsOf(b))
      BY <2>5, <3>1, OnceSmaller
    <3>3. Due(InBucket(b), Ones)' = Due(InBucket(b), Ones)
      BY <1>5 DEF SameHistory, Due, Weighed
    <3>4. /\ Owed(FillsOf(b)) \in Nat
          /\ op \notin FillsOf(b) => Owed(FillsOf(b))' = Owed(FillsOf(b))
          /\ op \in FillsOf(b) => Owed(FillsOf(b))' = Owed(FillsOf(b)) - 1
      BY <1>3, <1>4, <1>7, <3>1, <3>2, CountingOwed DEF op
    <3> QED
      BY <2>4, <3>1, <3>3, <3>4
  <2>8. LedgerInv(K)'
    <3>1. \A c \in FedCounters \ {"bytesFetched"} : cnt'[c] + Owed(Adds({c}))' = Due(Feeders(c), Weight(c))'
      <4>1. \A c \in FedCounters \ {"bytesFetched"} : cnt[c] + Owed(Adds({c})) = Due(Feeders(c), Weight(c))
        BY <2>1, <2>3 DEF LedgerInv
      <4> QED
        BY <1>1, <2>6, <4>1
    <3>2. cnt'["bytesFetched"] + Owed(Adds({"bytesFetched"}))' >= Due(MissSet, SizeOf)'
      <4>1. "bytesFetched" \in FedCounters /\ Feeders("bytesFetched") = MissSet /\ Weight("bytesFetched") = SizeOf
        BY DEF FedCounters, Feeders, Weight
      <4>2. cnt["bytesFetched"] + Owed(Adds({"bytesFetched"})) >= Due(MissSet, SizeOf)
        BY <2>1, <2>3 DEF LedgerInv
      <4> QED
        BY <1>1, <2>6, <4>1, <4>2
    <3>3. \A b \in BucketSet : buckets'[b] + Owed(FillsOf(b))' = Due(InBucket(b), Ones)'
      BY <2>1, <2>3, <2>7 DEF LedgerInv
    <3> QED
      BY <2>3, <3>1, <3>2, <3>3 DEF LedgerInv
  <2>9. MaxInv(K)'
    BY <1>1, <1>5, <2>1, <2>3, SameMaximum
  <2>10. FillInv(K)'
    <3>1. SumFunctionOnSet(buckets, BucketSet) = cnt["count"] + Cardinality(Filled)
      <4>1. [b \in BucketSet |-> KeptBucket(K, b)] = buckets
        BY <2>3, <2>4
      <4> QED
        BY <2>1, <2>3, <4>1 DEF FillInv
    <3>2. SumFunctionOnSet(buckets', BucketSet) = SumFunctionOnSet(buckets, BucketSet) + 1
      <4> DEFINE f == buckets
                 g == buckets'
      <4>1. f \in [BucketSet -> Int] /\ g \in [BucketSet -> Int] /\ IsFiniteSet(BucketSet)
        BY <2>4, BucketsFinite
      <4>2. \A y \in BucketSet : y # op.at => g[y] = f[y]
        BY <2>4
      <4>3. g[op.at] = f[op.at] + 1 /\ f[op.at] \in Int
        BY <1>7, <2>4
      <4> HIDE DEF f, g
      <4>4. SumFunctionOnSet(g, BucketSet) = SumFunctionOnSet(f, BucketSet) + g[op.at] - f[op.at]
        BY <1>7, <4>1, <4>2, SumChange
      <4>5. SumFunctionOnSet(f, BucketSet) \in Int
        BY <4>1, SumType
      <4>6. SumFunctionOnSet(g, BucketSet) = SumFunctionOnSet(f, BucketSet) + 1
        BY <4>3, <4>4, <4>5
      <4> QED
        BY <4>6 DEF f, g
    <3>3. Cardinality(Filled)' = Cardinality(Filled) + 1 /\ Cardinality(Filled) \in Nat
      <4> DEFINE A == Filled
                 B == Filled'
      <4>0. A \in SUBSET Goroutines /\ B \in SUBSET Goroutines /\ Recording' = Recording
        BY <1>5 DEF Filled, Recording, SameHistory
      <4>1. A \ {t} = B \ {t}
        BY <1>5, <4>0 DEF Filled
      <4>2. t \notin A
        BY <1>2, <1>5 DEF Filled
      <4>3. Has(todo[t], FillOps) /\ ~Has(todo'[t], FillOps)
        BY <1>2, <1>5, <2>5
      <4>4. Has(todo'[t], Adds({"count"}))
        BY <1>5, <1>7, <2>5, <4>3 DEF Precedes
      <4>5. t \in B
        BY <1>5, <4>0, <4>3, <4>4 DEF Filled
      <4> HIDE DEF A, B
      <4>6. Cardinality(B) = Cardinality(A) + 1 /\ Cardinality(A) \in Nat
        BY <4>0, <4>1, <4>2, <4>5, CardChange
      <4> QED
        BY <4>6 DEF A, B
    <3>4. [b \in BucketSet |-> KeptBucket(K, b)'] = buckets'
      BY <2>3, <2>4
    <3>5. SumFunctionOnSet(buckets', BucketSet) = cnt'["count"] + Cardinality(Filled)'
      <4>1. cnt["count"] \in Nat /\ cnt'["count"] = cnt["count"]
        BY <1>1 DEF TypeInv, Counters
      <4> QED
        BY <3>1, <3>2, <3>3, <4>1
    <3> QED
      BY <2>3, <3>4, <3>5 DEF FillInv
  <2> QED
    BY <2>8, <2>9, <2>10
<1> QED
  BY <1>5, <1>6, <1>8, <1>9 DEF Book, BookInv

(* Every step keeps the books. *)
LEMMA BookPreserved ==
    ASSUME TypeInv, ShapeInv, HistoryInv, BookInv, NEW t \in Goroutines, Call(t) \/ Step(t)
    PROVE  BookInv'
<1>1. CASE \E r \in Requests : BeginRequest(t, r)
  BY <1>1, BeginRequestBooks
<1>2. CASE BeginReset(t)
  BY <1>2, BeginResetBooks
<1>3. CASE BeginReader(t)
  BY <1>3, BeginReaderBooks
<1>4. CASE Return(t)
  BY <1>4, ReturnBooks
<1>5. CASE Step(t) /\ ~Return(t)
  <2>1. CASE call[t] = "reset"
    BY <1>5, <2>1, ResetStepBooks
  <2>2. CASE call[t] \notin {"request", "reset"}
    BY <1>5, <2>2, ReaderBooks
  <2>3. CASE call[t] = "request"
    <3>1. DoAdd(t) \/ DoBucket(t) \/ DoMax(t) \/ DoCas(t)
      <4>1. /\ ~DoZero(t) /\ ~DoEmpty(t) /\ ~DoLoad(t) /\ ~DoMean(t)
            /\ ~DoRank(t) /\ ~DoWalk(t) /\ ~DoInstall(t) /\ ~DoPolicy(t)
        BY <2>3, StepFacts, OpFacts DEF Doing, OtherCalls
      <4> QED
        BY <1>5, <4>1 DEF Step
    <3> QED
      BY <2>3, <3>1, AddBooks, BucketBooks, MaxBooks
  <2> QED
    BY <2>1, <2>2, <2>3
<1> QED
  BY <1>1, <1>2, <1>3, <1>4, <1>5, NextKinds

-----------------------------------------------------------------------------
(* The first state. *)
LEMMA InitBooks ==
    ASSUME Init
    PROVE  TypeInv /\ ShapeInv /\ HistoryInv /\ BookInv
<1>1. /\ cnt = [c \in Counters |-> 0] /\ buckets = [i \in BucketSet |-> 0]
      /\ todo = [t \in Goroutines |-> << >>] /\ view = [t \in Goroutines |-> << >>]
      /\ call = [t \in Goroutines |-> "idle"] /\ reqs = [r \in Requests |-> 0] /\ finished = 0
      /\ overlap = [t \in Goroutines |-> "none"] /\ before = [t \in Goroutines |-> 0] /\ dirty = 0
  BY DEF Init
<1>2. Recording = {} /\ Resetting = {} /\ Active = {} /\ Late = {} /\ OnTime = {}
  BY <1>1 DEF Recording, Resetting, Active, Late, OnTime
<1>3. TypeInv
  <2>1. << >> \in Seq(OpsOf("idle"))
    BY EmptySeq
  <2> QED
    BY <1>1, <2>1 DEF TypeInv
<1>4. ShapeInv
  BY <1>1 DEF ShapeInv
<1>5. Cardinality({}) = 0
  BY FS_EmptySet
<1>6. HistoryInv
  BY <1>1, <1>2, <1>5 DEF HistoryInv
<1> DEFINE K == {}
<1>7. /\ \A c \in Counters : Kept(K, c) = 0
      /\ \A b \in BucketSet : KeptBucket(K, b) = 0
  BY <1>1 DEF Kept, KeptBucket
<1> HIDE DEF K
<1>8. DriftInv(K)
  <2>1. \A M : Past(M) = {} /\ Behind(M) = {}
    BY <1>2 DEF Past, Behind
  <2>2. \A M : Within(0, M)
    <3>1. \A M : Cardinality(Past(M)) = 0 /\ Cardinality(Behind(M)) = 0
      BY <1>5, <2>1
    <3>2. \A M : Done(M) = 0
      BY <1>1, <3>1 DEF Done
    <3> QED
      BY <1>1, <3>1, <3>2 DEF Within
  <2>3. Kept(K, "total") = 0 /\ Kept(K, "hits") + Kept(K, "misses") = 0
    BY <1>7 DEF Counters
  <2> QED
    BY <2>2, <2>3 DEF DriftInv
<1>9. LedgerInv(K)
  <2>1. \A M : Owed(M) = 0
    BY <1>2, OwedNothing
  <2>2. \A S \in SUBSET Requests : \A w \in [Requests -> Int] : Due(S, w) = 0
    BY <1>1, DueNothing
  <2>3. FedCounters \subseteq Counters /\ "bytesFetched" \in FedCounters
    BY DEF FedCounters, Counters
  <2>4. /\ \A c \in FedCounters : Due(Feeders(c), Weight(c)) = 0
        /\ \A b \in BucketSet : Due(InBucket(b), Ones) = 0
    BY <1>3, <2>2, LedgerTypes
  <2>5. Due(MissSet, SizeOf) = 0
    BY <1>3, <2>3, <2>4, LedgerTypes
  <2> QED
    BY <1>7, <2>1, <2>3, <2>4, <2>5 DEF LedgerInv
<1>10. MaxInv(K)
  <2>1. {r \in Observed : reqs[r] > 0} = {}
    BY <1>1 DEF Observed
  <2>2. Kept(K, "max") = 0
    BY <1>7 DEF Counters
  <2> QED
    BY <1>2, <2>1, <2>2 DEF MaxInv
<1>11. FillInv(K)
  <2> DEFINE f == [b \in BucketSet |-> KeptBucket(K, b)]
  <2>1. \A b \in BucketSet : f[b] = 0
    BY <1>7
  <2>2. Filled = {} /\ Kept(K, "count") = 0
    BY <1>2, <1>7 DEF Filled, Counters
  <2>3. SumFunctionOnSet(f, BucketSet) = 0
    <3> HIDE DEF f
    <3> QED
      BY <2>1, BucketsFinite, SumOfZeros
  <2> QED
    BY <1>5, <2>2, <2>3 DEF FillInv
<1>12. K \in Keepers
  BY <1>2 DEF Keepers, K
<1> QED
  BY <1>3, <1>4, <1>6, <1>8, <1>9, <1>10, <1>11, <1>12 DEF BookInv, Book

(* At rest nothing is owed, and no reset is about to clear anything. *)
LEMMA AtRest ==
    ASSUME TypeInv, BookInv, Active = {}
    PROVE  /\ \A M : Owed(M) = 0 /\ Past(M) = {} /\ Behind(M) = {}
           /\ Recording = {}
           /\ Book({})
           /\ \A c : Kept({}, c) = cnt[c]
           /\ \A b : KeptBucket({}, b) = buckets[b]
<1>1. Recording = {} /\ Resetting = {}
  BY DEF Active, Recording, Resetting
<1>2. Late = {} /\ OnTime = {}
  BY <1>1 DEF Late, OnTime
<1>3. PICK K \in Keepers : Book(K)
  BY DEF BookInv
<1>4. K = {}
  BY <1>1, <1>3, KeeperFacts
<1>5. /\ \A c : Kept({}, c) = cnt[c]
      /\ \A b : KeptBucket({}, b) = buckets[b]
  BY DEF Kept, KeptBucket
<1> QED
  BY <1>1, <1>2, <1>3, <1>4, <1>5, OwedNothing DEF Past, Behind

LEMMA DriftAtRest ==
    ASSUME TypeInv, BookInv
    PROVE  ResetDriftBounded
<1> SUFFICES ASSUME Active = {}
             PROVE  LET drift == cnt["total"] - cnt["hits"] - cnt["misses"]
                    IN  drift <= dirty /\ -drift <= dirty
  BY DEF ResetDriftBounded
<1>1. Cardinality({}) = 0
  BY FS_EmptySet
<1>2. \A v, M : Within(v, M) <=> finished + 0 <= v /\ v + 0 <= finished + 0 + dirty
  BY <1>1, AtRest DEF Within, Done
<1>3. Within(cnt["total"], Totals) /\ Within(cnt["hits"] + cnt["misses"], Outcomes)
  BY AtRest DEF Book, DriftInv
<1>4. /\ finished \in Nat /\ dirty \in Nat
      /\ cnt["total"] \in Nat /\ cnt["hits"] \in Nat /\ cnt["misses"] \in Nat
  BY DEF TypeInv, Counters
<1> DEFINE a == cnt["total"]
           h == cnt["hits"]
           m == cnt["misses"]
<1>5. /\ finished + 0 <= a /\ a + 0 <= finished + 0 + dirty
      /\ finished + 0 <= h + m /\ h + m + 0 <= finished + 0 + dirty
  BY <1>2, <1>3
<1>6. a \in Nat /\ h \in Nat /\ m \in Nat
  BY <1>4
<1> HIDE DEF a, h, m
<1>7. a - h - m <= dirty /\ -(a - h - m) <= dirty
  BY <1>4, <1>5, <1>6
<1> QED
  BY <1>7 DEF a, h, m

LEMMA LosslessBooks ==
    ASSUME TypeInv, BookInv
    PROVE  LosslessAtRest
<1> DEFINE hits == {r \in Requests : r.hit}
           misses == Requests \ hits
           seen == {o \in Observed : reqs[o] > 0}
<1> SUFFICES ASSUME Active = {}, dirty = 0
             PROVE  /\ cnt["total"] = Number(Requests)
                    /\ cnt["hits"] = Number(hits) /\ cnt["misses"] = Number(misses)
                    /\ cnt["bytesServed"] = SumOver(hits, LAMBDA r : r.size)
                    /\ cnt["bytesFetched"] >= SumOver(misses, LAMBDA r : r.size)
                    /\ cnt["backendReqs"] = Number(misses)
                    /\ cnt["count"] = Number(Observed)
                    /\ cnt["sum"] = SumOver(Observed, LAMBDA r : r.latency)
                    /\ cnt["max"] = Max({0} \cup {r.latency : r \in seen})
                    /\ \A i \in BucketSet : buckets[i] = Number({r \in Observed : bucketIndex(r.latency) = i})
  BY DEF LosslessAtRest
<1>1. LedgerInv({}) /\ MaxInv({})
  BY AtRest DEF Book
<1>2. \A c \in Counters : cnt[c] \in Nat
  BY DEF TypeInv
<1>3. \A c : Kept({}, c) + Owed(Adds({c})) = cnt[c] + 0
  BY AtRest
<1>4. \A c \in FedCounters \ {"bytesFetched"} : cnt[c] = Due(Feeders(c), Weight(c))
  <2> SUFFICES ASSUME NEW c \in FedCounters \ {"bytesFetched"} PROVE cnt[c] = Due(Feeders(c), Weight(c))
    OBVIOUS
  <2>1. Kept({}, c) + Owed(Adds({c})) = Due(Feeders(c), Weight(c)) /\ c \in Counters
    BY <1>1, MarkSets DEF LedgerInv
  <2>2. cnt[c] + 0 = Due(Feeders(c), Weight(c)) /\ cnt[c] \in Nat
    BY <1>2, <1>3, <2>1
  <2> QED
    BY <2>2
<1>5. cnt["bytesFetched"] >= Due(MissSet, SizeOf)
  <2>1. "bytesFetched" \in Counters
    BY DEF Counters
  <2> QED
    BY <1>1, <1>2, <1>3, <2>1 DEF LedgerInv
<1>6. \A b \in BucketSet : buckets[b] = Due(InBucket(b), Ones)
  <2>1. \A b : KeptBucket({}, b) + Owed(FillsOf(b)) = buckets[b] + 0
    BY AtRest
  <2>2. \A b \in BucketSet : buckets[b] \in Nat
    BY DEF TypeInv
  <2> QED
    BY <1>1, <2>1, <2>2 DEF LedgerInv
<1>7. ASSUME NEW S PROVE Number(S) = Due(S, Ones)
  <2>1. [r \in Requests |-> reqs[r] * 1] = [r \in Requests |-> reqs[r] * Ones[r]]
    BY DEF Ones
  <2> QED
    BY <2>1 DEF Number, SumOver, Due, Weighed
<1>8. ASSUME NEW S PROVE SumOver(S, LAMBDA r : r.size) = Due(S, SizeOf)
  <2>1. [r \in Requests |-> reqs[r] * r.size] = [r \in Requests |-> reqs[r] * SizeOf[r]]
    BY DEF SizeOf
  <2> QED
    BY <2>1 DEF SumOver, Due, Weighed
<1>9. ASSUME NEW S PROVE SumOver(S, LAMBDA r : r.latency) = Due(S, LatencyOf)
  <2>1. [r \in Requests |-> reqs[r] * r.latency] = [r \in Requests |-> reqs[r] * LatencyOf[r]]
    BY DEF LatencyOf
  <2> QED
    BY <2>1 DEF SumOver, Due, Weighed
<1>10. hits = HitSet /\ misses = MissSet
  BY DEF HitSet, MissSet
<1>11. /\ cnt["total"] = Due(Requests, Ones)
       /\ cnt["hits"] = Due(HitSet, Ones) /\ cnt["misses"] = Due(MissSet, Ones)
       /\ cnt["bytesServed"] = Due(HitSet, SizeOf) /\ cnt["backendReqs"] = Due(MissSet, Ones)
       /\ cnt["count"] = Due(Observed, Ones) /\ cnt["sum"] = Due(Observed, LatencyOf)
  BY <1>4 DEF FedCounters, Feeders, Weight
<1>12. cnt["max"] = Max({0} \cup {r.latency : r \in seen})
  <2> DEFINE T == {0} \cup {r.latency : r \in seen}
             m == cnt["max"]
  <2>1. Kept({}, "max") = m /\ m \in Nat
    BY <1>2, AtRest DEF Counters
  <2>2. m \in T /\ \A r \in seen : r.latency <= m
    BY <1>1, <2>1, AtRest DEF MaxInv
  <2>3. \A r \in seen : r.latency \in Nat
    BY RequestsAssumption DEF Observed
  <2>4. m \in T /\ \A y \in T : y \in Nat /\ m >= y
    BY <2>1, <2>2, <2>3
  <2> HIDE DEF T, m
  <2>5. \A x \in T : (\A y \in T : x >= y) => x = m
    BY <2>4
  <2>6. Max(T) = m
    BY <2>4, <2>5 DEF Max
  <2> QED
    BY <2>6 DEF T, m
<1>13. \A i \in BucketSet : buckets[i] = Number({r \in Observed : bucketIndex(r.latency) = i})
  BY <1>6, <1>7 DEF InBucket
<1> HIDE DEF hits, misses, seen
<1> QED
  BY <1>5, <1>7, <1>8, <1>9, <1>10, <1>11, <1>12, <1>13

-----------------------------------------------------------------------------
(* Snapshots. *)
LEMMA UndisturbedBooks ==
    ASSUME TypeInv, ShapeInv, HistoryInv, BookInv, NEW t \in Goroutines, Undisturbed(t)
    PROVE  /\ Resetting = {} /\ Book({})
           /\ finished <= cnt["hits"] + cnt["misses"]
           /\ cnt["hits"] + cnt["misses"] <= cnt["total"]
           /\ cnt["count"] <= SumFunctionOnSet(buckets, BucketSet)
<1>1. call[t] = "snapshot" /\ overlap[t] # "reset" /\ dirty = 0 /\ t \in Active /\ t \notin Resetting
  BY DEF Undisturbed, Active, Resetting
<1>2. Resetting = {}
  BY <1>1 DEF HistoryInv
<1>3. PICK K \in Keepers : Book(K)
  BY DEF BookInv
<1>4. K = {}
  BY <1>2, <1>3, KeeperFacts
<1>5. Book({}) /\ DriftInv({}) /\ FillInv({})
  BY <1>1, <1>3, <1>4 DEF Book
<1>6. /\ \A c : Kept({}, c) = cnt[c]
      /\ \A b : KeptBucket({}, b) = buckets[b]
  BY KeptNothing
<1> DEFINE h == cnt["hits"] + cnt["misses"]
           n == cnt["total"]
           P == Past(Outcomes)
           Q == Past(Totals)
           B == Behind(Outcomes)
           C == Behind(Totals)
<1>7. /\ cnt["hits"] \in Nat /\ cnt["misses"] \in Nat /\ h \in Nat /\ n \in Nat /\ finished \in Nat
      /\ cnt["count"] \in Nat
  <2>1. cnt["hits"] \in Nat /\ cnt["misses"] \in Nat /\ n \in Nat /\ finished \in Nat /\ cnt["count"] \in Nat
    BY DEF TypeInv, Counters
  <2> QED
    BY <2>1
<1>8. P \subseteq Q
  <2>1. \A u \in OnTime : Precedes(todo[u], Totals, Outcomes)
    BY DEF OnTime, Recording, ShapeInv, RequestShape
  <2> QED
    BY <2>1 DEF Past, Precedes
<1>9. /\ P \in SUBSET Goroutines /\ Q \in SUBSET Goroutines
      /\ Cardinality(P) \in Nat /\ Cardinality(Q) \in Nat /\ Cardinality(B) \in Nat /\ Cardinality(C) \in Nat
  BY DriftTypes
<1>10. Cardinality(P) <= Cardinality(Q)
  <2>1. IsFiniteSet(Q)
    BY <1>9, CallsAssumption, FS_Subset
  <2> HIDE DEF P, Q
  <2> QED
    BY <1>8, <2>1, FS_Subset
<1>11. /\ finished + Cardinality(P) <= h /\ h + Cardinality(B) <= finished + Cardinality(P) + 0
       /\ finished + Cardinality(Q) <= n
  BY <1>1, <1>5, <1>6 DEF DriftInv, Within, Done
<1>12. cnt["count"] <= SumFunctionOnSet(buckets, BucketSet)
  <2>1. [b \in BucketSet |-> KeptBucket({}, b)] = buckets
    BY <1>6 DEF TypeInv
  <2>2. SumFunctionOnSet(buckets, BucketSet) = cnt["count"] + Cardinality(Filled)
    BY <1>5, <1>6, <2>1 DEF FillInv
  <2>3. Filled \in SUBSET Goroutines
    BY DEF Filled, Recording
  <2>4. Cardinality(Filled) \in Nat
    BY <2>3, CardChange
  <2> QED
    BY <1>7, <2>2, <2>4
<1>13. finished <= h /\ h <= n
  <2> DEFINE p == Cardinality(P)
             q == Cardinality(Q)
             b == Cardinality(B)
  <2>1. /\ p \in Nat /\ q \in Nat /\ b \in Nat /\ p <= q /\ finished + p <= h /\ h + b <= finished + p + 0
        /\ finished + q <= n
    BY <1>9, <1>10, <1>11
  <2> HIDE DEF h, n, p, q, b
  <2> QED
    BY <1>7, <2>1
<1> QED
  BY <1>2, <1>5, <1>12, <1>13

(* What a bucket gains, the sum over any buckets does not lose. *)
LEMMA BucketSums ==
    ASSUME NEW f \in [BucketSet -> Nat], NEW g \in [BucketSet -> Nat], NEW b \in BucketSet,
           g[b] = f[b] + 1, \A x \in BucketSet \ {b} : g[x] = f[x], NEW S \in SUBSET BucketSet
    PROVE  SumFunctionOnSet(f, S) <= SumFunctionOnSet(g, S)
<1>1. f \in [BucketSet -> Int] /\ g \in [BucketSet -> Int] /\ f[b] \in Nat
  OBVIOUS
<1>2. IsFiniteSet(S)
  BY BucketsFinite, FS_Subset
<1>3. SumFunctionOnSet(f, S) \in Int /\ SumFunctionOnSet(g, S) \in Int
  BY <1>1, <1>2, SumType
<1>4. CASE b \in S
  <2>1. SumFunctionOnSet(g, S) = SumFunctionOnSet(f, S) + g[b] - f[b]
    BY <1>1, <1>2, <1>4, SumChange
  <2> QED
    BY <1>1, <1>3, <2>1
<1>5. CASE b \notin S
  <2>1. \A x \in S : g[x] = f[x]
    BY <1>5
  <2>2. SumFunctionOnSet(g, S) = SumFunctionOnSet(f, S)
    BY <1>1, <1>2, <2>1, SumSame
  <2> QED
    BY <1>3, <2>2
<1> QED
  BY <1>4, <1>5

(* Only a reset takes anything away. *)
LEMMA OnlyGrows ==
    ASSUME TypeInv, NEW t \in Goroutines, Call(t) \/ Step(t), ~BeginReset(t), t \notin Resetting
    PROVE  /\ TypeInv'
           /\ cnt["hits"] <= cnt'["hits"] /\ cnt["misses"] <= cnt'["misses"] /\ finished <= finished'
           /\ \A S \in SUBSET BucketSet : SumFunctionOnSet(buckets, S) <= SumFunctionOnSet(buckets', S)
<1>0. /\ cnt \in [Counters -> Nat] /\ {"hits", "misses", "max"} \subseteq Counters /\ finished \in Nat
      /\ buckets \in [BucketSet -> Nat] /\ buckets \in [BucketSet -> Int]
  <2>1. {"hits", "misses", "max"} \subseteq Counters
    BY DEF Counters
  <2>2. cnt \in [Counters -> Nat] /\ buckets \in [BucketSet -> Nat] /\ finished \in Nat
    BY DEF TypeInv
  <2>3. buckets \in [BucketSet -> Int]
    BY <2>2
  <2> QED
    BY <2>1, <2>2, <2>3
<1>1. \A S \in SUBSET BucketSet : SumFunctionOnSet(buckets, S) \in Int
  BY <1>0, BucketsFinite, FS_Subset, SumType
<1>2. ASSUME TypeInv', cnt' = cnt, buckets' = buckets, finished' \in {finished, finished + 1}
      PROVE  /\ TypeInv'
             /\ cnt["hits"] <= cnt'["hits"] /\ cnt["misses"] <= cnt'["misses"] /\ finished <= finished'
             /\ \A S \in SUBSET BucketSet : SumFunctionOnSet(buckets, S) <= SumFunctionOnSet(buckets', S)
  <2>1. finished <= finished'
    BY <1>0, <1>2
  <2>2. cnt["hits"] <= cnt'["hits"] /\ cnt["misses"] <= cnt'["misses"]
    BY <1>0, <1>2
  <2>3. \A S \in SUBSET BucketSet : SumFunctionOnSet(buckets, S) <= SumFunctionOnSet(buckets', S)
    BY <1>1, <1>2
  <2> QED
    BY <1>2, <2>1, <2>2, <2>3
<1>3. CASE \E r \in Requests : BeginRequest(t, r)
  BY <1>2, <1>3, BeginRequestFacts
<1>4. CASE BeginReader(t)
  BY <1>2, <1>4, BeginReaderFacts DEF BeginReader
<1>5. CASE Return(t)
  BY <1>2, <1>5, ReturnFacts
<1>6. CASE Step(t) /\ ~Return(t)
  <2> DEFINE op == Head(todo[t])
  <2>1. TypeInv' /\ Frozen /\ finished' = finished /\ todo[t] # << >>
    BY <1>6, StepType DEF Frozen
  <2>2. ~DoZero(t) /\ ~DoEmpty(t)
    BY StepFacts, OpFacts DEF Doing, Resetting
  <2>3. CASE Quiet
    BY <1>2, <2>1, <2>3 DEF Quiet
  <2>4. CASE DoAdd(t)
    <3>1. /\ Doing(t, "add") /\ buckets' = buckets
          /\ cnt' = [cnt EXCEPT ![op.at] = cnt[op.at] + op.n]
      BY <2>4, StepFacts
    <3>2. op.at \in Counters /\ op.n \in Nat
      BY <3>1, OpFacts, OpTypes DEF Doing
    <3> HIDE DEF op
    <3>3. cnt["hits"] <= cnt'["hits"] /\ cnt["misses"] <= cnt'["misses"]
      BY <1>0, <3>1, <3>2
    <3>4. \A S \in SUBSET BucketSet : SumFunctionOnSet(buckets, S) <= SumFunctionOnSet(buckets', S)
      BY <1>1, <3>1
    <3> QED
      BY <1>0, <2>1, <3>3, <3>4
  <2>5. CASE DoBucket(t)
    <3>1. /\ Doing(t, "bucket") /\ cnt' = cnt
          /\ buckets' = [buckets EXCEPT ![op.at] = buckets[op.at] + 1]
      BY <2>5, StepFacts
    <3>2. op.at \in BucketSet
      BY <3>1, OpFacts, OpTypes DEF Doing
    <3> DEFINE b == op.at
               f == buckets
               g == buckets'
    <3>3. /\ f \in [BucketSet -> Nat] /\ g \in [BucketSet -> Nat] /\ b \in BucketSet
          /\ g[b] = f[b] + 1 /\ \A x \in BucketSet \ {b} : g[x] = f[x]
      BY <1>0, <3>1, <3>2
    <3> HIDE DEF b, f, g
    <3>4. \A S \in SUBSET BucketSet : SumFunctionOnSet(f, S) <= SumFunctionOnSet(g, S)
      BY <3>3, BucketSums
    <3>5. cnt["hits"] <= cnt'["hits"] /\ cnt["misses"] <= cnt'["misses"] /\ finished <= finished'
      BY <1>0, <2>1, <3>1
    <3>6. \A S \in SUBSET BucketSet : SumFunctionOnSet(buckets, S) <= SumFunctionOnSet(buckets', S)
      BY <3>4 DEF f, g
    <3> QED
      BY <2>1, <3>5, <3>6
  <2>6. CASE DoCas(t)
    <3>1. Doing(t, "cas") /\ buckets' = buckets /\ (cnt' = cnt \/ cnt' = [cnt EXCEPT !["max"] = op.n])
      BY <2>6, StepFacts
    <3> HIDE DEF op
    <3>2. cnt["hits"] <= cnt'["hits"] /\ cnt["misses"] <= cnt'["misses"]
      BY <1>0, <3>1
    <3>3. \A S \in SUBSET BucketSet : SumFunctionOnSet(buckets, S) <= SumFunctionOnSet(buckets', S)
      BY <1>1, <3>1
    <3> QED
      BY <1>0, <2>1, <3>2, <3>3
  <2>7. Quiet \/ DoAdd(t) \/ DoBucket(t) \/ DoCas(t)
    BY <1>6, <2>2, StepFacts DEF Step
  <2> QED
    BY <2>3, <2>4, <2>5, <2>6, <2>7
<1> QED
  BY <1>3, <1>4, <1>5, <1>6, NextKinds

(* A step of another goroutine. *)
LEMMA OthersSnapshots ==
    ASSUME TypeInv, HistoryInv, NEW t \in Goroutines, Call(t) \/ Step(t),
           NEW u \in Goroutines \ {t}, Undisturbed(u)'
    PROVE  /\ Undisturbed(u) /\ ~BeginReset(t) /\ t \notin Resetting
           /\ todo'[u] = todo[u] /\ view'[u] = view[u] /\ before'[u] = before[u]
           /\ overlap'[u] # "none"
<1>0. call'[u] = "snapshot" /\ overlap'[u] # "reset" /\ dirty' = 0 /\ dirty \in Nat
  BY DEF Undisturbed, TypeInv
<1>1. CASE \E r \in Requests : BeginRequest(t, r)
  <2>1. /\ call[t] = "idle"
        /\ \A x \in Goroutines \ {t} : call'[x] = call[x] /\ todo'[x] = todo[x] /\ before'[x] = before[x]
        /\ view' = view
        /\ \A x \in Active : (overlap'[x] = "reset" <=> overlap[x] = "reset") /\ overlap'[x] # "none"
        /\ dirty' = IF Resetting # {} THEN dirty + 1 ELSE dirty
        /\ t \notin Active
    BY <1>1, BeginRequestFacts
  <2>2. dirty = 0 /\ u \in Active /\ t \notin Resetting /\ ~BeginReset(t)
    <3>1. dirty = 0
      BY <1>0, <2>1
    <3>2. ~BeginReset(t)
      BY <1>0, <2>1, BeginResetFacts DEF Active
    <3> QED
      BY <1>0, <2>1, <3>1, <3>2 DEF Active, Resetting
  <2> QED
    BY <1>0, <2>1, <2>2 DEF Undisturbed
<1>2. CASE BeginReset(t)
  <2>1. /\ \A x \in Goroutines \ {t} : call'[x] = call[x]
        /\ \A x \in Active : overlap'[x] = "reset"
    BY <1>2, BeginResetFacts
  <2> QED
    BY <1>0, <2>1 DEF Active
<1>3. CASE BeginReader(t)
  <2>1. /\ call[t] = "idle"
        /\ \A x \in Goroutines \ {t} : call'[x] = call[x] /\ todo'[x] = todo[x] /\ before'[x] = before[x]
        /\ view' = view /\ dirty' = dirty
        /\ \A x \in Active : (overlap'[x] = "reset" <=> overlap[x] = "reset") /\ overlap'[x] # "none"
        /\ t \notin Active
    BY <1>3, BeginReaderFacts DEF BeginReader
  <2>2. u \in Active /\ t \notin Resetting /\ ~BeginReset(t)
    <3>1. ~BeginReset(t)
      BY <1>0, <2>1, BeginResetFacts DEF Active
    <3> QED
      BY <1>0, <2>1, <3>1 DEF Active, Resetting
  <2> QED
    BY <1>0, <2>1, <2>2 DEF Undisturbed
<1>4. CASE Step(t)
  <2>1. /\ call[t] # "idle" /\ call'[u] = call[u] /\ todo'[u] = todo[u] /\ view'[u] = view[u]
        /\ overlap'[u] = overlap[u] /\ before'[u] = before[u] /\ dirty' = dirty
    <3>1. CASE Return(t)
      BY <3>1, ReturnFacts
    <3>2. CASE ~Return(t)
      <4>1. TypeInv' /\ Frozen /\ todo[t] # << >>
        BY <1>4, <3>2, StepType
      <4>2. call[t] # "idle"
        BY <4>1, OpFacts
      <4>3. todo'[u] = todo[u]
        <5>1. Pops(t) \/ \E o : Puts(t, o)
          BY <1>4, <3>2, StepFacts DEF Step
        <5> QED
          BY <5>1 DEF Pops, Puts, TypeInv
      <4>4. view'[u] = view[u]
        <5>1. view' = view \/ \E name, n : Sees(t, name, n)
          BY <1>4, <3>2, StepFacts DEF Step
        <5> QED
          BY <5>1, SeesFacts
      <4> QED
        BY <4>1, <4>2, <4>3, <4>4 DEF Frozen
    <3> QED
      BY <3>1, <3>2
  <2>2. Undisturbed(u)
    BY <1>0, <2>1 DEF Undisturbed
  <2>3. t \in Active /\ u \in Active /\ u \notin Resetting
    BY <1>0, <2>1 DEF Active, Resetting
  <2>4. Resetting = {}
    BY <2>2, <2>3 DEF HistoryInv, Undisturbed
  <2>5. ~BeginReset(t)
    BY <2>1, BeginResetFacts
  <2>6. overlap'[u] # "none"
    BY <2>1, <2>3 DEF HistoryInv
  <2> QED
    BY <2>1, <2>2, <2>4, <2>5, <2>6
<1>5. \/ \E r \in Requests : BeginRequest(t, r)
      \/ BeginReset(t) \/ BeginReader(t) \/ Step(t)
  BY NextKinds DEF Step
<1> QED
  BY <1>1, <1>2, <1>3, <1>4, <1>5

LEMMA OthersLoaded ==
    ASSUME TypeInv, TypeInv', SnapInv, NEW u \in Goroutines, Undisturbed(u),
           todo'[u] = todo[u], view'[u] = view[u], before'[u] = before[u],
           cnt["hits"] <= cnt'["hits"], cnt["misses"] <= cnt'["misses"], finished <= finished',
           \A S \in SUBSET BucketSet : SumFunctionOnSet(buckets, S) <= SumFunctionOnSet(buckets', S)
    PROVE  LoadedInv(u)' /\ WalkInv(u)'
<1>1. LoadedInv(u) /\ WalkInv(u)
  BY DEF SnapInv
<1>2. /\ cnt["hits"] \in Nat /\ cnt["misses"] \in Nat /\ cnt'["hits"] \in Nat /\ cnt'["misses"] \in Nat
      /\ finished \in Nat /\ finished' \in Nat /\ before[u] \in Nat
  BY DEF TypeInv, Counters
<1>3. LoadedInv(u)'
  <2>1. Has(todo[u], {Load("hits")}) => before[u] <= finished'
    BY <1>1, <1>2 DEF LoadedInv
  <2>2. ~Has(todo[u], {Load("hits")}) =>
           /\ "hits" \in DOMAIN view[u] /\ view[u]["hits"] \in Nat /\ view[u]["hits"] <= cnt'["hits"]
           /\ Has(todo[u], {Load("misses")}) => before[u] <= view[u]["hits"] + cnt'["misses"]
    BY <1>1, <1>2 DEF LoadedInv
  <2>3. ~Has(todo[u], {Load("misses")}) =>
           /\ "misses" \in DOMAIN view[u] /\ view[u]["misses"] \in Nat /\ view[u]["misses"] <= cnt'["misses"]
           /\ before[u] <= view[u]["hits"] + view[u]["misses"]
    BY <1>1, <1>2 DEF LoadedInv
  <2>4. ~Has(todo[u], {Load("total")}) =>
           "total" \in DOMAIN view[u] /\ view[u]["hits"] + view[u]["misses"] <= view[u]["total"]
    BY <1>1 DEF LoadedInv
  <2> QED
    BY <2>1, <2>2, <2>3, <2>4 DEF LoadedInv
<1>4. WalkInv(u)'
  <2>1. \A q \in QuantileNames \cap DOMAIN view[u] : view[u][q] \in BucketSet
    BY <1>1 DEF WalkInv
  <2>2. ASSUME NEW op \in WalkOps, Has(todo[u], {op})
        PROVE  /\ op.seen <= op.target
               /\ op.target < op.seen + SumFunctionOnSet(buckets', op.i..numBuckets - 1)
    <3> DEFINE S == op.i..numBuckets - 1
               x == SumFunctionOnSet(buckets, S)
               y == SumFunctionOnSet(buckets', S)
    <3>1. op.seen \in Nat /\ op.target \in Nat /\ op.i \in BucketSet
      BY OpTypes
    <3>2. S \in SUBSET BucketSet
      BY <3>1, BucketsFinite
    <3>3. IsFiniteSet(S)
      BY <3>2, BucketsFinite, FS_Subset
    <3>4. x \in Nat /\ y \in Nat
      <4>1. buckets \in [BucketSet -> Nat] /\ buckets' \in [BucketSet -> Nat]
        BY DEF TypeInv
      <4> QED
        BY <3>2, <3>3, <4>1, SumNat
    <3>5. x <= y
      BY <3>2
    <3>6. op.seen <= op.target /\ op.target < op.seen + x
      BY <1>1, <2>2 DEF WalkInv
    <3> HIDE DEF x, y, S
    <3>7. op.target < op.seen + y
      BY <3>1, <3>4, <3>5, <3>6
    <3> QED
      BY <3>6, <3>7 DEF y, S
  <2> QED
    BY <2>1, <2>2 DEF WalkInv
<1> QED
  BY <1>3, <1>4

(* The steps of a snapshot. *)
LEMMA SnapshotSteps ==
    ASSUME TypeInv, ShapeInv, NEW t \in Goroutines, Step(t), ~Return(t), call[t] = "snapshot"
    PROVE  LET op == Head(todo[t])
               s == Tail(todo[t])
           IN  /\ TypeInv' /\ Frozen /\ Quiet /\ todo[t] # << >> /\ SnapshotShape(todo[t])
               /\ DoLoad(t) \/ DoMean(t) \/ DoRank(t) \/ DoWalk(t) \/ DoPolicy(t)
               /\ s \in Seq(OpsOf("snapshot")) /\ ~Has(s, WalkOps)
               /\ \A M : Has(todo[t], M) <=> op \in M \/ Has(s, M)
               /\ \A M, N : Precedes(todo[t], M, N) /\ op \in N => ~Has(todo[t], M)
               /\ \A M : Once(todo[t], M) /\ op \in M => ~Has(s, M)
               /\ Pops(t) => todo'[t] = s
               /\ \A o \in OpsOf("snapshot") : Puts(t, o) =>
                     \A M : Has(todo'[t], M) <=> o \in M \/ Has(s, M)
<1> DEFINE op == Head(todo[t])
           s == Tail(todo[t])
<1>1. TypeInv' /\ Frozen /\ todo[t] # << >>
  BY StepType
<1>2. todo[t] \in Seq(OpsOf("snapshot")) /\ SnapshotShape(todo[t])
  BY DEF TypeInv, ShapeInv
<1>3. DoLoad(t) \/ DoMean(t) \/ DoRank(t) \/ DoWalk(t) \/ DoPolicy(t)
  <2>1. /\ ~DoAdd(t) /\ ~DoBucket(t) /\ ~DoMax(t) /\ ~DoCas(t) /\ ~DoZero(t) /\ ~DoEmpty(t) /\ ~DoInstall(t)
    BY StepFacts, OpFacts DEF Doing, OtherCalls
  <2> QED
    BY <2>1 DEF Step
<1>4. Quiet
  BY <1>3, StepFacts
<1>5. /\ s \in Seq(OpsOf("snapshot")) /\ ~Has(s, WalkOps)
      /\ \A M : Has(todo[t], M) <=> op \in M \/ Has(s, M)
      /\ \A M : Once(todo[t], M) /\ op \in M => ~Has(s, M)
  BY <1>1, <1>2, TailMarks, TailShape
<1>6. \A M, N : Precedes(todo[t], M, N) /\ op \in N => ~Has(todo[t], M)
  BY <1>1, <1>2, TailPrecedes
<1>7. /\ Pops(t) => todo'[t] = s
      /\ \A o : Puts(t, o) => todo'[t] = <<o>> \o s
  BY DEF Pops, Puts, TypeInv
<1>8. \A o \in OpsOf("snapshot") : \A M : Has(<<o>> \o s, M) <=> o \in M \/ Has(s, M)
  BY <1>5, ConsMarks
<1> HIDE DEF op, s
<1>9. \A o \in OpsOf("snapshot") : Puts(t, o) => \A M : Has(todo'[t], M) <=> o \in M \/ Has(s, M)
  BY <1>7, <1>8
<1> QED
  BY <1>1, <1>2, <1>3, <1>4, <1>5, <1>6, <1>7, <1>9 DEF op, s

(* One that loads none of the three counters. *)
LEMMA LoadedKept ==
    ASSUME NEW t \in Goroutines, SnapshotShape(todo[t]), LoadedInv(t), Quiet, Frozen,
           \A c \in {"hits", "misses", "total"} :
              /\ Has(todo'[t], {Load(c)}) <=> Has(todo[t], {Load(c)})
              /\ c \in DOMAIN view[t] => c \in DOMAIN view'[t] /\ view'[t][c] = view[t][c]
    PROVE  LoadedInv(t)'
<1>1. /\ Has(todo[t], {Load("hits")}) => Has(todo[t], {Load("misses")})
      /\ Has(todo[t], {Load("misses")}) => Has(todo[t], {Load("total")})
  BY DEF SnapshotShape, Precedes
<1>2. cnt' = cnt /\ finished' = finished /\ before' = before
  BY DEF Quiet, Frozen
<1>3. Has(todo'[t], {Load("hits")}) => before'[t] <= finished'
  BY <1>2 DEF LoadedInv
<1>4. ~Has(todo'[t], {Load("hits")}) =>
         /\ "hits" \in DOMAIN view'[t] /\ view'[t]["hits"] = view[t]["hits"]
         /\ view'[t]["hits"] \in Nat /\ view'[t]["hits"] <= cnt'["hits"]
         /\ Has(todo'[t], {Load("misses")}) => before'[t] <= view'[t]["hits"] + cnt'["misses"]
  BY <1>2 DEF LoadedInv
<1>5. ~Has(todo'[t], {Load("misses")}) =>
         /\ "misses" \in DOMAIN view'[t] /\ view'[t]["misses"] = view[t]["misses"]
         /\ view'[t]["misses"] \in Nat /\ view'[t]["misses"] <= cnt'["misses"]
         /\ before'[t] <= view'[t]["hits"] + view'[t]["misses"]
  BY <1>1, <1>2, <1>4 DEF LoadedInv
<1>6. ~Has(todo'[t], {Load("total")}) =>
         "total" \in DOMAIN view'[t] /\ view'[t]["hits"] + view'[t]["misses"] <= view'[t]["total"]
  BY <1>1, <1>2, <1>4, <1>5 DEF LoadedInv
<1> QED
  BY <1>3, <1>4, <1>5, <1>6 DEF LoadedInv

(* One that does: each counter is loaded when it is at least what was      *)
(* loaded before it asks for.                                              *)
LEMMA LoadsLoaded ==
    ASSUME TypeInv, ShapeInv, HistoryInv, BookInv, NEW t \in Goroutines, Undisturbed(t), LoadedInv(t), DoLoad(t),
           Step(t), ~Return(t)
    PROVE  LoadedInv(t)'
<1> DEFINE op == Head(todo[t])
           s == Tail(todo[t])
           c == op.at
<1>0. call[t] = "snapshot"
  BY DEF Undisturbed
<1>1. Doing(t, "load") /\ Pops(t) /\ Sees(t, c, cnt[c])
  BY StepFacts
<1>2. c \in Counters /\ op = Load(c) /\ \A x, y : Load(x) = Load(y) => x = y
  <2>1. op \in LoadOps
    BY <1>1, OpFacts DEF Doing
  <2> QED
    BY <2>1 DEF LoadOps, Load
<1>3. /\ Frozen /\ Quiet /\ SnapshotShape(todo[t]) /\ todo'[t] = s
      /\ \A M : Has(todo[t], M) <=> op \in M \/ Has(s, M)
      /\ \A M, N : Precedes(todo[t], M, N) /\ op \in N => ~Has(todo[t], M)
      /\ \A M : Once(todo[t], M) /\ op \in M => ~Has(s, M)
  BY <1>0, <1>1, SnapshotSteps
<1>4. /\ DOMAIN view'[t] = DOMAIN view[t] \cup {c} /\ view'[t][c] = cnt[c]
      /\ \A x \in DOMAIN view[t] \ {c} : view'[t][x] = view[t][x]
  BY <1>1, SeesFacts
<1>5. /\ finished <= cnt["hits"] + cnt["misses"] /\ cnt["hits"] + cnt["misses"] <= cnt["total"]
  BY UndisturbedBooks
<1>6. /\ cnt["hits"] \in Nat /\ cnt["misses"] \in Nat /\ cnt["total"] \in Nat /\ finished \in Nat
      /\ before[t] \in Nat
  BY DEF TypeInv, Counters
<1>7. cnt' = cnt /\ finished' = finished /\ before' = before
  BY <1>3 DEF Quiet, Frozen
<1>8. /\ Precedes(todo[t], {Load("hits")}, {Load("misses")}) /\ Precedes(todo[t], {Load("misses")}, {Load("total")})
      /\ \A x \in {"hits", "misses", "total"} : Once(todo[t], {Load(x)})
      /\ Has(todo[t], {Load("hits")}) => Has(todo[t], {Load("misses")})
      /\ Has(todo[t], {Load("misses")}) => Has(todo[t], {Load("total")})
  BY <1>3 DEF SnapshotShape, Precedes
<1> HIDE DEF op, s, c
<1>9. \A x : x # c => (Has(todo'[t], {Load(x)}) <=> Has(todo[t], {Load(x)}))
  BY <1>2, <1>3
<1>10. c \in {"hits", "misses", "total"} => Has(todo[t], {Load(c)}) /\ ~Has(todo'[t], {Load(c)})
  BY <1>2, <1>3, <1>8
<1>11. CASE c \notin {"hits", "misses", "total"}
  <2>1. \A x \in {"hits", "misses", "total"} :
           /\ Has(todo'[t], {Load(x)}) <=> Has(todo[t], {Load(x)})
           /\ x \in DOMAIN view[t] => x \in DOMAIN view'[t] /\ view'[t][x] = view[t][x]
    BY <1>4, <1>9, <1>11
  <2> QED
    BY <1>3, <2>1, LoadedKept
<1>12. CASE c = "hits"
  <2>1. Has(todo'[t], {Load("misses")}) /\ Has(todo'[t], {Load("total")}) /\ ~Has(todo'[t], {Load("hits")})
    BY <1>8, <1>9, <1>10, <1>12
  <2>2. before[t] <= finished
    BY <1>10, <1>12 DEF LoadedInv
  <2>3. /\ "hits" \in DOMAIN view'[t] /\ view'[t]["hits"] \in Nat /\ view'[t]["hits"] <= cnt'["hits"]
        /\ before'[t] <= view'[t]["hits"] + cnt'["misses"]
    BY <1>4, <1>5, <1>6, <1>7, <1>12, <2>2
  <2> QED
    BY <2>1, <2>3 DEF LoadedInv
<1>13. CASE c = "misses"
  <2>1. Has(todo[t], {Load("misses")}) /\ ~Has(todo[t], {Load("hits")})
    BY <1>2, <1>3, <1>8, <1>10, <1>13
  <2>2. ~Has(todo'[t], {Load("misses")}) /\ Has(todo'[t], {Load("total")}) /\ ~Has(todo'[t], {Load("hits")})
    BY <1>8, <1>9, <1>10, <1>13, <2>1
  <2>3. /\ "hits" \in DOMAIN view[t] /\ view[t]["hits"] \in Nat /\ view[t]["hits"] <= cnt["hits"]
        /\ before[t] <= view[t]["hits"] + cnt["misses"]
    BY <2>1 DEF LoadedInv
  <2>4. "hits" \in DOMAIN view'[t] /\ view'[t]["hits"] = view[t]["hits"]
        /\ "misses" \in DOMAIN view'[t] /\ view'[t]["misses"] = cnt["misses"]
    BY <1>4, <1>13, <2>3
  <2> QED
    BY <1>6, <1>7, <2>2, <2>3, <2>4 DEF LoadedInv
<1>14. CASE c = "total"
  <2>1. ~Has(todo[t], {Load("misses")}) /\ ~Has(todo[t], {Load("hits")})
    BY <1>2, <1>3, <1>8, <1>14
  <2>2. ~Has(todo'[t], {Load("misses")}) /\ ~Has(todo'[t], {Load("total")}) /\ ~Has(todo'[t], {Load("hits")})
    BY <1>9, <1>10, <1>14, <2>1
  <2>3. /\ "hits" \in DOMAIN view[t] /\ view[t]["hits"] \in Nat /\ view[t]["hits"] <= cnt["hits"]
        /\ "misses" \in DOMAIN view[t] /\ view[t]["misses"] \in Nat /\ view[t]["misses"] <= cnt["misses"]
        /\ before[t] <= view[t]["hits"] + view[t]["misses"]
    BY <2>1 DEF LoadedInv
  <2>4. /\ "hits" \in DOMAIN view'[t] /\ view'[t]["hits"] = view[t]["hits"]
        /\ "misses" \in DOMAIN view'[t] /\ view'[t]["misses"] = view[t]["misses"]
        /\ "total" \in DOMAIN view'[t] /\ view'[t]["total"] = cnt["total"]
    BY <1>4, <1>14, <2>3
  <2>5. view'[t]["hits"] + view'[t]["misses"] <= view'[t]["total"]
    BY <1>5, <1>6, <2>3, <2>4
  <2> QED
    BY <1>7, <2>2, <2>3, <2>4, <2>5 DEF LoadedInv
<1> QED
  BY <1>11, <1>12, <1>13, <1>14

LEMMA OwnLoaded ==
    ASSUME TypeInv, ShapeInv, HistoryInv, BookInv, NEW t \in Goroutines, Undisturbed(t), LoadedInv(t),
           Step(t), ~Return(t)
    PROVE  LoadedInv(t)'
<1> DEFINE op == Head(todo[t])
           s == Tail(todo[t])
<1>0. call[t] = "snapshot"
  BY DEF Undisturbed
<1>1. /\ Frozen /\ Quiet /\ SnapshotShape(todo[t]) /\ todo[t] # << >> /\ (Pops(t) => todo'[t] = s)
      /\ \A M : Has(todo[t], M) <=> op \in M \/ Has(s, M)
      /\ \A o \in OpsOf("snapshot") : Puts(t, o) =>
            \A M : Has(todo'[t], M) <=> o \in M \/ Has(s, M)
      /\ DoLoad(t) \/ DoMean(t) \/ DoRank(t) \/ DoWalk(t) \/ DoPolicy(t)
  BY <1>0, SnapshotSteps
<1>2. /\ cnt["count"] \in Nat /\ buckets \in [BucketSet -> Nat]
      /\ numBuckets \in Nat /\ BucketSet = 0..numBuckets - 1 /\ 0 \in BucketSet
  <2>1. cnt["count"] \in Nat /\ buckets \in [BucketSet -> Nat]
    BY DEF TypeInv, Counters
  <2>2. numBuckets \in Nat /\ BucketSet = 0..numBuckets - 1 /\ 0 \in BucketSet
    BY BucketsFinite
  <2> QED
    BY <2>1, <2>2
<1>3. CASE DoLoad(t)
  BY <1>3, LoadsLoaded
<1>4. CASE ~DoLoad(t)
  <2>1. op.do \in {"mean", "rank", "walk", "policy"}
    BY <1>1, <1>4, StepFacts DEF Doing
  <2>2. \A c : op # Load(c)
    BY <2>1 DEF Load
  <2>3. \/ Pops(t)
        \/ \E o \in OpsOf("snapshot") : Puts(t, o) /\ o \in WalkOps \cup {Load("sum"), Load("max")}
    <3>1. CASE DoMean(t)
      BY <3>1, StepFacts, PutOps
    <3>2. CASE DoPolicy(t)
      BY <3>2, StepFacts
    <3>3. CASE DoRank(t)
      <4> DEFINE w == Walk(op.at, Target(op.percent, cnt["count"]), 0, 0)
      <4>1. Doing(t, "rank") /\ (Pops(t) \/ (cnt["count"] # 0 /\ Puts(t, w)))
        BY <3>3, StepFacts
      <4>2. op.at \in QuantileNames /\ op.percent = Percent(op.at)
        BY <4>1, OpFacts, OpTypes DEF Doing
      <4>3. cnt["count"] # 0 => w \in OpsOf("snapshot") /\ w \in WalkOps
        BY <1>2, <4>2, TargetFacts, PutOps
      <4> HIDE DEF w
      <4> QED
        BY <4>1, <4>3
    <3>4. CASE DoWalk(t)
      <4> DEFINE w == Walk(op.at, op.target, op.i + 1, op.seen + buckets[op.i])
      <4>1. Doing(t, "walk") /\ (Pops(t) \/ Puts(t, Load("max")) \/ (op.i # numBuckets - 1 /\ Puts(t, w)))
        BY <3>4, StepFacts
      <4>2. op.at \in QuantileNames /\ op.target \in Nat /\ op.i \in BucketSet /\ op.seen \in Nat
        BY <4>1, OpFacts, OpTypes DEF Doing
      <4>3. op.i # numBuckets - 1 => op.i + 1 \in BucketSet
        BY SMTT(30), <1>2, <4>2
      <4>4. op.seen + buckets[op.i] \in Nat
        BY SMTT(30), <1>2, <4>2
      <4>5. op.i # numBuckets - 1 => w \in OpsOf("snapshot") /\ w \in WalkOps
        BY <4>2, <4>3, <4>4, PutOps
      <4> HIDE DEF w
      <4> QED
        BY <4>1, <4>5, PutOps
    <3> QED
      BY <1>1, <1>4, <3>1, <3>2, <3>3, <3>4
  <2>4. ASSUME NEW c \in {"hits", "misses", "total"}
        PROVE  Has(todo'[t], {Load(c)}) <=> Has(todo[t], {Load(c)})
    BY <1>1, <2>2, <2>3, PutMarks
  <2>5. ASSUME NEW c \in {"hits", "misses", "total"}, c \in DOMAIN view[t]
        PROVE  c \in DOMAIN view'[t] /\ view'[t][c] = view[t][c]
    <3>1. view' = view \/ \E name, n : name \in QuantileNames \cup {"count", "policy"} /\ Sees(t, name, n)
      <4>1. CASE DoWalk(t)
        <5>1. Doing(t, "walk") /\ (view' = view \/ Sees(t, op.at, op.i) \/ Sees(t, op.at, numBuckets))
          BY <4>1, StepFacts
        <5>2. op.at \in QuantileNames
          BY <5>1, OpFacts, OpTypes DEF Doing
        <5> QED
          BY <5>1, <5>2
      <4>2. CASE ~DoWalk(t)
        BY <1>1, <1>4, <4>2, StepFacts
      <4> QED
        BY <4>1, <4>2
    <3>2. c \notin QuantileNames \cup {"count", "policy"}
      BY DEF QuantileNames
    <3> QED
      BY <2>5, <3>1, <3>2, SeesFacts
  <2> QED
    BY <1>1, <2>4, <2>5, LoadedKept
<1> QED
  BY <1>3, <1>4

(* A walk. *)
LEMMA SumFrom ==
    ASSUME NEW f \in [BucketSet -> Nat], NEW i \in BucketSet
    PROVE  /\ SumFunctionOnSet(f, i..numBuckets - 1) \in Nat
           /\ SumFunctionOnSet(f, i + 1..numBuckets - 1) \in Nat
           /\ SumFunctionOnSet(f, i..numBuckets - 1) = f[i] + SumFunctionOnSet(f, i + 1..numBuckets - 1)
           /\ i = numBuckets - 1 => SumFunctionOnSet(f, i + 1..numBuckets - 1) = 0
<1> DEFINE S == i..numBuckets - 1
           T == i + 1..numBuckets - 1
<1>1. numBuckets \in Nat \ {0} /\ BucketSet = 0..numBuckets - 1 /\ IsFiniteSet(BucketSet)
  BY BucketsFinite
<1>2. S \in SUBSET BucketSet /\ T \in SUBSET BucketSet /\ T = S \ {i} /\ i \in S
  BY <1>1
<1>3. i = numBuckets - 1 => T = {}
  BY <1>1
<1> HIDE DEF S, T
<1>4. IsFiniteSet(S) /\ IsFiniteSet(T) /\ f \in [BucketSet -> Int]
  <2>1. IsFiniteSet(S) /\ IsFiniteSet(T)
    BY <1>1, <1>2, FS_Subset
  <2>2. f \in [BucketSet -> Int]
    OBVIOUS
  <2> QED
    BY <2>1, <2>2
<1>5. SumFunctionOnSet(f, S) \in Nat /\ SumFunctionOnSet(f, T) \in Nat
  BY <1>2, <1>4, SumNat
<1>6. SumFunctionOnSet(f, S) = f[i] + SumFunctionOnSet(f, S \ {i})
  BY <1>2, <1>4, SumRemove
<1>7. T = {} => SumFunctionOnSet(f, T) = 0
  BY <1>4, SumOfZeros
<1> QED
  BY <1>2, <1>3, <1>5, <1>6, <1>7 DEF S, T

(* What a step of the walk does to the snapshot that takes it: it finds    *)
(* the bucket of the rank, or goes on to the next.                         *)
LEMMA WalkSteps ==
    ASSUME TypeInv, ShapeInv, NEW t \in Goroutines, call[t] = "snapshot", WalkInv(t),
           Step(t), ~Return(t), DoWalk(t)
    PROVE  LET op == Head(todo[t])
               s == Tail(todo[t])
               seen == op.seen + buckets[op.i]
               w == Walk(op.at, op.target, op.i + 1, seen)
           IN  /\ op \in WalkOps /\ Has(todo[t], {op}) /\ seen \in Nat
               /\ op.seen <= op.target
               /\ op.target < op.seen + SumFunctionOnSet(buckets, op.i..numBuckets - 1)
               /\ \/ seen > op.target /\ Sees(t, op.at, op.i) /\ todo'[t] = s
                  \/ /\ seen <= op.target /\ view' = view
                     /\ w \in WalkOps /\ op.i + 1 \in BucketSet
                     /\ op.target < seen + SumFunctionOnSet(buckets, op.i + 1..numBuckets - 1)
                     /\ \A M : Has(todo'[t], M) <=> w \in M \/ Has(s, M)
<1> DEFINE op == Head(todo[t])
           s == Tail(todo[t])
           seen == op.seen + buckets[op.i]
           w == Walk(op.at, op.target, op.i + 1, seen)
           b == buckets[op.i]
           x == SumFunctionOnSet(buckets, op.i..numBuckets - 1)
           y == SumFunctionOnSet(buckets, op.i + 1..numBuckets - 1)
<1>1. /\ todo[t] # << >> /\ (Pops(t) => todo'[t] = s)
      /\ \A M : Has(todo[t], M) <=> op \in M \/ Has(s, M)
      /\ \A o \in OpsOf("snapshot") : Puts(t, o) =>
            \A M : Has(todo'[t], M) <=> o \in M \/ Has(s, M)
  BY SnapshotSteps
<1>2. /\ Doing(t, "walk")
      /\ \/ (b > 0 /\ seen > op.target) /\ Sees(t, op.at, op.i) /\ Pops(t)
         \/ ~(b > 0 /\ seen > op.target) /\ op.i = numBuckets - 1
         \/ /\ ~(b > 0 /\ seen > op.target) /\ op.i # numBuckets - 1 /\ view' = view
            /\ Puts(t, w)
  BY StepFacts
<1>3. op \in WalkOps
  BY <1>2, OpFacts DEF Doing
<1>4. op.at \in QuantileNames /\ op.target \in Nat /\ op.i \in BucketSet /\ op.seen \in Nat
  BY <1>3, OpTypes
<1>5. buckets \in [BucketSet -> Nat]
  BY DEF TypeInv
<1>6. Has(todo[t], {op})
  BY <1>1
<1>7. op.seen <= op.target /\ op.target < op.seen + x
  BY <1>3, <1>6 DEF WalkInv
<1>8. x \in Nat /\ y \in Nat /\ x = b + y /\ (op.i = numBuckets - 1 => y = 0) /\ b \in Nat
  BY <1>4, <1>5, SumFrom
<1>9. numBuckets \in Nat /\ BucketSet = 0..numBuckets - 1
  BY BucketsFinite
<1>10. op.i # numBuckets - 1 => op.i + 1 \in BucketSet
  BY <1>4, <1>9
<1>11. seen \in Nat /\ seen = op.seen + b
  BY <1>4, <1>8
<1>12. op.i # numBuckets - 1 => w \in OpsOf("snapshot") /\ w \in WalkOps
  BY <1>4, <1>10, <1>11, PutOps
<1> HIDE DEF op, s, seen, w, b, x, y
<1>13. /\ seen > op.target => b > 0
       /\ ~(seen > op.target) => seen <= op.target
       /\ op.target < seen + y
       /\ op.i = numBuckets - 1 => seen > op.target
  BY <1>4, <1>7, <1>8, <1>11
<1>14. CASE seen > op.target
  <2>1. Sees(t, op.at, op.i) /\ Pops(t)
    BY SMTT(30), <1>2, <1>13, <1>14
  <2> QED
    BY <1>1, <1>3, <1>6, <1>7, <1>11, <1>14, <2>1 DEF op, s, seen, w, b, x, y
<1>15. CASE ~(seen > op.target)
  <2>1. op.i # numBuckets - 1 /\ view' = view /\ Puts(t, w)
    BY <1>2, <1>13, <1>15
  <2>2. \A M : Has(todo'[t], M) <=> w \in M \/ Has(s, M)
    BY <1>1, <1>12, <2>1
  <2> QED
    BY <1>3, <1>6, <1>7, <1>10, <1>11, <1>12, <1>13, <1>15, <2>1, <2>2 DEF op, s, seen, w, b, x, y
<1> QED
  BY <1>14, <1>15

LEMMA RankSteps ==
    ASSUME TypeInv, ShapeInv, NEW t \in Goroutines, call[t] = "snapshot",
           Step(t), ~Return(t), DoRank(t)
    PROVE  LET op == Head(todo[t])
               s == Tail(todo[t])
               n == cnt["count"]
               w == Walk(op.at, Target(Percent(op.at), n), 0, 0)
           IN  /\ op.at \in QuantileNames /\ op = Quantile(op.at) /\ n \in Nat /\ view' = view
               /\ \/ n = 0 /\ todo'[t] = s
                  \/ n # 0 /\ w \in WalkOps /\ \A M : Has(todo'[t], M) <=> w \in M \/ Has(s, M)
<1> DEFINE op == Head(todo[t])
           s == Tail(todo[t])
           n == cnt["count"]
           w == Walk(op.at, Target(Percent(op.at), n), 0, 0)
<1>1. /\ Pops(t) => todo'[t] = s
      /\ \A o \in OpsOf("snapshot") : Puts(t, o) =>
            \A M : Has(todo'[t], M) <=> o \in M \/ Has(s, M)
  BY SnapshotSteps
<1>2. /\ Doing(t, "rank") /\ view' = view
      /\ \/ n = 0 /\ Pops(t)
         \/ n # 0 /\ Puts(t, Walk(op.at, Target(op.percent, n), 0, 0))
  BY StepFacts
<1>3. op.at \in QuantileNames /\ op = Quantile(op.at) /\ op.percent = Percent(op.at)
  BY <1>2, OpFacts, OpTypes DEF Doing
<1>4. n \in Nat
  BY DEF TypeInv, Counters
<1>5. n # 0 => w \in OpsOf("snapshot") /\ w \in WalkOps
  <2>1. 0 \in BucketSet
    BY BucketsFinite
  <2> QED
    BY <1>3, <1>4, <2>1, TargetFacts, PutOps
<1>6. \/ n = 0 /\ Pops(t)
      \/ n # 0 /\ Puts(t, w)
  BY <1>2, <1>3
<1> HIDE DEF op, s, n, w
<1>7. \/ n = 0 /\ todo'[t] = s
      \/ n # 0 /\ w \in WalkOps /\ \A M : Has(todo'[t], M) <=> w \in M \/ Has(s, M)
  BY <1>1, <1>5, <1>6
<1> QED
  BY <1>2, <1>3, <1>4, <1>7 DEF op, s, n, w

(* The other steps of a snapshot touch neither the quantiles nor a walk. *)
LEMMA PlainSteps ==
    ASSUME TypeInv, ShapeInv, NEW t \in Goroutines, call[t] = "snapshot",
           Step(t), ~Return(t), ~DoWalk(t), ~DoRank(t)
    PROVE  /\ ~Has(todo'[t], WalkOps) /\ ~Has(todo[t], WalkOps)
           /\ \A q \in QuantileNames : /\ Has(todo'[t], {Quantile(q)}) <=> Has(todo[t], {Quantile(q)})
                                       /\ q \in DOMAIN view'[t] <=> q \in DOMAIN view[t]
                                       /\ q \in DOMAIN view[t] => view'[t][q] = view[t][q]
<1> DEFINE op == Head(todo[t])
           s == Tail(todo[t])
<1>1. /\ todo[t] # << >> /\ (Pops(t) => todo'[t] = s) /\ ~Has(s, WalkOps)
      /\ \A M : Has(todo[t], M) <=> op \in M \/ Has(s, M)
      /\ \A o \in OpsOf("snapshot") : Puts(t, o) =>
            \A M : Has(todo'[t], M) <=> o \in M \/ Has(s, M)
      /\ DoLoad(t) \/ DoMean(t) \/ DoPolicy(t)
  BY SnapshotSteps
<1>2. op.do \in {"load", "mean", "policy"}
  BY <1>1, StepFacts DEF Doing
<1>3. op \notin WalkOps /\ \A q : op # Quantile(q)
  BY <1>2 DEF WalkOps, Quantile
<1>4. /\ Load("sum") \notin WalkOps /\ (\A q : Load("sum") # Quantile(q))
      /\ Load("sum") \in OpsOf("snapshot")
  BY PutOps DEF Load, WalkOps, Quantile
<1>5. Pops(t) \/ Puts(t, Load("sum"))
  BY <1>1, StepFacts
<1>6. \E name, n : name \in Counters \cup {"policy"} /\ Sees(t, name, n)
  <2>1. CASE DoLoad(t)
    <3>1. Doing(t, "load") /\ Sees(t, op.at, cnt[op.at])
      BY <2>1, StepFacts
    <3>2. op.at \in Counters
      BY <3>1, OpFacts, OpTypes DEF Doing
    <3> QED
      BY <3>1, <3>2
  <2>2. CASE DoMean(t)
    <3>1. "count" \in Counters
      BY DEF Counters
    <3> QED
      BY <2>2, <3>1, StepFacts
  <2>3. CASE DoPolicy(t)
    BY <2>3, StepFacts
  <2> QED
    BY <1>1, <2>1, <2>2, <2>3
<1>7. \A q \in QuantileNames : q \notin Counters \cup {"policy"}
  BY DEF QuantileNames, Counters
<1>8. \A q \in QuantileNames : /\ q \in DOMAIN view'[t] <=> q \in DOMAIN view[t]
                               /\ q \in DOMAIN view[t] => view'[t][q] = view[t][q]
  BY <1>6, <1>7, SeesFacts
<1> HIDE DEF op, s
<1>9. ~Has(todo'[t], WalkOps) /\ ~Has(todo[t], WalkOps)
  BY <1>1, <1>3, <1>4, <1>5
<1>10. \A q \in QuantileNames : Has(todo'[t], {Quantile(q)}) <=> Has(todo[t], {Quantile(q)})
  BY <1>1, <1>3, <1>4, <1>5
<1> QED
  BY <1>8, <1>9, <1>10

LEMMA OneWalk ==
    ASSUME NEW s, NEW op \in WalkOps, Has(s, {op})
    PROVE  Has(s, WalkOps)
BY DEF Has

LEMMA OwnWalk ==
    ASSUME TypeInv, ShapeInv, HistoryInv, BookInv, NEW t \in Goroutines, Undisturbed(t), WalkInv(t),
           Step(t), ~Return(t)
    PROVE  WalkInv(t)'
<1> DEFINE op == Head(todo[t])
           s == Tail(todo[t])
<1>0. call[t] = "snapshot"
  BY DEF Undisturbed
<1>1. /\ Quiet /\ ~Has(s, WalkOps)
  BY <1>0, SnapshotSteps
<1>2. buckets' = buckets
  BY <1>1 DEF Quiet
<1>3. \A q \in QuantileNames \cap DOMAIN view[t] : view[t][q] \in BucketSet
  BY DEF WalkInv
<1>4. CASE DoWalk(t)
  <2> DEFINE seen == op.seen + buckets[op.i]
             w == Walk(op.at, op.target, op.i + 1, seen)
  <2>1. /\ op \in WalkOps
        /\ \/ seen > op.target /\ Sees(t, op.at, op.i) /\ todo'[t] = s
           \/ /\ seen <= op.target /\ view' = view
              /\ w \in WalkOps /\ op.i + 1 \in BucketSet
              /\ op.target < seen + SumFunctionOnSet(buckets, op.i + 1..numBuckets - 1)
              /\ \A M : Has(todo'[t], M) <=> w \in M \/ Has(s, M)
    BY <1>0, <1>4, WalkSteps
  <2>2. op.at \in QuantileNames /\ op.i \in BucketSet
    BY <2>1, OpTypes
  <2>3. w.seen = seen /\ w.target = op.target /\ w.i = op.i + 1
    BY DEF Walk
  <2> HIDE DEF op, s, seen, w
  <2>4. CASE Sees(t, op.at, op.i) /\ todo'[t] = s
    <3>1. \A q \in QuantileNames \cap DOMAIN view'[t] : view'[t][q] \in BucketSet
      BY <1>3, <2>2, <2>4, SeesFacts
    <3>2. \A o \in WalkOps : ~Has(todo'[t], {o})
      BY <1>1, <2>4, OneWalk
    <3> QED
      BY <3>1, <3>2 DEF WalkInv
  <2>5. CASE /\ seen <= op.target /\ view' = view
             /\ w \in WalkOps /\ op.i + 1 \in BucketSet
             /\ op.target < seen + SumFunctionOnSet(buckets, op.i + 1..numBuckets - 1)
             /\ \A M : Has(todo'[t], M) <=> w \in M \/ Has(s, M)
    <3>1. \A o \in WalkOps : Has(todo'[t], {o}) => o = w
      BY <1>1, <2>5, OneWalk
    <3>2. w.seen <= w.target /\ w.target < w.seen + SumFunctionOnSet(buckets', w.i..numBuckets - 1)
      BY <1>2, <2>3, <2>5
    <3> QED
      BY <1>3, <2>5, <3>1, <3>2 DEF WalkInv
  <2> QED
    BY <2>1, <2>4, <2>5
<1>5. CASE DoRank(t)
  <2> DEFINE n == cnt["count"]
             k == Target(Percent(op.at), n)
             w == Walk(op.at, k, 0, 0)
  <2>1. /\ op.at \in QuantileNames /\ n \in Nat /\ view' = view
        /\ \/ n = 0 /\ todo'[t] = s
           \/ n # 0 /\ w \in WalkOps /\ \A M : Has(todo'[t], M) <=> w \in M \/ Has(s, M)
    BY <1>0, <1>5, RankSteps
  <2>2. n # 0 => k \in Nat /\ k < n
    BY <2>1, TargetFacts
  <2>3. w.seen = 0 /\ w.target = k /\ w.i = 0
    BY DEF Walk
  <2>4. n <= SumFunctionOnSet(buckets, 0..numBuckets - 1)
    <3>1. BucketSet = 0..numBuckets - 1
      BY BucketsFinite
    <3> QED
      BY <3>1, UndisturbedBooks
  <2>5. SumFunctionOnSet(buckets, 0..numBuckets - 1) \in Nat
    <3>1. 0 \in BucketSet /\ buckets \in [BucketSet -> Nat]
      BY BucketsFinite DEF TypeInv
    <3> QED
      BY <3>1, SumFrom
  <2> HIDE DEF op, s, n, k, w
  <2>6. CASE todo'[t] = s
    <3>1. \A o \in WalkOps : ~Has(todo'[t], {o})
      BY <1>1, <2>6, OneWalk
    <3> QED
      BY <1>3, <2>1, <3>1 DEF WalkInv
  <2>7. CASE n # 0 /\ w \in WalkOps /\ \A M : Has(todo'[t], M) <=> w \in M \/ Has(s, M)
    <3>1. \A o \in WalkOps : Has(todo'[t], {o}) => o = w
      BY <1>1, <2>7, OneWalk
    <3>2. w.seen <= w.target /\ w.target < w.seen + SumFunctionOnSet(buckets', w.i..numBuckets - 1)
      BY <1>2, <2>1, <2>2, <2>3, <2>4, <2>5, <2>7
    <3> QED
      BY <1>3, <2>1, <3>1, <3>2 DEF WalkInv
  <2> QED
    BY <2>1, <2>6, <2>7
<1>6. CASE ~DoWalk(t) /\ ~DoRank(t)
  <2>1. /\ ~Has(todo'[t], WalkOps)
        /\ \A q \in QuantileNames : /\ q \in DOMAIN view'[t] <=> q \in DOMAIN view[t]
                                    /\ q \in DOMAIN view[t] => view'[t][q] = view[t][q]
    BY <1>0, <1>6, PlainSteps
  <2>2. \A o \in WalkOps : ~Has(todo'[t], {o})
    BY <2>1, OneWalk
  <2> QED
    BY <1>3, <2>1, <2>2 DEF WalkInv
<1> QED
  BY <1>4, <1>5, <1>6

(* A snapshot that begins. *)
LEMMA BeginsSnapshot ==
    ASSUME TypeInv, NEW t \in Goroutines, Call(t), call'[t] = "snapshot"
    PROVE  /\ TypeInv' /\ todo'[t] = Snapshot /\ DOMAIN view'[t] = {} /\ before'[t] = finished'
<1>1. CASE \E r \in Requests : BeginRequest(t, r)
  BY <1>1, BeginRequestFacts
<1>2. CASE BeginReset(t)
  BY <1>2, BeginResetFacts
<1>3. CASE BeginReader(t)
  <2>1. PICK name \in OtherCalls \cup {"snapshot"} : \E program \in Seq(OpsOf(name)) :
           /\ Begin(t, name, program) /\ UNCHANGED <<reqs, finished, dirty>>
           /\ name = "snapshot" => program = Snapshot
    BY <1>3 DEF BeginReader
  <2>2. PICK program \in Seq(OpsOf(name)) :
           /\ Begin(t, name, program) /\ UNCHANGED <<reqs, finished, dirty>>
           /\ name = "snapshot" => program = Snapshot
    BY <2>1
  <2>3. /\ TypeInv' /\ call[t] = "idle" /\ call'[t] = name /\ todo'[t] = program /\ before'[t] = finished
        /\ view' = view /\ finished' = finished
    BY <2>2, BeginReaderFacts
  <2>4. view[t] = << >> /\ DOMAIN << >> = {}
    BY <2>3 DEF TypeInv
  <2> QED
    BY <2>2, <2>3, <2>4
<1>4. (\E r \in Requests : BeginRequest(t, r)) \/ BeginReset(t) \/ BeginReader(t)
  <2>1. CASE Step(t)
    <3>1. call[t] = "idle"
      BY CallKinds, BeginRequestFacts, BeginResetFacts DEF BeginSnapshot, BeginOther, Begin
    <3> QED
      BY <2>1, <3>1, StepType, OpFacts, ReturnFacts
  <2>2. CASE ~Step(t)
    BY <2>2, NextKinds DEF Step
  <2> QED
    BY <2>1, <2>2
<1> QED
  BY <1>1, <1>2, <1>3, <1>4

LEMMA SnapshotStarts ==
    ASSUME TypeInv, NEW t \in Goroutines, Call(t), call'[t] = "snapshot"
    PROVE  LoadedInv(t)' /\ WalkInv(t)' /\ RankInv(t)'
<1>1. /\ TypeInv' /\ todo'[t] = Snapshot /\ DOMAIN view'[t] = {} /\ before'[t] = finished'
  BY BeginsSnapshot
<1>2. /\ Has(todo'[t], {Load("hits")}) /\ Has(todo'[t], {Load("misses")}) /\ Has(todo'[t], {Load("total")})
      /\ ~Has(todo'[t], WalkOps)
      /\ \A q \in QuantileNames : Has(todo'[t], {Quantile(q)})
  BY <1>1, SnapshotProgram
<1>3. \A op \in WalkOps : ~Has(todo'[t], {op})
  BY <1>2, OneWalk
<1>4. before'[t] <= finished'
  BY <1>1 DEF TypeInv
<1>5. LoadedInv(t)'
  BY <1>2, <1>4 DEF LoadedInv
<1>6. WalkInv(t)'
  BY <1>1, <1>3 DEF WalkInv
<1>7. RankInv(t)'
  BY <1>1, <1>2, <1>3 DEF RankInv
<1> QED
  BY <1>5, <1>6, <1>7

(* A snapshot at work was a snapshot before its own step, or begins. *)
LEMMA OwnStep ==
    ASSUME TypeInv, NEW t \in Goroutines, Call(t) \/ Step(t), Undisturbed(t)'
    PROVE  \/ Call(t) /\ call'[t] = "snapshot"
           \/ Step(t) /\ ~Return(t) /\ Undisturbed(t) /\ overlap' = overlap
<1>1. call'[t] = "snapshot" /\ overlap'[t] # "reset" /\ dirty' = 0
  BY DEF Undisturbed
<1>2. CASE Step(t)
  <2>1. ~Return(t)
    BY <1>1, ReturnFacts
  <2>2. Frozen
    BY <1>2, <2>1, StepType
  <2> QED
    BY <1>1, <1>2, <2>1, <2>2 DEF Frozen, Undisturbed
<1> QED
  BY <1>1, <1>2

LEMMA SnapPreserved ==
    ASSUME TypeInv, ShapeInv, HistoryInv, BookInv, SnapInv, NEW t \in Goroutines, Call(t) \/ Step(t)
    PROVE  SnapInv'
<1> SUFFICES ASSUME NEW u \in Goroutines, Undisturbed(u)'
             PROVE  LoadedInv(u)' /\ WalkInv(u)'
  BY DEF SnapInv
<1>1. CASE u = t
  <2>1. CASE Call(t) /\ call'[t] = "snapshot"
    BY <1>1, <2>1, SnapshotStarts
  <2>2. CASE Step(t) /\ ~Return(t) /\ Undisturbed(t)
    <3>1. LoadedInv(t) /\ WalkInv(t)
      BY <2>2 DEF SnapInv
    <3>2. LoadedInv(t)'
      BY <2>2, <3>1, OwnLoaded
    <3>3. WalkInv(t)'
      BY <2>2, <3>1, OwnWalk
    <3> QED
      BY <1>1, <3>2, <3>3
  <2> QED
    BY <1>1, <2>1, <2>2, OwnStep
<1>2. CASE u # t
  <2>1. /\ Undisturbed(u) /\ ~BeginReset(t) /\ t \notin Resetting
        /\ todo'[u] = todo[u] /\ view'[u] = view[u] /\ before'[u] = before[u]
    BY <1>2, OthersSnapshots
  <2>2. /\ TypeInv'
        /\ cnt["hits"] <= cnt'["hits"] /\ cnt["misses"] <= cnt'["misses"] /\ finished <= finished'
        /\ \A S \in SUBSET BucketSet : SumFunctionOnSet(buckets, S) <= SumFunctionOnSet(buckets', S)
    BY <2>1, OnlyGrows
  <2> QED
    BY <2>1, <2>2, OthersLoaded
<1> QED
  BY <1>1, <1>2

(* How many observations lie under a bucket. *)
LEMMA UnderFacts ==
    ASSUME TypeInv
    PROVE  /\ Under(0) = 0
           /\ \A i \in BucketSet : /\ Under(i) \in Nat /\ Under(i + 1) \in Nat
                                   /\ Under(i + 1) = Under(i) + Due(InBucket(i), Ones)
<1>1. \A r \in Observed : bucketIndex(r.latency) \in BucketSet
  <2>1. \A r \in Observed : r.latency \in Nat /\ r.latency < 2 ^ Width
    BY RequestsAssumption DEF Observed
  <2>2. 2 ^ Width \in Nat
    BY SizeFacts
  <2>3. \A r \in Observed : r.latency \in 0..2 ^ Width - 1
    BY <2>1, <2>2
  <2> QED
    BY <2>3, IndexInArray
<1>2. BucketSet \subseteq Nat /\ \A r \in Observed : bucketIndex(r.latency) \in Nat
  <2>1. BucketSet \subseteq Nat
    BY BucketsFinite
  <2> QED
    BY <1>1, <2>1
<1>3. Ones \in [Requests -> Int] /\ Ones \in [Requests -> Nat] /\ reqs \in [Requests -> Nat]
  BY DEF Ones, TypeInv
<1> DEFINE Lower(i) == {r \in Observed : bucketIndex(r.latency) < i}
           f == [r \in Requests |-> reqs[r] * Ones[r]]
<1>4. \A i : Lower(i) \in SUBSET Requests
  BY DEF Observed
<1>5. f \in [Requests -> Int]
  BY <1>3
<1>6. \A S : Due(S, Ones) = SumFunctionOnSet(f, S)
  BY DEF Due, Weighed
<1>7. \A i : Under(i) = SumFunctionOnSet(f, Lower(i))
  BY <1>6 DEF Under
<1>8. \A i : Under(i) \in Nat
  <2>1. \A i : Due(Lower(i), Ones) \in Nat
    BY <1>3, <1>4, DueType
  <2> QED
    BY <2>1 DEF Under
<1>9. Under(0) = 0
  <2>1. Lower(0) = {}
    <3>1. \A b \in Nat : ~(b < 0)
      OBVIOUS
    <3> QED
      BY <1>2, <3>1
  <2>2. SumFunctionOnSet(f, {}) = 0
    <3> HIDE DEF f
    <3> QED
      BY FS_EmptySet, SumOfZeros
  <2> QED
    BY <1>7, <2>1, <2>2
<1>10. ASSUME NEW i \in BucketSet PROVE Under(i + 1) = Under(i) + Due(InBucket(i), Ones)
  <2> DEFINE S == Lower(i + 1)
             P == Lower(i)
  <2>1. P \in SUBSET S /\ S \ P = InBucket(i) /\ S \in SUBSET Requests
    <3>1. i \in Nat
      BY <1>2
    <3>2. \A b \in Nat : (b < i => b < i + 1) /\ (b < i + 1 /\ ~(b < i) <=> b = i)
      BY <3>1
    <3>3. P \in SUBSET S /\ S \ P = InBucket(i)
      BY <1>2, <3>2 DEF InBucket
    <3> QED
      BY <1>4, <3>3
  <2>2. IsFiniteSet(S)
    BY <2>1, RequestsAssumption, FS_Subset
  <2> HIDE DEF S, P, f
  <2>3. SumFunctionOnSet(f, S) = SumFunctionOnSet(f, P) + SumFunctionOnSet(f, S \ P)
    BY <1>5, <2>1, <2>2, SumUnion
  <2> QED
    BY <1>6, <1>7, <2>1, <2>3 DEF S, P
<1> QED
  BY <1>8, <1>9, <1>10

(* A snapshot that runs alone finds every request recorded. *)
LEMMA AloneBooks ==
    ASSUME TypeInv, ShapeInv, HistoryInv, BookInv, NEW t \in Goroutines, Undisturbed(t), overlap[t] = "none"
    PROVE  /\ cnt["count"] = Due(Observed, Ones)
           /\ \A b \in BucketSet : buckets[b] = Due(InBucket(b), Ones)
<1>1. t \in Active /\ t \notin Recording /\ dirty = 0
  BY DEF Undisturbed, Active, Recording
<1>2. Recording = {}
  BY <1>1 DEF HistoryInv, Recording, Active
<1>3. LedgerInv({})
  BY <1>1, UndisturbedBooks DEF Book
<1>4. /\ \A c : Kept({}, c) = cnt[c]
      /\ \A b : KeptBucket({}, b) = buckets[b]
  BY KeptNothing
<1>5. \A M : Owed(M) = 0
  BY <1>2, OwedNothing
<1>6. "count" \in FedCounters \ {"bytesFetched"} /\ cnt["count"] \in Nat
      /\ Feeders("count") = Observed /\ Weight("count") = Ones
  BY DEF FedCounters, Feeders, Weight, TypeInv, Counters
<1>7. cnt["count"] + 0 = Due(Observed, Ones)
  BY <1>3, <1>4, <1>5, <1>6 DEF LedgerInv
<1>8. \A b \in BucketSet : buckets[b] + 0 = Due(InBucket(b), Ones) /\ buckets[b] \in Nat
  BY <1>3, <1>4, <1>5 DEF LedgerInv, TypeInv
<1> QED
  BY <1>6, <1>7, <1>8

LEMMA OwnRank ==
    ASSUME TypeInv, ShapeInv, HistoryInv, BookInv, NEW t \in Goroutines, Undisturbed(t), overlap[t] = "none",
           WalkInv(t), RankInv(t), Step(t), ~Return(t)
    PROVE  RankInv(t)'
<1> DEFINE op == Head(todo[t])
           s == Tail(todo[t])
           n == Due(Observed, Ones)
<1>0. call[t] = "snapshot"
  BY DEF Undisturbed
<1>1. /\ Quiet /\ Frozen /\ ~Has(s, WalkOps)
      /\ \A M : Has(todo[t], M) <=> op \in M \/ Has(s, M)
  BY <1>0, SnapshotSteps
<1>2. Due(Observed, Ones)' = n /\ \A i : Under(i)' = Under(i)
  BY <1>1 DEF Frozen, Due, Weighed, Under
<1>3. cnt["count"] = n /\ \A b \in BucketSet : buckets[b] = Due(InBucket(b), Ones)
  BY AloneBooks
<1>4. n \in Nat
  BY <1>3 DEF TypeInv, Counters
<1>5. \A q \in QuantileNames \cap DOMAIN view[t] :
        /\ n # 0
        /\ 100 * Under(view[t][q]) <= Percent(q) * n
        /\ 100 * Under(view[t][q] + 1) > Percent(q) * n
  BY DEF RankInv
<1>6. \A o \in WalkOps : Has(todo[t], {o}) =>
        n # 0 /\ o.target = Target(Percent(o.at), n) /\ o.seen = Under(o.i)
  BY DEF RankInv
<1>7. \A q \in QuantileNames :
        \/ q \in DOMAIN view[t] \/ n = 0
        \/ Has(todo[t], {Quantile(q)})
        \/ \E o \in WalkOps : o.at = q /\ Has(todo[t], {o})
  BY DEF RankInv
<1>8. Under(0) = 0 /\ \A i \in BucketSet : /\ Under(i) \in Nat /\ Under(i + 1) \in Nat
                                           /\ Under(i + 1) = Under(i) + Due(InBucket(i), Ones)
  BY UnderFacts
<1>9. ASSUME /\ \A q \in QuantileNames \cap DOMAIN view'[t] :
                   /\ n # 0
                   /\ 100 * Under(view'[t][q]) <= Percent(q) * n
                   /\ 100 * Under(view'[t][q] + 1) > Percent(q) * n
             /\ \A o \in WalkOps : Has(todo'[t], {o}) =>
                   n # 0 /\ o.target = Target(Percent(o.at), n) /\ o.seen = Under(o.i)
             /\ \A q \in QuantileNames :
                   \/ q \in DOMAIN view'[t] \/ n = 0
                   \/ Has(todo'[t], {Quantile(q)})
                   \/ \E o \in WalkOps : o.at = q /\ Has(todo'[t], {o})
      PROVE  RankInv(t)'
  BY <1>2, <1>9 DEF RankInv
<1>10. \A o \in WalkOps : \A q : o # Quantile(q)
  BY DEF WalkOps, Quantile
<1>11. CASE DoWalk(t)
  <2> DEFINE seen == op.seen + buckets[op.i]
             w == Walk(op.at, op.target, op.i + 1, seen)
             q0 == op.at
             k == op.target
             i == op.i
  <2>1. /\ op \in WalkOps /\ Has(todo[t], {op}) /\ op.seen <= k
        /\ \/ seen > k /\ Sees(t, q0, i) /\ todo'[t] = s
           \/ /\ seen <= k /\ view' = view
              /\ w \in WalkOps /\ i + 1 \in BucketSet
              /\ \A M : Has(todo'[t], M) <=> w \in M \/ Has(s, M)
    BY <1>0, <1>11, WalkSteps
  <2>2. q0 \in QuantileNames /\ i \in BucketSet /\ op.seen \in Nat /\ k \in Nat
    BY <2>1, OpTypes
  <2>3. n # 0 /\ k = Target(Percent(q0), n) /\ op.seen = Under(i)
    BY <1>6, <2>1
  <2>4. seen = Under(i + 1)
    BY <1>3, <1>8, <2>2, <2>3
  <2>5. w.at = q0 /\ w.seen = seen /\ w.target = k /\ w.i = i + 1
    BY DEF Walk
  <2>6. /\ Percent(q0) \in Nat
        /\ 100 * k <= Percent(q0) * n /\ Percent(q0) * n < 100 * (k + 1)
    BY <1>4, <2>2, <2>3, TargetFacts
  <2>7. \A q \in QuantileNames : Has(todo[t], {Quantile(q)}) <=> Has(s, {Quantile(q)})
    BY <1>1, <1>10, <2>1
  <2>8. \A o \in WalkOps : Has(todo[t], {o}) => o = op
    BY <1>1, OneWalk
  <2>9. Under(i) \in Nat /\ Under(i + 1) \in Nat
    BY <1>8, <2>2
  <2> HIDE DEF op, s, seen, w, q0, k, i, n
  <2>10. CASE seen > k /\ Sees(t, q0, i) /\ todo'[t] = s
    <3>1. 100 * Under(i) <= Percent(q0) * n /\ 100 * Under(i + 1) > Percent(q0) * n
      <4> DEFINE p == Percent(q0) * n
                 a == Under(i)
                 b == Under(i + 1)
      <4>1. /\ a \in Nat /\ b \in Nat /\ k \in Nat /\ p \in Nat /\ a <= k /\ b > k
            /\ 100 * k <= p /\ p < 100 * (k + 1)
        BY <1>4, <2>1, <2>2, <2>3, <2>4, <2>6, <2>9, <2>10 DEF k
      <4> HIDE DEF p, a, b
      <4>2. 100 * a <= p /\ 100 * b > p
        BY <4>1
      <4> QED
        BY <4>2 DEF p, a, b
    <3>2. /\ DOMAIN view'[t] = DOMAIN view[t] \cup {q0} /\ view'[t][q0] = i
          /\ \A x \in DOMAIN view[t] \ {q0} : view'[t][x] = view[t][x]
      BY <2>10, SeesFacts
    <3>3. \A q \in QuantileNames \cap DOMAIN view'[t] :
             /\ n # 0
             /\ 100 * Under(view'[t][q]) <= Percent(q) * n
             /\ 100 * Under(view'[t][q] + 1) > Percent(q) * n
      BY <1>5, <2>3, <3>1, <3>2
    <3>4. \A o \in WalkOps : ~Has(todo'[t], {o})
      BY <1>1, <2>10, OneWalk
    <3>5. \A q \in QuantileNames : q \in DOMAIN view'[t] \/ n = 0 \/ Has(todo'[t], {Quantile(q)})
      <4> SUFFICES ASSUME NEW q \in QuantileNames, q \notin DOMAIN view'[t], n # 0
                   PROVE  Has(todo'[t], {Quantile(q)})
        OBVIOUS
      <4>1. q # q0 /\ q \notin DOMAIN view[t]
        BY <3>2
      <4>2. ~\E o \in WalkOps : o.at = q /\ Has(todo[t], {o})
        BY <2>8, <4>1 DEF q0
      <4> QED
        BY <1>7, <2>7, <2>10, <4>1, <4>2
    <3> QED
      BY <1>9, <3>3, <3>4, <3>5
  <2>11. CASE /\ seen <= k /\ view' = view
              /\ w \in WalkOps /\ i + 1 \in BucketSet
              /\ \A M : Has(todo'[t], M) <=> w \in M \/ Has(s, M)
    <3>1. \A o \in WalkOps : Has(todo'[t], {o}) <=> o = w
      <4>1. \A o \in WalkOps : ~Has(s, {o})
        BY <1>1, OneWalk
      <4> QED
        BY <2>11, <4>1
    <3>2. \A o \in WalkOps : Has(todo'[t], {o}) =>
             n # 0 /\ o.target = Target(Percent(o.at), n) /\ o.seen = Under(o.i)
      BY <2>3, <2>4, <2>5, <3>1
    <3>3. \A q \in QuantileNames :
             \/ q \in DOMAIN view'[t] \/ n = 0
             \/ Has(todo'[t], {Quantile(q)})
             \/ \E o \in WalkOps : o.at = q /\ Has(todo'[t], {o})
      <4> SUFFICES ASSUME NEW q \in QuantileNames, q \notin DOMAIN view[t], n # 0, q # q0
                   PROVE  Has(todo'[t], {Quantile(q)})
        BY <2>5, <2>11, <3>1
      <4>1. ~\E o \in WalkOps : o.at = q /\ Has(todo[t], {o})
        BY <2>8 DEF q0
      <4> QED
        BY <1>7, <2>7, <2>11, <4>1
    <3> QED
      BY <1>5, <1>9, <2>11, <3>2, <3>3
  <2> QED
    BY <2>1, <2>10, <2>11
<1>12. CASE DoRank(t)
  <2> DEFINE k == Target(Percent(op.at), n)
             w == Walk(op.at, k, 0, 0)
             q0 == op.at
  <2>1. /\ q0 \in QuantileNames /\ op = Quantile(q0) /\ view' = view
        /\ \/ n = 0 /\ todo'[t] = s
           \/ n # 0 /\ w \in WalkOps /\ \A M : Has(todo'[t], M) <=> w \in M \/ Has(s, M)
    BY <1>0, <1>3, <1>12, RankSteps
  <2>2. w.at = q0 /\ w.seen = 0 /\ w.target = k /\ w.i = 0 /\ k = Target(Percent(q0), n)
    BY DEF Walk
  <2>3. \A o \in WalkOps : ~Has(todo[t], {o}) /\ ~Has(s, {o})
    <3>1. op \notin WalkOps
      BY <1>10, <2>1
    <3> QED
      BY <1>1, <3>1, OneWalk
  <2> HIDE DEF op, s, n, k, w, q0
  <2>4. CASE n = 0 /\ todo'[t] = s
    BY <1>5, <1>9, <2>1, <2>3, <2>4
  <2>5. CASE n # 0 /\ w \in WalkOps /\ \A M : Has(todo'[t], M) <=> w \in M \/ Has(s, M)
    <3>1. \A o \in WalkOps : Has(todo'[t], {o}) <=> o = w
      BY <2>3, <2>5
    <3>2. \A o \in WalkOps : Has(todo'[t], {o}) =>
             n # 0 /\ o.target = Target(Percent(o.at), n) /\ o.seen = Under(o.i)
      BY <1>8, <2>2, <2>5, <3>1
    <3>3. \A q \in QuantileNames :
             \/ q \in DOMAIN view'[t] \/ n = 0
             \/ Has(todo'[t], {Quantile(q)})
             \/ \E o \in WalkOps : o.at = q /\ Has(todo'[t], {o})
      <4> SUFFICES ASSUME NEW q \in QuantileNames, q \notin DOMAIN view[t], n # 0, q # q0
                   PROVE  Has(todo'[t], {Quantile(q)})
        BY <2>1, <2>2, <2>5, <3>1
      <4>1. Has(todo[t], {Quantile(q)})
        BY <1>7, <2>3
      <4>2. op # Quantile(q)
        BY <2>1 DEF Quantile
      <4> QED
        BY <1>1, <2>5, <4>1, <4>2
    <3> QED
      BY <1>5, <1>9, <2>1, <3>2, <3>3
  <2> QED
    BY <2>1, <2>4, <2>5
<1>13. CASE ~DoWalk(t) /\ ~DoRank(t)
  <2>1. /\ ~Has(todo'[t], WalkOps) /\ ~Has(todo[t], WalkOps)
        /\ \A q \in QuantileNames : /\ Has(todo'[t], {Quantile(q)}) <=> Has(todo[t], {Quantile(q)})
                                    /\ q \in DOMAIN view'[t] <=> q \in DOMAIN view[t]
                                    /\ q \in DOMAIN view[t] => view'[t][q] = view[t][q]
    BY <1>0, <1>13, PlainSteps
  <2>2. \A o \in WalkOps : ~Has(todo'[t], {o}) /\ ~Has(todo[t], {o})
    BY <2>1, OneWalk
  <2> HIDE DEF n
  <2> QED
    BY <1>5, <1>7, <1>9, <2>1, <2>2
<1> QED
  BY <1>11, <1>12, <1>13

LEMMA AlonePreserved ==
    ASSUME TypeInv, ShapeInv, HistoryInv, BookInv, SnapInv, AloneInv, NEW t \in Goroutines, Call(t) \/ Step(t)
    PROVE  AloneInv'
<1> SUFFICES ASSUME NEW u \in Goroutines, Undisturbed(u)', overlap'[u] = "none"
             PROVE  RankInv(u)'
  BY DEF AloneInv
<1>1. u = t
  BY OthersSnapshots
<1>2. CASE Call(t) /\ call'[t] = "snapshot"
  BY <1>1, <1>2, SnapshotStarts
<1>3. CASE Step(t) /\ ~Return(t) /\ Undisturbed(t) /\ overlap' = overlap
  <2>1. WalkInv(t) /\ RankInv(t) /\ overlap[t] = "none"
    BY <1>1, <1>3 DEF SnapInv, AloneInv
  <2>2. RankInv(t)'
    BY <1>3, <2>1, OwnRank
  <2> QED
    BY <1>1, <2>2
<1> QED
  BY <1>1, <1>2, <1>3, OwnStep

-----------------------------------------------------------------------------
(* The inductive invariant. *)
CollectorInv == TypeInv /\ ShapeInv /\ HistoryInv /\ BookInv /\ SnapInv /\ AloneInv

LEMMA InitCollector ==
    ASSUME Init
    PROVE  CollectorInv
<1>1. TypeInv /\ ShapeInv /\ HistoryInv /\ BookInv
  BY InitBooks
<1>2. \A t \in Goroutines : ~Undisturbed(t)
  BY DEF Init, Undisturbed
<1> QED
  BY <1>1, <1>2 DEF CollectorInv, SnapInv, AloneInv

LEMMA StutterCollector ==
    ASSUME CollectorInv, UNCHANGED vars
    PROVE  CollectorInv'
<1>1. /\ cnt' = cnt /\ buckets' = buckets /\ todo' = todo /\ view' = view /\ call' = call
      /\ reqs' = reqs /\ finished' = finished /\ overlap' = overlap /\ before' = before /\ dirty' = dirty
  BY StutterFacts
<1>2. TypeInv' /\ BookInv'
  BY StutterBooks DEF CollectorInv
<1>3. ShapeInv'
  BY <1>1 DEF CollectorInv, ShapeInv
<1>4. HistoryInv'
  BY <1>1 DEF CollectorInv, HistoryInv, Resetting, Active, Late, Recording
<1>5. \A t \in Goroutines : /\ Undisturbed(t)' => Undisturbed(t)
                            /\ LoadedInv(t) => LoadedInv(t)'
                            /\ WalkInv(t) => WalkInv(t)'
                            /\ RankInv(t) => RankInv(t)'
  <2> SUFFICES ASSUME NEW t \in Goroutines
               PROVE  /\ Undisturbed(t)' => Undisturbed(t)
                      /\ LoadedInv(t) => LoadedInv(t)'
                      /\ WalkInv(t) => WalkInv(t)'
                      /\ RankInv(t) => RankInv(t)'
    OBVIOUS
  <2>1. Undisturbed(t)' => Undisturbed(t)
    BY <1>1 DEF Undisturbed
  <2>2. LoadedInv(t) => LoadedInv(t)'
    BY <1>1 DEF LoadedInv
  <2>3. WalkInv(t) => WalkInv(t)'
    BY <1>1 DEF WalkInv
  <2>4. Due(Observed, Ones)' = Due(Observed, Ones) /\ \A i : Under(i)' = Under(i)
    BY <1>1 DEF Due, Weighed, Under
  <2>5. RankInv(t) => RankInv(t)'
    BY <1>1, <2>4 DEF RankInv
  <2> QED
    BY <2>1, <2>2, <2>3, <2>5
<1>6. SnapInv'
  BY <1>5 DEF CollectorInv, SnapInv
<1>7. AloneInv'
  BY <1>1, <1>5 DEF CollectorInv, AloneInv
<1> QED
  BY <1>2, <1>3, <1>4, <1>6, <1>7 DEF CollectorInv

LEMMA StepCollector ==
    ASSUME CollectorInv, Next
    PROVE  CollectorInv'
<1>1. PICK t \in Goroutines : Call(t) \/ Step(t)
  BY DEF Next
<1>2. TypeInv /\ ShapeInv /\ HistoryInv /\ BookInv /\ SnapInv /\ AloneInv
  BY DEF CollectorInv
<1>3. TypeInv' /\ ShapeInv'
  BY <1>1, <1>2, ShapePreserved
<1>4. HistoryInv'
  BY <1>1, <1>2, HistoryPreserved
<1>5. BookInv'
  BY <1>1, <1>2, BookPreserved
<1>6. SnapInv'
  BY <1>1, <1>2, SnapPreserved
<1>7. AloneInv'
  BY <1>1, <1>2, AlonePreserved
<1> QED
  BY <1>3, <1>4, <1>5, <1>6, <1>7 DEF CollectorInv

(* CollectorInvariant: however the atomic operations of the calls          *)
(* interleave, the counters and buckets are what the requests recorded add *)
(* up to less what is still to be added, the drift a Reset leaves is paid  *)
(* for by requests that met it, and a snapshot has loaded what it needs    *)
(* for the loads to come (collector.go:110-122, 176-231; latency.go:64-79, *)
(* 98-125, 136-144).                                                       *)
THEOREM CollectorInvariant == Spec => []CollectorInv
<1>1. Init => CollectorInv
  BY InitCollector
<1>2. CollectorInv /\ [Next]_vars => CollectorInv'
  BY StepCollector, StutterCollector
<1> QED
  BY <1>1, <1>2, PTL DEF Spec

(* CollectorLossless: at rest, and unless a request met the last Reset,    *)
(* no increment is lost and none is counted twice: every counter, bucket   *)
(* and the maximum are exactly those of the requests recorded              *)
(* (collector.go:55-56, 110-122; latency.go:64-79).                        *)
THEOREM CollectorLossless == Spec => []LosslessAtRest
<1>1. CollectorInv => LosslessAtRest
  BY LosslessBooks DEF CollectorInv
<1> QED
  BY <1>1, CollectorInvariant, PTL

(* CollectorDriftBounded: at rest, total and hits + misses differ by at    *)
(* most one for each request that met the last Reset, however Reset's      *)
(* stores and the requests' additions interleaved (collector.go:216-231).  *)
THEOREM CollectorDriftBounded == Spec => []ResetDriftBounded
<1>1. CollectorInv => ResetDriftBounded
  BY DriftAtRest DEF CollectorInv
<1> QED
  BY <1>1, CollectorInvariant, PTL

LEMMA ReadySnapshots ==
    ASSUME CollectorInv, NEW t \in Goroutines, Ready(t)
    PROVE  /\ Undisturbed(t) /\ LoadedInv(t) /\ WalkInv(t) /\ (overlap[t] = "none" => RankInv(t))
           /\ \A M : ~Has(todo[t], M)
<1>1. Undisturbed(t) /\ todo[t] = << >>
  BY DEF Ready, Undisturbed
<1> QED
  BY <1>1, NoMarks DEF CollectorInv, SnapInv, AloneInv

(* CollectorNeverOvercounts: a snapshot that met no Reset has at most as   *)
(* many hits and misses as requests, and at least the requests that had    *)
(* returned when it began (collector.go:112, 178-184).                     *)
THEOREM CollectorNeverOvercounts == Spec => []SnapshotNeverOvercounts
<1>1. CollectorInv => SnapshotNeverOvercounts
  <2> SUFFICES ASSUME CollectorInv, NEW t \in Goroutines, Ready(t)
               PROVE  /\ view[t]["hits"] + view[t]["misses"] <= view[t]["total"]
                      /\ view[t]["hits"] + view[t]["misses"] >= before[t]
    BY DEF SnapshotNeverOvercounts
  <2>1. /\ view[t]["hits"] \in Nat /\ view[t]["misses"] \in Nat
        /\ view[t]["hits"] + view[t]["misses"] <= view[t]["total"]
        /\ before[t] <= view[t]["hits"] + view[t]["misses"]
    BY ReadySnapshots DEF LoadedInv
  <2>2. before[t] \in Nat
    BY DEF CollectorInv, TypeInv
  <2> QED
    BY <2>1, <2>2
<1> QED
  BY <1>1, CollectorInvariant, PTL

(* CollectorQuantileFound: the walk over the buckets always finds the rank *)
(* it looks for, whatever requests are recorded meanwhile                  *)
(* (latency.go:70-71, 105-125).                                            *)
THEOREM CollectorQuantileFound == Spec => []QuantileFound
<1>1. CollectorInv => QuantileFound
  <2> SUFFICES ASSUME CollectorInv, NEW t \in Goroutines, Ready(t),
                      NEW q \in QuantileNames \cap DOMAIN view[t]
               PROVE  view[t][q] # numBuckets
    BY DEF QuantileFound
  <2>1. view[t][q] \in BucketSet
    BY ReadySnapshots DEF WalkInv
  <2>2. numBuckets \in Nat /\ BucketSet = 0..numBuckets - 1
    BY BucketsFinite
  <2> QED
    BY <2>1, <2>2
<1> QED
  BY <1>1, CollectorInvariant, PTL

(* CollectorQuantileRanked: a snapshot that ran alone reports for each     *)
(* quantile the bucket of the observation of that rank, and none when      *)
(* there is no observation (latency.go:98-125).                            *)
THEOREM CollectorQuantileRanked == Spec => []QuantileRanked
<1>1. CollectorInv => QuantileRanked
  <2> SUFFICES ASSUME CollectorInv, NEW t \in Goroutines, Ready(t), overlap[t] = "none",
                      NEW q \in QuantileNames
               PROVE  LET below(i) == Number({r \in Observed : bucketIndex(r.latency) < i})
                          n        == Number(Observed)
                      IN  IF n = 0 THEN q \notin DOMAIN view[t]
                          ELSE /\ 100 * below(view[t][q]) <= Percent(q) * n
                               /\ 100 * below(view[t][q] + 1) > Percent(q) * n
    BY DEF QuantileRanked
  <2>1. RankInv(t) /\ \A M : ~Has(todo[t], M)
    BY ReadySnapshots
  <2>2. ASSUME NEW S PROVE Number(S) = Due(S, Ones)
    <3>1. [r \in Requests |-> reqs[r] * 1] = [r \in Requests |-> reqs[r] * Ones[r]]
      BY DEF Ones
    <3> QED
      BY <3>1 DEF Number, SumOver, Due, Weighed
  <2>3. \A i : Number({r \in Observed : bucketIndex(r.latency) < i}) = Under(i)
    BY <2>2 DEF Under
  <2> DEFINE n == Due(Observed, Ones)
  <2>4. /\ q \in DOMAIN view[t] => /\ n # 0
                                   /\ 100 * Under(view[t][q]) <= Percent(q) * n
                                   /\ 100 * Under(view[t][q] + 1) > Percent(q) * n
        /\ q \in DOMAIN view[t] \/ n = 0
    BY <2>1 DEF RankInv
  <2>5. Number(Observed) = n
    BY <2>2
  <2> HIDE DEF n
  <2> QED
    BY <2>3, <2>4, <2>5
<1> QED
  BY <1>1, CollectorInvariant, PTL
=============================================================================
