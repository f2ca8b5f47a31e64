----------------------------- MODULE Histogram -----------------------------
(***************************************************************************)
(* The bucketing of the latency histogram (metrics/latency.go) for a word  *)
(* of Width bits, of which SubBits are kept below the leading one.  The    *)
(* code has Width = 64 and SubBits = 4.                                    *)
(***************************************************************************)
EXTENDS Integers

CONSTANTS
    SubBits,    \* subBits
    Width       \* bits of a recorded value

ASSUME HistogramAssumption == SubBits \in Nat /\ Width \in Nat /\ SubBits < Width

subCount == 2 ^ SubBits
numBuckets == (Width - SubBits + 1) * subCount
BucketSet == 0..numBuckets - 1

(* bits.Len64 *)
Len64(v) == CHOOSE n \in 0..Width : v < 2 ^ n /\ (n = 0 \/ 2 ^ (n - 1) <= v)

(* Mutant of bucketIndex: the exponent is one too large. *)
bucketIndexOffByOne(v) ==
    IF v < subCount THEN v
    ELSE LET shift == Len64(v) - SubBits
         IN  (shift + 1) * subCount + (v \div 2 ^ shift - subCount)

(* Linear below subCount, then subCount buckets per power of two. *)
bucketIndex(v) ==
    IF v < subCount THEN v
    ELSE LET shift == Len64(v) - 1 - SubBits
         IN  (shift + 1) * subCount + (v \div 2 ^ shift - subCount)

(* Twice bucketMidpoint(i), which is a whole number. *)
TwiceMidpoint(i) ==
    IF i < subCount THEN 2 * i
    ELSE LET shift == i \div subCount - 1
         IN  2 * (subCount + (i % subCount)) * 2 ^ shift + 2 ^ shift

(* The rank QuantileMillis looks for among n > 0 observations, q in        *)
(* percent and clamped to 0..100.                                          *)
Target(q, n) ==
    LET clamped == IF q < 0 THEN 0 ELSE IF q > 100 THEN 100 ELSE q
        rank    == (clamped * n) \div 100
    IN  IF rank >= n THEN n - 1 ELSE rank

-----------------------------------------------------------------------------
(* BucketsSound: over the whole range of values, up to the largest, the    *)
(* buckets are inside the array, in order and without a gap, the last one  *)
(* is used, and the value reported for a bucket is within one part in      *)
(* subCount of every value in it (latency.go:15-16, 20-22, "to within      *)
(* 1/16 = 6.25% relative error (values below 16ns are exact)").            *)
BucketsSound ==
    /\ bucketIndex(2 ^ Width - 1) = numBuckets - 1
    /\ \A v \in 0..2 ^ Width - 1 :
          LET i   == bucketIndex(v)
              mid == TwiceMidpoint(i)
          IN  /\ i \in BucketSet
              /\ v > 0 => i - bucketIndex(v - 1) \in {0, 1}
              /\ subCount * (mid - 2 * v) <= 2 * v /\ subCount * (2 * v - mid) <= 2 * v
              /\ v < subCount => mid = 2 * v
=============================================================================
