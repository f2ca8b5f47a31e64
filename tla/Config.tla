------------------------------- MODULE Config -------------------------------
(***************************************************************************)
(* The configuration (config/config.go, config/validate.go) and the policy *)
(* registry (cache/policy/registry.go) it is validated against.  Units     *)
(* keep their structure on a small word: Kilo stands for 1000, Kibi for    *)
(* 1024, Second for the nanoseconds of a second.  A number in the file is  *)
(* in tenths, a frame rate is num/den Hz or NaN.  A float64 is a mantissa  *)
(* times the weight of its last bit, and arithmetic on it rounds.          *)
(***************************************************************************)
EXTENDS Integers, Sequences, FiniteSetsExt, TLC

CONSTANTS
    Kilo, Kibi, Second,
    MaxInt,         \* largest int64
    Half,           \* smallest mantissa of a float64, 2^52
    Weights,        \* weights of a mantissa's last bit: up = 2^i or 1/down = 1/2^i
    MaxFrameRateHz, \* maxFrameRateHz
    Registered,     \* the names policies registered in their init functions
    PolicyNone      \* types.PolicyNone, which needs no policy

ASSUME ConfigAssumption ==
    /\ Kilo \in Nat \ {0} /\ Kibi \in Nat \ {0} /\ Second \in Nat \ {0}
    /\ MaxInt \in Nat /\ MaxFrameRateHz \in Nat \ {0} /\ 2 * MaxFrameRateHz <= Second

ASSUME FloatAssumption ==
    /\ Half \in Nat /\ Half > 1 /\ 2 * Half <= MaxInt
    /\ Weights \subseteq [up : Nat \ {0}, down : Nat \ {0}]
    /\ \A w \in Weights : w.up = 1 \/ w.down = 1
    /\ \E w \in Weights : 2 * Half * w.up >= (MaxInt + 1) * w.down

(* The empty string: no unit, no flag. *)
Blank == ""

MinInt == -(MaxInt + 1)

Magnitude(n) == IF n < 0 THEN -n ELSE n

(* Mantissas are below this: 2^53. *)
Sig == 2 * Half

(* The integers nearest to n/d; of two, the even one. *)
Nearest(n, d) ==
    {m \in {n \div d, n \div d + 1} :
        LET gap == 2 * Magnitude(n - m * d) IN gap < d \/ (gap = d /\ m % 2 = 0)}

(* The mantissa of n/d at weight w is neither too long nor too short. *)
Fits(n, d, w) == Half * w.up * d <= n * w.down /\ n * w.down < Sig * w.up * d

(* n/d rounded to a float64; nothing when it is beyond the largest. *)
Float(n, d) ==
    IF n = 0 THEN {[num |-> 0, den |-> 1]}
    ELSE UNION {{[num |-> (IF n < 0 THEN -m ELSE m) * w.up, den |-> w.down] :
                    m \in Nearest(Magnitude(n) * w.down, d * w.up)} :
                w \in {v \in Weights : Fits(Magnitude(n), d, v)}}

(* The largest float64 is below n/d: the result is infinite. *)
Infinite(n, d) == \A w \in Weights : Sig * w.up * d <= Magnitude(n) * w.down

(* Go leaves the conversion of a value out of range to the machine: amd64  *)
(* gives the smallest integer, arm64 the nearest.                          *)
OutOfRange(n) == IF n < 0 THEN {MinInt} ELSE {MinInt, MaxInt}

(* Conversion of the float n/d to int64 truncates. *)
ToInt64(n, d) ==
    LET q == IF n < 0 THEN -((-n) \div d) ELSE n \div d
    IN  IF q \in MinInt..MaxInt THEN {q} ELSE OutOfRange(n)

(* An operation on floats whose exact result is n/d, converted to int64. *)
RoundedToInt64(n, d) ==
    IF Infinite(n, d) THEN OutOfRange(n) ELSE UNION {ToInt64(x.num, x.den) : x \in Float(n, d)}

NaNToInt64 == {MinInt, 0}

(* The units in the order ParseByteSize tries them. *)
byteUnits ==
    <<[suffix |-> "KIB", mult |-> Kibi], [suffix |-> "MIB", mult |-> Kibi * Kibi],
      [suffix |-> "GIB", mult |-> Kibi * Kibi * Kibi], [suffix |-> "TIB", mult |-> Kibi * Kibi * Kibi * Kibi],
      [suffix |-> "KB", mult |-> Kilo], [suffix |-> "MB", mult |-> Kilo * Kilo],
      [suffix |-> "GB", mult |-> Kilo * Kilo * Kilo], [suffix |-> "TB", mult |-> Kilo * Kilo * Kilo * Kilo],
      [suffix |-> "B", mult |-> 1]>>

(* The suffixes strings.HasSuffix finds in a text that ends in a unit. *)
Endings(unit) == IF unit = Blank THEN {} ELSE {unit, "B"}

(* What ParseByteSize may return; nothing when it is an error.  A suffix   *)
(* that is shorter than the unit leaves letters in the number.  With a     *)
(* unit the number is rounded when it is parsed, and its product again.    *)
ParseByteSize(text) ==
    LET matching == {i \in DOMAIN byteUnits : byteUnits[i].suffix \in Endings(text.unit)}
    IN  IF matching = {}
        THEN IF text.number /\ text.tenths % 10 = 0 THEN {text.tenths \div 10} \cap MinInt..MaxInt ELSE {}
        ELSE LET u == byteUnits[Min(matching)]
             IN  IF text.number /\ u.suffix = text.unit
                 THEN UNION {RoundedToInt64(v.num * u.mult, v.den) : v \in Float(text.tenths, 10)}
                 ELSE {}

IsKnown(name) == name \in Registered

Default ==
    [capacity |-> [number |-> TRUE, tenths |-> 10 * 100, unit |-> "MB"], policy |-> "lru",
     busBuffer |-> 1024, metricsBuffer |-> 8192, frameBuffer |-> 256, sampleRate |-> 1000,
     rate |-> [nan |-> FALSE, num |-> 10, den |-> 1], level |-> "info"]

(* Mutant of BadRate: there is no upper bound. *)
BadRateUnbounded(rate) == ~rate.nan /\ rate.num <= 0

(* Every comparison with NaN is false. *)
BadRate(rate) == ~rate.nan /\ (rate.num <= 0 \/ rate.num > MaxFrameRateHz * rate.den)

(* The fields Validate complains about. *)
Validate(c) ==
    {f \in {"busBuffer", "metricsBuffer", "frameBuffer", "capacity"} : c[f] <= 0}
    \cup (IF c.policy # PolicyNone /\ ~IsKnown(c.policy) THEN {"policy"} ELSE {})
    \cup (IF c.sampleRate = 0 THEN {"sampleRate"} ELSE {})
    \cup (IF BadRate(c.rate) THEN {"rate"} ELSE {})
    \cup (IF c.level \notin {"debug", "info", "warn", "error"} THEN {"level"} ELSE {})

(* The document decoded over the defaults. *)
Decoded(doc) == [f \in DOMAIN Default |-> IF f \in DOMAIN doc THEN doc[f] ELSE Default[f]]

(* Parse: the document over the defaults, if it is valid; more than one    *)
(* outcome where the machine decides.                                      *)
Parse(doc) ==
    LET raw == Decoded(doc)
    IN  {c \in {[raw EXCEPT !.capacity = n] : n \in ParseByteSize(raw.capacity)} : Validate(c) = {}}

(* FrameInterval, for a valid rate or not. *)
FrameInterval(rate) ==
    IF rate.nan THEN NaNToInt64
    ELSE IF rate.num <= 0 THEN {Second \div 10}
    ELSE RoundedToInt64(Second * rate.den, rate.num)
=============================================================================
