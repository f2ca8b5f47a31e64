------------------------------- MODULE MCDemo -------------------------------
(* A small instance of Demo: configuration files that set one field, and a *)
(* busy one that samples every request.                                    *)
EXTENDS Demo

Text(tenths, unit) == [number |-> TRUE, tenths |-> tenths, unit |-> unit]
Rate(num, den) == [nan |-> FALSE, num |-> num, den |-> den]

Sets(field, S) == {field :> v : v \in S}

MCDocuments ==
    Sets("capacity", {Text(30, "KIB"), Text(12, "MB"), Text(60, ""), Text(35, ""), Text(-10, "KB"), Text(0, "B"),
                      Text(120, "XB"), Text(13, "GIB"), Text(400, "GIB"), Text(1000, "GIB"),
                      [number |-> FALSE, tenths |-> 0, unit |-> "MB"]})
    \cup Sets("policy", {PolicyNone, "typo", ""})
    \cup Sets("rate", {Rate(13, 1), Rate(45, 1), Rate(0, 1), Rate(5, 2730), Rate(1, 2000),
                       [nan |-> TRUE, num |-> 0, den |-> 1]})
    \cup Sets("busBuffer", {0, -1}) \cup Sets("level", {"loud"}) \cup Sets("sampleRate", {0, 1})

MCInputs ==
    [doc : MCDocuments, flag : {""}] \cup [doc : Sets("policy", {"lru", "typo"}), flag : {"clock", "typo"}]

(* Ten-bit mantissas, for values from 1/2 to 2^15. *)
MCWeights == {[up |-> 2^i, down |-> 1] : i \in 0..5} \cup {[up |-> 1, down |-> 2^i] : i \in 1..10}

MCRegistered == {"lru", "lfu", "clock"}
=============================================================================
