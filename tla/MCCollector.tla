---------------------------- MODULE MCCollector ----------------------------
(* A small instance of Collector, and the buckets with the code's subBits  *)
(* over words of 12 bits.                                                  *)
EXTENDS Collector

MCRequests == {[hit |-> TRUE, size |-> 2, latency |-> 5], [hit |-> FALSE, size |-> 1, latency |-> 1],
               [hit |-> FALSE, size |-> 1, latency |-> -1]}

Symmetry == Permutations(Goroutines)

Wide == INSTANCE Histogram WITH SubBits <- 4, Width <- 12

(* WideBucketsSound: BucketsSound for the 16 sub-buckets of the code,      *)
(* evaluated once, in the initial state.                                   *)
WideBucketsSound == calls = 0 => Wide!BucketsSound
=============================================================================
