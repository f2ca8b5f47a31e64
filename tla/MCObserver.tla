----------------------------- MODULE MCObserver -----------------------------
(* A small instance of Observer. *)
EXTENDS Observer, TLC

MCKeyLen == [k \in Keys |-> 1]
MCFresh == {{}}
MCReaderSymmetry == Permutations(Readers)
MCTrue == {TRUE}
=============================================================================
