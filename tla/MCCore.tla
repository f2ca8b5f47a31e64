------------------------------- MODULE MCCore -------------------------------
(* Small instances of Core. *)
EXTENDS Core, TLC

CONSTANTS k0, k2

MCKeyLen == [k \in Keys |-> IF k = k0 THEN 0 ELSE IF k = k2 THEN 2 ELSE 1]
MCThreadSymmetry == Permutations(Threads)
MCSizes == {-1, 0, 1, 2, 3}
MCFresh == {{}}
MCReused == SUBSET Keys
MCTrue == {TRUE}
MCBoolean == BOOLEAN
=============================================================================
