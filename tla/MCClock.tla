------------------------------ MODULE MCClock ------------------------------
(* A small instance of Clock, with the ring walks of clock.go written as   *)
(* the loops they are, to compare the closed forms of Clock with.          *)
EXTENDS Clock

(* The loop of Victim after k steps, the ring being s and the hand h. *)
RECURSIVE VictimLoop(_, _, _)
VictimLoop(s, h, k) ==
    IF k = 2 * cap
    THEN [slots |-> s, hand |-> h, answer |-> IF s[h].key # EmptyKey THEN <<s[h].key>> ELSE << >>]
    ELSE IF s[h].key = EmptyKey THEN VictimLoop(s, (h + 1) % cap, k + 1)
    ELSE IF s[h].ref THEN VictimLoop([s EXCEPT ![h].ref = FALSE], (h + 1) % cap, k + 1)
    ELSE [slots |-> s, hand |-> h, answer |-> <<s[h].key>>]

(* The loop of Candidates(b) after k steps, with out collected. *)
RECURSIVE CandidatesLoop(_, _, _, _, _)
CandidatesLoop(s, h, k, out, b) ==
    LET next == (h + 1) % cap
    IN  IF k = 2 * cap \/ Len(out) >= b THEN [slots |-> s, hand |-> h, answer |-> out]
        ELSE IF s[h].key = EmptyKey THEN CandidatesLoop(s, next, k + 1, out, b)
        ELSE IF s[h].ref THEN CandidatesLoop([s EXCEPT ![h].ref = FALSE], next, k + 1, out, b)
        ELSE CandidatesLoop(s, next, k + 1, Append(out, s[h].key), b)

(* The search of OnInsert for a free slot. *)
RECURSIVE FreeLoop(_, _, _)
FreeLoop(s, h, c) == IF s[h].key = EmptyKey THEN h ELSE FreeLoop(s, (h + 1) % c, c)

(* WalksMatchLoops: the closed forms of Victim, Candidates and OnInsert    *)
(* take the ring where the loops of clock.go:108-117, 179-206 and 222-235  *)
(* take it, bit for bit.                                                   *)
WalksMatchLoops ==
    [][LET after == [slots |-> slots', hand |-> hand', answer |-> answer']
       IN  /\ Victim /\ live > 0 => after = VictimLoop(slots, hand, 0)
           /\ \A b \in 1..MaxBatch :
                Candidates(b) /\ live > 0 => after = CandidatesLoop(slots, hand, 0, << >>, b)
           /\ \A k \in Keys \ DOMAIN index :
                OnInsert(k) => index'[k] = FreeLoop(growLocked.slots, growLocked.hand, growLocked.cap)]_vars
=============================================================================
