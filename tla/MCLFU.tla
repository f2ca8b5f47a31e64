------------------------------- MODULE MCLFU -------------------------------
(* A small instance of LFU: periods 0 (never), 1, 2 and 3, and two lambdas *)
(* out of range.                                                           *)
EXTENDS LFU

MCLambdas == {-1, 0, 50, 100, 101}
=============================================================================
