------------------------------- MODULE MCBus -------------------------------
(* A small instance of Bus: a negative, so unbuffered, and a one-event     *)
(* buffer; a subscriber to everything, to one type, to an unknown type.    *)
EXTENDS Bus

CONSTANTS hit

MCTypes == {hit, Unknown}
MCBuffers == {-1, 1}
MCFilters == {{}, {hit}, {Unknown}}
=============================================================================
