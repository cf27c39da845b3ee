--------------------------- MODULE MCLibavAudDec ---------------------------
(* Values of the constants for the run of LibavAudDec. *)
EXTENDS LibavAudDec

CONSTANTS c1, c2, f1, f2, odd
=============================================================================
