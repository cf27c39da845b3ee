--------------------------- MODULE MCLibavVidDec ---------------------------
(* Values of the constants for the run of LibavVidDec. *)
EXTENDS LibavVidDec

CONSTANTS plain, nal, bad, i420, rgb, odd
=============================================================================
