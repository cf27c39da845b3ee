----------------------------- MODULE MCLibavMux -----------------------------
(* Values of the constants for the runs of LibavMux. *)
EXTENDS LibavMux

CONSTANTS video, audio, c1, c2
=============================================================================
