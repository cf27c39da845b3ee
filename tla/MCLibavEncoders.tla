-------------------------- MODULE MCLibavEncoders --------------------------
(* Values of the constants for the runs of LibavEncoders. *)
EXTENDS LibavEncoders

CONSTANTS c1, c2, c3
=============================================================================
