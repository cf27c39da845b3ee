---------------------------- MODULE MCLibavDemux ----------------------------
(* Values of the constants for the runs of LibavDemux. *)
EXTENDS LibavDemux

CONSTANTS video, data, a1

(* A flushing seek with a stop, and a segment seek without. *)
TwoSeeks == {[flush |-> TRUE, segment |-> FALSE, stop |-> 1],
             [flush |-> FALSE, segment |-> TRUE, stop |-> FileLen]}
=============================================================================
