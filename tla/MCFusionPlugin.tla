--------------------------- MODULE MCFusionPlugin ---------------------------
(* Values of the constants for the runs of FusionPlugin. *)
EXTENDS FusionPlugin, TLC

Defaults(rtsp, rtmp) == [is_rtsp_enabled |-> rtsp, is_rtmp_enabled |-> rtmp]

OneDefault == {Defaults(TRUE, FALSE), Defaults(FALSE, TRUE)}

ObjectSymmetry == Permutations(Contexts) \cup Permutations(Pipelines)
StreamSymmetry == ObjectSymmetry \cup Permutations(Streams)
=============================================================================
