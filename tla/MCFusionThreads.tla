-------------------------- MODULE MCFusionThreads --------------------------
(* Values of the constants for the runs of FusionThreads. *)
EXTENDS FusionThreads, TLC

CONSTANTS t1, t2, t3, t4

(* Two streams finish, or one of them twice, while a stream is published   *)
(* and its default output is launched.                                     *)
FinishCalls ==
  t1 :> "unregister_stream" @@ t2 :> "unregister_stream" @@ t3 :> "streamStarted"

(* The output of a stream is replaced, and played, while it is republished. *)
ReplaceCalls ==
  t1 :> "register_pipeline" @@ t2 :> "media_configure"
    @@ t3 :> "onPacket" @@ t4 :> "streamStarted"

(* A REST launch, a play request and the end of the stream, of two tracks. *)
LaunchCalls ==
  t1 :> "register_pipeline" @@ t2 :> "media_configure" @@ t3 :> "unregister_stream"

(* A packet comes while its stream ends. *)
PacketCalls == t1 :> "onPacket" @@ t2 :> "unregister_stream"

ObjectSymmetry == Permutations(Contexts) \cup Permutations(Pipelines)
=============================================================================
