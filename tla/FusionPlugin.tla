---------------------------- MODULE FusionPlugin ----------------------------
(***************************************************************************)
(* The GST-ANT-Fusion plugin at the grain of its native calls: the Java    *)
(* listener (SamplePlugin.java) and the REST endpoint (RestService.java)   *)
(* call into libGstAntFusion.so (gst_antmedia.c, rtsp.c), whose state is a *)
(* global table from stream ids to StreamMap contexts, the RTSP mount      *)
(* points, and the GStreamer pipelines it has started.                     *)
(*                                                                         *)
(* One action is one native call, run to its end; the Java sequences that  *)
(* make several calls (streamStarted) take one step per call, so REST      *)
(* requests, RTSP clients, packets and other streams come in between.      *)
(* The interleavings inside a call are the subject of another module.      *)
(***************************************************************************)

CONSTANTS
  Apps,         \* Ant Media applications that load the plugin
  RtmpOut,      \* the application that streamStarted ignores ("rtmpout")
  Streams,      \* stream ids
  Contexts,     \* StreamMap allocations: bounds the registrations
  Pipelines,    \* GstElement allocations: bounds the pipelines
  VideoCodecs,  \* codec ids the video tracks of this host have
  AudioCodecs,  \* codec ids the audio tracks of this host have
  OutTypes,     \* pipeline types that REST requests carry
  Configs,      \* what gst_plugin.cfg may say of the default protocols
  IsVideo,      \* is_video of an enabled video track (0 in SamplePlugin.java)
  HostWaits,    \* TRUE: no stream starts before init_plugin has finished
  NULL

Kinds   == {"video", "audio"}
Codecs  == VideoCodecs \cup AudioCodecs
ConfigT == [is_rtsp_enabled : BOOLEAN, is_rtmp_enabled : BOOLEAN]

ASSUME NullAssumption ==
  NULL \notin Streams \cup Contexts \cup Pipelines \cup Codecs
ASSUME ConfigAssumption == Configs \subseteq ConfigT
ASSUME TypesAssumption ==
  OutTypes \subseteq {"Gstreamer", "RTSP_OUT", "RTMP_OUT", "SRT_OUT", "RTP_OUT",
                     "TRANSCRIBE"}
ASSUME GlueAssumption   == IsVideo \in {0, 1} /\ HostWaits \in BOOLEAN

VARIABLES
  lib,     \* how far init_plugin has come
  config,  \* the default protocols in force
  table,   \* hash_table: stream id -> context
  ctx,     \* the StreamMap structures, never freed
  mounts,  \* RTSP mount point of each stream: a factory or none
  pipe,    \* the GStreamer pipelines
  lost,    \* history: pipelines and contexts the plugin lost track of
  status,  \* of the process
  phase,   \* where each (application, stream) is in its session
  codec    \* the codecs of the session's tracks

native == <<lib, config, table, ctx, mounts, pipe, lost, status>>
java   == <<phase, codec>>
vars   == <<lib, config, table, ctx, mounts, pipe, lost, status, phase, codec>>

NoCodecs == [k \in Kinds |-> NULL]
Sessions == Apps \X Streams
Phases   == {"idle", "register", "video", "audio", "default", "listen", "live"}

(***************************************************************************)
(* The structures.  A context that is not allocated has no stream, a free  *)
(* pipeline is in state "free", a mount point without factory has no gen.  *)
(* stream, gen and fed are history: who the object was made for, which     *)
(* context's caps its launch line holds, whose packets reached it.         *)
(***************************************************************************)
FreeContext ==
  [stream |-> NULL, par |-> NoCodecs, caps |-> NoCodecs, parser |-> {},
   bsfContext |-> FALSE, pipeline |-> NULL,
   appsrc |-> [k \in Kinds |-> NULL], rtsp_mountpoint |-> FALSE,
   pipeline_initialized |-> FALSE]

FreePipeline ==
  [kind |-> "launch", state |-> "free", stream |-> NULL, gen |-> NULL,
   caps |-> NoCodecs, fed |-> {}]

NoFactory == [gen |-> NULL, caps |-> NoCodecs, ok |-> FALSE, media |-> NULL]

NewPipeline(kind, state, s, c, caps) ==
  [kind |-> kind, state |-> state, stream |-> s, gen |-> c,
   caps |-> caps, fed |-> {}]

Running    == status = "running"
Free(p)    == pipe[p].state = "free"
Mounted(s) == mounts[s].gen # NULL

Init ==
  /\ lib = "loaded"
  /\ config = [is_rtsp_enabled |-> FALSE, is_rtmp_enabled |-> FALSE]
  /\ table = [s \in Streams |-> NULL]
  /\ ctx = [c \in Contexts |-> FreeContext]
  /\ mounts = [s \in Streams |-> NoFactory]
  /\ pipe = [p \in Pipelines |-> FreePipeline]
  /\ lost = {}
  /\ status = "running"
  /\ phase = [x \in Sessions |-> "idle"]
  /\ codec = [x \in Sessions |-> NoCodecs]

-----------------------------------------------------------------------------
(***************************************************************************)
(* init_plugin, in the thread that the constructor of SamplePlugin starts  *)
(* and does not wait for.  Until the table exists g_hash_table_* report a  *)
(* critical and do nothing; until mounts exists so does add_factory.       *)
(***************************************************************************)
TableExists  == lib \in {"table", "gst", "serving"}
GstReady     == lib \in {"gst", "serving"}
MountsExists == lib = "serving"

InitStep(from, to) ==
  /\ Running
  /\ lib = from /\ lib' = to
  /\ UNCHANGED <<table, ctx, mounts, pipe, lost, status, java>>

GetConfig == InitStep("loaded", "configured") /\ config' \in Configs
NewTable  == InitStep("configured", "table") /\ UNCHANGED config
GstInit   == InitStep("table", "gst") /\ UNCHANGED config
InitRtsp  == InitStep("gst", "serving") /\ UNCHANGED config

-----------------------------------------------------------------------------
(* What a pointer pointed to before it is overwritten. *)
Dropped(x) == {x} \ {NULL}

(* Not the code: g_new for g_new0, over the stream's last structure. *)
RegisterStreamDirty(s) ==
  \E c \in Contexts, d \in Contexts :
    /\ ctx[c].stream = NULL
    /\ ctx' = [ctx EXCEPT ![c] = IF ctx[d].stream = s THEN ctx[d]
                                ELSE [FreeContext EXCEPT !.stream = s]]
    /\ table' = [table EXCEPT ![s] = c]
    /\ UNCHANGED <<lib, config, mounts, pipe, lost, status>>

(* register_stream: a zeroed StreamMap replaces whatever the id pointed to. *)
RegisterStream(s) ==
  LET old == table[s]
  IN  \E c \in Contexts :
        /\ ctx[c].stream = NULL
        /\ ctx' = [ctx EXCEPT ![c] = [FreeContext EXCEPT !.stream = s]]
        /\ \/ /\ TableExists
              /\ table' = [table EXCEPT ![s] = c]
              /\ lost' = IF old = NULL THEN lost
                         ELSE lost \cup {old} \cup Dropped(ctx[old].pipeline)
           \/ ~TableExists /\ UNCHANGED <<table, lost>>
        /\ UNCHANGED <<lib, config, mounts, pipe, status>>

(***************************************************************************)
(* return_filter_and_setup_parser_and_also_setup_payloader: which codecs   *)
(* get a parser and a payloader (the others keep what the context had),    *)
(* and which have no bitstream filter, so that init_Codec returns -1.      *)
(***************************************************************************)
HasParser(d) ==
  d \in {"H264", "VP8", "H265", "MPEG1VIDEO", "MPEG2VIDEO", "AAC", "OPUS", "MP2"}
HasFilter(d) == d \notin {"MPEG1VIDEO", "MPEG2VIDEO"}

SetupCodec(r, k, d) ==
  [r EXCEPT !.par[k]     = d,
            !.parser     = IF HasParser(d) THEN @ \cup {k} ELSE @,
            !.bsfContext = @ \/ (k = "video" /\ HasFilter(d))]

SetStreamInfo(s, k, d, isEnabled) ==
  /\ \/ /\ isEnabled = 1 /\ d # NULL /\ table[s] # NULL
        /\ ctx' = [ctx EXCEPT ![table[s]] = SetupCodec(@, k, d)]
     \/ /\ isEnabled # 1 \/ d = NULL \/ table[s] = NULL
        /\ UNCHANGED ctx
  /\ UNCHANGED <<lib, config, table, mounts, pipe, lost, status>>

-----------------------------------------------------------------------------
(***************************************************************************)
(* parse_codec turns the codec parameters into caps; for a video track it  *)
(* reads the filter's output parameters, which do not exist when           *)
(* init_Codec has failed.                                                  *)
(***************************************************************************)
ParseFaults(r) == r.par["video"] # NULL /\ ~r.bsfContext

(* Not the code: the one local string holds the video caps for both kinds. *)
ParseCodecMixed(r) ==
  [r EXCEPT !.caps = [k \in Kinds |-> IF r.par[k] = NULL THEN @[k]
                      ELSE IF r.par["video"] # NULL THEN r.par["video"]
                      ELSE r.par[k]]]

ParseCodec(r) ==
  [r EXCEPT !.caps = [k \in Kinds |->
                        IF r.par[k] = NULL THEN @[k] ELSE r.par[k]]]

(* A launch line with an unset parser holds "(null)" and does not parse. *)
Parsable(r) == \A k \in Kinds : r.caps[k] # NULL => k \in r.parser

(* Not the code: the flag is set from the pointer. *)
SetAppsrcPointerFlag(r, p) ==
  [r EXCEPT !.pipeline = p,
            !.appsrc = [k \in Kinds |-> IF r.caps[k] # NULL THEN p ELSE @[k]],
            !.pipeline_initialized = p]

(***************************************************************************)
(* set_appsrc: for every kind that has caps, the appsrc of ctx->pipeline   *)
(* by its name, which must exist (g_assert).  Native calls are whole here; *)
(* that the code reads ctx->pipeline once for each kind, with no lock, and *)
(* what calls in other threads do in between, is in FusionThreads.         *)
(***************************************************************************)
SetAppsrcAsserts(r, q) == \A k \in Kinds : r.caps[k] # NULL => q.caps[k] # NULL

SetAppsrc(r, p) ==
  [r EXCEPT !.pipeline = p,
            !.appsrc = [k \in Kinds |-> IF r.caps[k] # NULL THEN p ELSE @[k]],
            !.pipeline_initialized = TRUE]

(***************************************************************************)
(* add_gstreamer_pipeline: gst_parse_launch yields a pipeline, an error, or *)
(* an error and a partial pipeline; ctx->pipeline is overwritten in every  *)
(* case, the rest only without error.                                      *)
(***************************************************************************)
Launched(s, c, r, p) ==
  /\ GstReady /\ Parsable(r)
  /\ pipe' = [pipe EXCEPT ![p] = NewPipeline("launch", "playing", s, c, r.caps)]
  /\ ctx' = [ctx EXCEPT ![c] = SetAppsrc(r, p)]
  /\ lost' = lost \cup Dropped(r.pipeline)

LaunchedInPart(s, c, r, p) ==
  /\ GstReady
  /\ pipe' = [pipe EXCEPT ![p] = NewPipeline("launch", "null", s, c, r.caps)]
  /\ ctx' = [ctx EXCEPT ![c] = [r EXCEPT !.pipeline = p]]
  /\ lost' = lost \cup Dropped(r.pipeline)

LaunchFailed(c, r) ==
  /\ ctx' = [ctx EXCEPT ![c] = [r EXCEPT !.pipeline = NULL]]
  /\ lost' = lost \cup {c} \cup Dropped(r.pipeline)
  /\ UNCHANGED pipe

AddGstreamerPipeline(s, c) ==
  LET r == ParseCodec(ctx[c])
  IN  /\ \/ \E p \in Pipelines :
              Free(p) /\ (Launched(s, c, r, p) \/ LaunchedInPart(s, c, r, p))
         \/ LaunchFailed(c, r)
      /\ UNCHANGED <<mounts, status>>

(* add_rtsp_pipeline: a shared media factory takes the stream's mount point. *)
AddRtspPipeline(s, c) ==
  LET r == ParseCodec(ctx[c])
  IN  /\ ctx' = [ctx EXCEPT ![c] = [r EXCEPT !.rtsp_mountpoint = TRUE]]
      /\ mounts' = IF MountsExists
                   THEN [mounts EXCEPT ![s] =
                           [gen |-> c, caps |-> r.caps, ok |-> Parsable(r),
                            media |-> NULL]]
                   ELSE mounts
      /\ UNCHANGED <<pipe, lost, status>>

(***************************************************************************)
(* register_pipeline.  An unknown stream and a stream without caps are     *)
(* answered with an error; every type but RTSP_OUT is launched at once.    *)
(***************************************************************************)
RegisterPipeline(s, type) ==
  LET c == table[s]
  IN  /\ \/ c = NULL /\ UNCHANGED <<ctx, mounts, pipe, lost, status>>
         \/ /\ c # NULL /\ ParseFaults(ctx[c])
            /\ status' = "segv"
            /\ UNCHANGED <<ctx, mounts, pipe, lost>>
         \/ /\ c # NULL /\ ~ParseFaults(ctx[c])
            /\ ParseCodec(ctx[c]).caps = NoCodecs
            /\ UNCHANGED <<ctx, mounts, pipe, lost, status>>
         \/ /\ c # NULL /\ ~ParseFaults(ctx[c])
            /\ ParseCodec(ctx[c]).caps # NoCodecs
            /\ IF type = "RTSP_OUT" THEN AddRtspPipeline(s, c)
                                    ELSE AddGstreamerPipeline(s, c)
      /\ UNCHANGED <<lib, config, table>>

(* call_default_pipeline: RTMP_OUT overwrites RTSP_OUT in the one request. *)
CallDefaultPipeline(s) ==
  \/ /\ config.is_rtsp_enabled \/ config.is_rtmp_enabled
     /\ RegisterPipeline(s, IF config.is_rtmp_enabled THEN "RTMP_OUT"
                                                      ELSE "RTSP_OUT")
  \/ /\ ~config.is_rtsp_enabled /\ ~config.is_rtmp_enabled
     /\ UNCHANGED native

-----------------------------------------------------------------------------
(* Not the code: the pipeline is released but not set to GST_STATE_NULL. *)
UnregisterNoStop(s) ==
  /\ \/ \E c \in Contexts, p \in Pipelines :
           /\ table[s] = c /\ ctx[c].pipeline = p
           /\ ctx' = [ctx EXCEPT ![c].pipeline = NULL]
           /\ mounts' = IF ctx[c].rtsp_mountpoint
                        THEN [mounts EXCEPT ![s] = NoFactory] ELSE mounts
     \/ /\ \A c \in Contexts : table[s] = c => ctx[c].pipeline = NULL
        /\ UNCHANGED <<ctx, mounts>>
  /\ table' = [table EXCEPT ![s] = NULL]
  /\ UNCHANGED <<lib, config, pipe, lost, status>>

(* Not the code: the factory is never removed. *)
UnregisterKeepsMount(s) ==
  /\ \/ \E c \in Contexts, p \in Pipelines :
           /\ table[s] = c /\ ctx[c].pipeline = p
           /\ pipe' = [pipe EXCEPT ![p].state = "null"]
           /\ ctx' = [ctx EXCEPT ![c].pipeline = NULL]
     \/ /\ \A c \in Contexts : table[s] = c => ctx[c].pipeline = NULL
        /\ UNCHANGED <<pipe, ctx>>
  /\ table' = [table EXCEPT ![s] = NULL]
  /\ UNCHANGED <<lib, config, mounts, lost, status>>

(***************************************************************************)
(* unregister_stream.  Only the pipeline that ctx->pipeline still points   *)
(* to is stopped, and the mount point is removed only together with it.    *)
(* The context keeps its appsrcs and stays initialised, outside the table. *)
(***************************************************************************)
Unregister(s) ==
  /\ \/ \E c \in Contexts, p \in Pipelines :
           /\ table[s] = c /\ ctx[c].pipeline = p
           /\ pipe' = [pipe EXCEPT ![p].state = "null"]
           /\ ctx' = [ctx EXCEPT ![c].pipeline = NULL]
           /\ mounts' = IF ctx[c].rtsp_mountpoint
                        THEN [mounts EXCEPT ![s] = NoFactory] ELSE mounts
     \/ /\ \A c \in Contexts : table[s] = c => ctx[c].pipeline = NULL
        /\ UNCHANGED <<pipe, ctx, mounts>>
  /\ table' = [table EXCEPT ![s] = NULL]
  /\ UNCHANGED <<lib, config, lost, status>>

-----------------------------------------------------------------------------
(* Not the code: the callback's data names some other stream. *)
MediaConfigureAny(s, p) ==
  \E t \in Streams, c \in Contexts :
    /\ table[t] = c /\ SetAppsrcAsserts(ctx[c], mounts[s])
    /\ ctx' = [ctx EXCEPT ![c] = SetAppsrc(@, p)]
    /\ lost' = lost \cup Dropped(ctx[c].pipeline)
    /\ UNCHANGED status

(***************************************************************************)
(* The RTSP server.  The first client of a mount point makes the shared    *)
(* factory build a media from its launch line and media_configure gives it *)
(* to whatever context the stream id has by then, or to none.              *)
(***************************************************************************)
MediaConfigure(s, p) ==
  \/ /\ table[s] = NULL
     /\ UNCHANGED <<ctx, lost, status>>
  \/ \E c \in Contexts :
       /\ table[s] = c /\ ~SetAppsrcAsserts(ctx[c], mounts[s])
       /\ status' = "abort"
       /\ UNCHANGED <<ctx, lost>>
  \/ \E c \in Contexts :
       /\ table[s] = c /\ SetAppsrcAsserts(ctx[c], mounts[s])
       /\ ctx' = [ctx EXCEPT ![c] = SetAppsrc(@, p)]
       /\ lost' = lost \cup Dropped(ctx[c].pipeline)
       /\ UNCHANGED status

ClientPlay(s) ==
  /\ Running
  /\ Mounted(s) /\ mounts[s].ok /\ mounts[s].media = NULL
  /\ \E p \in Pipelines :
       /\ Free(p)
       /\ pipe' = [pipe EXCEPT ![p] = NewPipeline("media", "playing", s,
                                          mounts[s].gen, mounts[s].caps)]
       /\ mounts' = [mounts EXCEPT ![s].media = p]
       /\ MediaConfigure(s, p)
  /\ UNCHANGED <<lib, config, table, java>>

(* When the last client leaves, the server stops the media. *)
ClientsLeave(p) ==
  /\ Running
  /\ pipe[p].kind = "media"
  /\ pipe[p].state = "playing" \/ \E s \in Streams : mounts[s].media = p
  /\ pipe' = [pipe EXCEPT ![p].state = "null"]
  /\ mounts' = [s \in Streams |-> IF mounts[s].media = p
                                  THEN [mounts[s] EXCEPT !.media = NULL]
                                  ELSE mounts[s]]
  /\ UNCHANGED <<lib, config, table, ctx, lost, status, java>>

-----------------------------------------------------------------------------
(* Not the code: the audio guard written like the video guard. *)
AcceptsEither(r, k) ==
  /\ r.pipeline_initialized
  /\ r.caps[k] # NULL \/ r.appsrc[k] # NULL
  /\ k = "video" => r.bsfContext

(***************************************************************************)
(* onPacket.  The video guard returns only if caps and appsrc are both     *)
(* NULL, so a context with caps alone reaches g_assert(ctx->videoappsrc).  *)
(***************************************************************************)
Accepts(r, k) ==
  /\ r.pipeline_initialized
  /\ \/ k = "video" /\ (r.caps[k] # NULL \/ r.appsrc[k] # NULL) /\ r.bsfContext
     \/ k = "audio" /\ (r.caps[k] # NULL /\ r.appsrc[k] # NULL)

OnPacket(s, k) ==
  LET c == table[s]
  IN  /\ c # NULL /\ Accepts(ctx[c], k)
      /\ \/ /\ ctx[c].appsrc[k] = NULL
            /\ status' = "abort"
            /\ UNCHANGED pipe
         \/ \E p \in Pipelines :
              /\ ctx[c].appsrc[k] = p
              /\ pipe' = IF pipe[p].state = "playing"
                         THEN [pipe EXCEPT ![p].fed = @ \cup {c}] ELSE pipe
              /\ UNCHANGED status
      /\ UNCHANGED <<lib, config, table, ctx, mounts, lost>>

-----------------------------------------------------------------------------
(***************************************************************************)
(* The Java side: streamStarted makes its native calls one after the other *)
(* and installs the packet listener last; it ignores rtmpout, which        *)
(* streamFinished does not.                                                *)
(***************************************************************************)
Move(a, s, from, to) ==
  /\ Running
  /\ phase[<<a, s>>] = from
  /\ phase' = [phase EXCEPT ![<<a, s>>] = to]

StreamStarted(a, s) ==
  /\ HostWaits => lib = "serving"
  /\ Move(a, s, "idle", IF a = RtmpOut THEN "live" ELSE "register")
  /\ \E v \in VideoCodecs \cup {NULL}, d \in AudioCodecs \cup {NULL} :
       codec' = [codec EXCEPT ![<<a, s>>] = [video |-> v, audio |-> d]]
  /\ UNCHANGED native

JavaRegister(a, s) ==
  Move(a, s, "register", "video") /\ RegisterStream(s) /\ UNCHANGED codec

JavaVideoInfo(a, s) ==
  /\ Move(a, s, "video", "audio")
  /\ SetStreamInfo(s, "video", codec[<<a, s>>]["video"], IsVideo)
  /\ UNCHANGED codec

JavaAudioInfo(a, s) ==
  /\ Move(a, s, "audio", "default")
  /\ SetStreamInfo(s, "audio", codec[<<a, s>>]["audio"], 1)
  /\ UNCHANGED codec

JavaDefault(a, s) ==
  Move(a, s, "default", "listen") /\ CallDefaultPipeline(s) /\ UNCHANGED codec

AddPacketListener(a, s) ==
  Move(a, s, "listen", "live") /\ UNCHANGED <<native, codec>>

StreamFinished(a, s) ==
  /\ Move(a, s, "live", "idle")
  /\ Unregister(s)
  /\ codec' = [codec EXCEPT ![<<a, s>>] = NoCodecs]

Packet(a, s, k) ==
  /\ Running
  /\ phase[<<a, s>>] = "live" /\ a # RtmpOut /\ codec[<<a, s>>][k] # NULL
  /\ OnPacket(s, k)
  /\ UNCHANGED java

Rest(s, type) == Running /\ RegisterPipeline(s, type) /\ UNCHANGED java

-----------------------------------------------------------------------------
Plugin ==
  \/ GetConfig \/ NewTable \/ GstInit \/ InitRtsp
  \/ \E p \in Pipelines : ClientsLeave(p)
  \/ \E s \in Streams : ClientPlay(s)
  \/ \E s \in Streams, type \in OutTypes : Rest(s, type)

Session(a, s) ==
  \/ StreamStarted(a, s) \/ JavaRegister(a, s) \/ JavaVideoInfo(a, s)
  \/ JavaAudioInfo(a, s) \/ JavaDefault(a, s) \/ AddPacketListener(a, s)
  \/ StreamFinished(a, s)
  \/ \E k \in Kinds : Packet(a, s, k)

Next == Plugin \/ \E a \in Apps, s \in Streams : Session(a, s)

Spec == Init /\ [][Next]_vars

-----------------------------------------------------------------------------
StreamMapT ==
  [stream : Streams \cup {NULL}, par : [Kinds -> Codecs \cup {NULL}],
   caps : [Kinds -> Codecs \cup {NULL}], parser : SUBSET Kinds,
   bsfContext : BOOLEAN, pipeline : Pipelines \cup {NULL},
   appsrc : [Kinds -> Pipelines \cup {NULL}], rtsp_mountpoint : BOOLEAN,
   pipeline_initialized : BOOLEAN]

FactoryT ==
  [gen : Contexts \cup {NULL}, caps : [Kinds -> Codecs \cup {NULL}],
   ok : BOOLEAN, media : Pipelines \cup {NULL}]

PipelineT ==
  [kind : {"launch", "media"}, state : {"free", "playing", "null"},
   stream : Streams \cup {NULL}, gen : Contexts \cup {NULL},
   caps : [Kinds -> Codecs \cup {NULL}], fed : SUBSET Contexts]

NativeTypeOK ==
  /\ lib \in {"loaded", "configured", "table", "gst", "serving"}
  /\ config \in ConfigT
  /\ table \in [Streams -> Contexts \cup {NULL}]
  /\ ctx \in [Contexts -> StreamMapT]
  /\ mounts \in [Streams -> FactoryT]
  /\ pipe \in [Pipelines -> PipelineT]
  /\ lost \subseteq Contexts \cup Pipelines
  /\ status \in {"running", "segv", "abort"}

JavaTypeOK ==
  /\ phase \in [Sessions -> Phases]
  /\ codec \in [Sessions -> [Kinds -> Codecs \cup {NULL}]]

(* Every variable of the plugin and of its Java callers has its type. *)
TypeOK == NativeTypeOK /\ JavaTypeOK

(***************************************************************************)
(* A pipeline made for one stream never gets a packet of another, whatever *)
(* was registered, replaced or left behind in between (onPacket through    *)
(* the appsrcs that set_appsrc and media_configure have set).              *)
(***************************************************************************)
Isolation ==
  \A p \in Pipelines : \A c \in pipe[p].fed : ctx[c].stream = pipe[p].stream

(***************************************************************************)
(* A pipeline whose launch line was made for the context that feeds it     *)
(* declares, for each kind it is fed, the codec of that very track         *)
(* (parse_codec, generate_gst_pipeline, set_appsrc), as long as no two     *)
(* applications publish the same id: setStreamInfo does not know which of  *)
(* them it speaks for.                                                     *)
(***************************************************************************)
OwnCaps ==
  \A c \in Contexts, k \in Kinds :
    LET p == ctx[c].appsrc[k]
    IN  p # NULL /\ pipe[p].gen = c => pipe[p].caps[k] = ctx[c].par[k]

(***************************************************************************)
(* A launched pipeline that still plays can be stopped: a registered       *)
(* context points to it, unless the code overwrote that pointer or that    *)
(* context (ctx->pipeline in add_gstreamer_pipeline and media_configure,   *)
(* the table entry in register_stream) and so lost it for good.            *)
(***************************************************************************)
LeakOnlyLost ==
  \A p \in Pipelines :
    pipe[p].kind = "launch" /\ pipe[p].state = "playing" =>
      \/ p \in lost
      \/ \E s \in Streams : table[s] # NULL /\ ctx[table[s]].pipeline = p

(***************************************************************************)
(* An RTSP mount point outlives the registration it was made for only if   *)
(* that context never had an output, lost it to a failed launch, or was    *)
(* replaced in the table (unregister_stream removes the factory inside the *)
(* branch of a non-NULL pipeline).                                         *)
(***************************************************************************)
MountOutlives ==
  \A s \in Streams :
    LET c == mounts[s].gen
    IN  c # NULL /\ table[s] # c => c \in lost \/ ~ctx[c].pipeline_initialized

(***************************************************************************)
(* No order of registrations, clients, packets and REST requests makes the *)
(* library dereference NULL or fail an assertion (parse_codec, set_appsrc, *)
(* onPacket): with the flags that SamplePlugin really passes.              *)
(***************************************************************************)
NoCrash == status = "running"

(***************************************************************************)
(* What makes Isolation inductive: the table points to contexts of its own *)
(* key, an appsrc belongs to a pipeline that was built for its context's   *)
(* stream and exists only with caps, the sources of a context lie in one   *)
(* pipeline (between calls: see SourcesTogether of FusionThreads for what  *)
(* becomes of it inside them), ctx->pipeline is a pipeline that was built, *)
(* and one that was not has no stream and no packet.                       *)
(***************************************************************************)
TableOwned ==
  \A s \in Streams : table[s] # NULL => ctx[table[s]].stream = s

SourcesPaired ==
  \A c \in Contexts :
    LET src == ctx[c].appsrc
    IN  src["video"] # NULL /\ src["audio"] # NULL => src["video"] = src["audio"]

SourcesOwned ==
  \A c \in Contexts, k \in Kinds :
    ctx[c].appsrc[k] # NULL =>
      /\ ctx[c].caps[k] # NULL
      /\ pipe[ctx[c].appsrc[k]].stream = ctx[c].stream
      /\ pipe[ctx[c].appsrc[k]].stream # NULL

FedOwned ==
  \A p \in Pipelines : \A c \in pipe[p].fed :
    ctx[c].stream # NULL /\ ctx[c].stream = pipe[p].stream

PointersBuilt ==
  \A c \in Contexts :
    ctx[c].pipeline # NULL => pipe[ctx[c].pipeline].stream # NULL

FreeUnused ==
  \A p \in Pipelines :
    /\ Free(p) <=> pipe[p].stream = NULL
    /\ Free(p) => pipe[p].fed = {} /\ pipe[p].kind = "launch"

NativeInv ==
  /\ NativeTypeOK /\ TableOwned /\ SourcesOwned /\ SourcesPaired
  /\ FedOwned /\ PointersBuilt /\ FreeUnused

(***************************************************************************)
(* What makes LeakOnlyLost and MountOutlives inductive: a mount point was  *)
(* made for a context of its own stream, which remembers it; a registered  *)
(* context that once had an output still has one, or lost it.              *)
(***************************************************************************)
MountsOwned ==
  \A s \in Streams :
    Mounted(s) => /\ ctx[mounts[s].gen].stream = s
                  /\ ctx[mounts[s].gen].rtsp_mountpoint

OutputsHeld ==
  \A s \in Streams :
    LET c == table[s]
    IN  c # NULL /\ ctx[c].pipeline_initialized /\ ctx[c].pipeline = NULL => c \in lost

LeftBehindInv == LeakOnlyLost /\ MountOutlives /\ MountsOwned /\ OutputsHeld

(***************************************************************************)
(* What makes OwnCaps inductive: all caps that were made from a context    *)
(* still say what its tracks are, because a track is announced once.  That *)
(* takes one application: two that publish the same id announce their      *)
(* tracks into one context.                                                *)
(***************************************************************************)
OneApp == \A a, b \in Apps \ {RtmpOut} : a = b

Declares(caps, c) == \A k \in Kinds : caps[k] # NULL => caps[k] = ctx[c].par[k]

CapsDeclared ==
  /\ \A c \in Contexts : Declares(ctx[c].caps, c)
  /\ \A s \in Streams : Mounted(s) => Declares(mounts[s].caps, mounts[s].gen)
  /\ \A p \in Pipelines :
       pipe[p].gen # NULL => /\ Declares(pipe[p].caps, pipe[p].gen)
                             /\ ctx[pipe[p].gen].stream # NULL

SourcesDeclared ==
  \A c \in Contexts, k \in Kinds :
    LET p == ctx[c].appsrc[k] IN p # NULL => pipe[p].caps[k] # NULL

AnnouncedOnce ==
  \A a \in Apps, s \in Streams :
    /\ a = RtmpOut => phase[<<a, s>>] \in {"idle", "live"}
    /\ a # RtmpOut /\ phase[<<a, s>>] \in {"idle", "register"} => table[s] = NULL
    /\ phase[<<a, s>>] = "video" /\ table[s] # NULL => ctx[table[s]].par = NoCodecs
    /\ phase[<<a, s>>] = "audio" /\ table[s] # NULL => ctx[table[s]].par["audio"] = NULL

CapsInv == CapsDeclared /\ SourcesDeclared /\ AnnouncedOnce /\ MountsOwned

(***************************************************************************)
(* What makes NoCrash inductive where IsVideo = 0: no context ever has     *)
(* video, so that a mount point declares all that set_appsrc asks for.     *)
(***************************************************************************)
AudioOnly ==
  /\ \A c \in Contexts : ctx[c].par["video"] = NULL /\ ctx[c].caps["video"] = NULL
  /\ \A s \in Streams : Mounted(s) => mounts[s].caps["audio"] # NULL

CrashInv == NoCrash /\ AudioOnly

(***************************************************************************)
(* The plugin implements OutputSwitch: an output of a stream is a pipeline *)
(* made for it, active when it holds the appsrcs of the registered         *)
(* context.                                                                *)
(***************************************************************************)
Sources(c) == {ctx[c].appsrc[k] : k \in Kinds} \ {NULL}

TheOne(S) == IF S = {} THEN NULL ELSE CHOOSE p \in S : TRUE

Active(s) == TheOne(IF table[s] = NULL THEN {} ELSE Sources(table[s]))

Switch == INSTANCE OutputSwitch WITH
  Outputs   <- Pipelines,
  NoOutput  <- NULL,
  NoStream  <- NULL,
  published <- {s \in Streams : table[s] # NULL},
  active    <- [s \in Streams |-> Active(s)],
  owner     <- [p \in Pipelines |-> pipe[p].stream],
  delivered <- [p \in Pipelines |-> {ctx[c].stream : c \in pipe[p].fed}]

OutputRefinement == Switch!SwitchSpec
=============================================================================
