---------------------------- MODULE FusionThreads ----------------------------
(***************************************************************************)
(* The native calls of libGstAntFusion.so at the grain of their accesses   *)
(* to shared memory.  JNA serialises nothing: the packet threads, the      *)
(* threads of streamStarted and streamFinished, the REST threads and the   *)
(* RTSP server's loop run these functions at the same time, on one         *)
(* GHashTable that is locked by unregister_stream alone.                   *)
(*                                                                         *)
(* A thread makes one call and is at the source line that pc names         *)
(* (rtsp.c's lines are written "rtsp 64"); a line between two accesses is  *)
(* passed together with the next one.                                      *)
(***************************************************************************)
CONSTANTS
  Threads,    \* one call each
  Calls,      \* [Threads -> the function the thread is in]
  Streams,
  Contexts,   \* StreamMap allocations
  Pipelines,  \* GstElement allocations
  Tracks,     \* the kinds of tracks that setStreamInfo may announce
  NULL

Kinds == {"video", "audio"}

Functions ==
  {"onPacket", "streamStarted", "register_pipeline", "media_configure",
   "unregister_stream"}

ASSUME ThreadsAssumption ==
  /\ NULL \notin Threads \cup Streams \cup Contexts \cup Pipelines
  /\ Calls \in [Threads -> Functions]
  /\ Tracks \subseteq Kinds

VARIABLES
  table,    \* hash_table
  writing,  \* the threads inside g_hash_table_insert or _remove
  ctx,      \* the StreamMap structures
  pipe,     \* the pipelines
  mounts,   \* the factory at each stream's mount point
  mutex,    \* the holder of hashtable_mutex
  pc,       \* the line each thread is about to run
  me,       \* the local variables of each thread
  torn,     \* history: an access to the table overlapped a write
  status    \* of the process

shared == <<table, writing, ctx, pipe, mounts, mutex>>
vars   == <<table, writing, ctx, pipe, mounts, mutex, pc, me, torn, status>>

(* Not the code: the branch of an unknown id returns with the mutex. *)
LeakyContainsAt ==
  {<<"76", "78", "done">>, <<"415", "421", "done">>, <<"606", "608", "done">>,
   <<"rtsp 64", "rtsp 66", "done">>, <<"rtsp 82", "rtsp 111", "done">>,
   <<"662", "669", "next">>, <<"741", "744", "done">>}

(* g_hash_table_contains: its line, where it goes on if the id is there,   *)
(* and where if it is not.                                                 *)
ContainsAt ==
  {<<"76", "78", "done">>, <<"415", "421", "done">>, <<"606", "608", "done">>,
   <<"rtsp 64", "rtsp 66", "done">>, <<"rtsp 82", "rtsp 111", "done">>,
   <<"662", "669", "next">>, <<"741", "744", "774">>}

(* g_hash_table_lookup: its line, and the one that uses what it returned. *)
LookupAt ==
  {<<"78", "79">>, <<"421", "217">>, <<"608", "610">>, <<"rtsp 66", "rtsp 68">>,
   <<"rtsp 111", "rtsp 118">>, <<"669", "674">>, <<"744", "745">>}

Reads == {b[1] : b \in ContainsAt \cup LookupAt}
Uses  == {b[2] : b \in LookupAt}

Locked == {"741", "744", "745", "747", "748", "752", "761", "761 in", "774"}

Lines ==
  Reads \cup Uses \cup Locked
    \cup {"start", "done", "push", "231", "624", "624 call", "175", "180", "184",
          "187", "191", "194", "rtsp 119", "696", "696 in", "676", "next", "738"}

-----------------------------------------------------------------------------
(* lineage and contended are history: the registrations of the id up to    *)
(* this one, in the order in which they came into the table, and whether   *)
(* ctx->pipeline was written while set_appsrc was at work on the context.  *)
NewContext(s) ==
  [stream |-> s, par |-> {}, filter |-> FALSE, caps |-> {}, pipeline |-> NULL,
   appsrc |-> [k \in Kinds |-> NULL], pipeline_initialized |-> FALSE,
   rtsp_mountpoint |-> FALSE, lineage |-> {}, contended |-> FALSE]

(* A registered stream, with an RTSP output that nobody has played or not. *)
Announced(s, c, tracks, mounted) ==
  [NewContext(s) EXCEPT !.par = tracks, !.filter = "video" \in tracks,
     !.caps = IF mounted THEN tracks ELSE {}, !.rtsp_mountpoint = mounted,
     !.lineage = {c}]

(* gen is the context that the launch line was made from. *)
NewPipeline(state, gen, kinds) ==
  [state |-> state, gen |-> gen, kinds |-> kinds, fed |-> {}]

NoFactory == [gen |-> NULL, kinds |-> {}]

NoLocals ==
  [stream |-> NULL, kind |-> "video", kinds |-> {}, ctx |-> NULL, pipe |-> NULL,
   gen |-> NULL, text |-> {}]

Init ==
  /\ \E Registered \in SUBSET Streams, home \in [Streams -> Contexts],
        tracks \in SUBSET Tracks \ {{}} :
       \E Mounted \in SUBSET Registered :
         /\ \A s, t \in Registered : home[s] = home[t] => s = t
         /\ table = [s \in Streams |-> IF s \in Registered THEN home[s] ELSE NULL]
         /\ ctx = [c \in Contexts |->
                     IF \E s \in Registered : home[s] = c
                     THEN LET s == CHOOSE s \in Registered : home[s] = c
                          IN  Announced(s, c, tracks, s \in Mounted)
                     ELSE NewContext(NULL)]
         /\ mounts = [s \in Streams |->
                        IF s \in Mounted THEN [gen |-> home[s], kinds |-> tracks]
                        ELSE NoFactory]
  /\ writing = {}
  /\ pipe = [p \in Pipelines |-> NewPipeline("free", NULL, {})]
  /\ mutex = NULL
  /\ pc = [t \in Threads |-> "start"]
  /\ me = [t \in Threads |-> NoLocals]
  /\ torn = FALSE
  /\ status = "running"

-----------------------------------------------------------------------------
(* A thread goes from one line to another. *)
Step(t, from, to) ==
  /\ status = "running"
  /\ pc[t] = from
  /\ pc' = [pc EXCEPT ![t] = to]

(* A thread's last line: the process dies of it. *)
Dies(t, from, how) ==
  /\ status = "running"
  /\ pc[t] = from
  /\ status' = how
  /\ UNCHANGED <<shared, pc, me, torn>>

Quiet == UNCHANGED <<torn, status>>

(* The calls, and what they are given. *)
Enter(t, function, line, locals) ==
  /\ Calls[t] = function
  /\ Step(t, "start", line)
  /\ me' = [me EXCEPT ![t] = locals]
  /\ Quiet

CallOnPacket(t) ==
  \E s \in Streams, k \in Tracks :
    /\ Enter(t, "onPacket", "76", [NoLocals EXCEPT !.stream = s, !.kind = k])
    /\ UNCHANGED shared

CallStreamStarted(t) ==
  \E s \in Streams, kinds \in SUBSET Tracks :
    /\ Enter(t, "streamStarted", "696", [NoLocals EXCEPT !.stream = s, !.kinds = kinds])
    /\ UNCHANGED shared

CallRegisterPipeline(t) ==
  \E s \in Streams :
    /\ Enter(t, "register_pipeline", "415", [NoLocals EXCEPT !.stream = s])
    /\ UNCHANGED shared

CallUnregisterStream(t) ==
  \E s \in Streams :
    /\ Enter(t, "unregister_stream", "738", [NoLocals EXCEPT !.stream = s])
    /\ UNCHANGED shared

(* The server has found a factory for a client and has built its launch    *)
(* line before it calls media_configure; the media plays when that is over.*)
CallMediaConfigure(t) ==
  \E s \in Streams, p \in Pipelines :
    /\ mounts[s].gen # NULL /\ pipe[p].state = "free"
    /\ pipe' = [pipe EXCEPT ![p] = NewPipeline("playing", mounts[s].gen, mounts[s].kinds)]
    /\ Enter(t, "media_configure", "rtsp 64",
             [NoLocals EXCEPT !.stream = s, !.pipe = p, !.gen = mounts[s].gen])
    /\ UNCHANGED <<table, writing, ctx, mounts, mutex>>

Call(t) ==
  \/ CallOnPacket(t) \/ CallStreamStarted(t) \/ CallRegisterPipeline(t)
  \/ CallUnregisterStream(t) \/ CallMediaConfigure(t)

(***************************************************************************)
(* GHashTable is not thread-safe: a read that overlaps a write may miss    *)
(* the id, a write that overlaps a write may be lost, either may crash.    *)
(***************************************************************************)
Overlaps(t) == writing \ {t} # {}

Found(t) ==
  {table[me[t].stream]} \cup (IF Overlaps(t) THEN {NULL} ELSE {})

Contains(t) ==
  /\ \E b \in ContainsAt :
       /\ pc[t] = b[1]
       /\ \E c \in Found(t) : Step(t, b[1], IF c # NULL THEN b[2] ELSE b[3])
  /\ torn' = (torn \/ Overlaps(t))
  /\ UNCHANGED <<shared, me, status>>

(* Not the code: what contains says is kept for the context. *)
LookupBoolean(t) ==
  /\ \E b \in LookupAt : Step(t, b[1], b[2])
  /\ \E c \in Found(t) :
       me' = [me EXCEPT ![t].ctx = IF c = NULL THEN NULL ELSE t]
  /\ torn' = (torn \/ Overlaps(t))
  /\ UNCHANGED <<shared, status>>

Lookup(t) ==
  /\ \E b \in LookupAt : Step(t, b[1], b[2])
  /\ \E c \in Found(t) : me' = [me EXCEPT ![t].ctx = c]
  /\ torn' = (torn \/ Overlaps(t))
  /\ UNCHANGED <<shared, status>>

TableRace(t) ==
  /\ Overlaps(t)
  /\ \E l \in Reads \cup {"696 in", "761 in"} : Dies(t, l, "ub")

(* Insert or remove: in ...  *)
Writes(t) ==
  /\ writing' = writing \cup {t}
  /\ torn' = (torn \/ Overlaps(t))
  /\ UNCHANGED <<table, pipe, mounts, mutex, status>>

(* ... and out, with the entry written or not. *)
Leaves(t) ==
  /\ writing' = writing \ {t}
  /\ UNCHANGED <<pipe, mounts, mutex, me>> /\ Quiet

(* A pointer that a lookup has returned is used without a check. *)
NullContext(t) ==
  /\ me[t].ctx = NULL
  /\ \E l \in Uses : Dies(t, l, "segv")

(* The context a thread has looked up, and a step that only changes it. *)
Mine(t)       == ctx[me[t].ctx]
HasContext(t) == me[t].ctx # NULL
OnlyContext   == UNCHANGED <<table, writing, pipe, mounts, mutex, me>> /\ Quiet
OnlyPipelines == UNCHANGED <<table, writing, ctx, mounts, mutex, me>> /\ Quiet
OnlyHere      == UNCHANGED <<shared, me>> /\ Quiet

-----------------------------------------------------------------------------
(* streamStarted: register_stream, setStreamInfo for each enabled track,   *)
(* video first, which looks the new context up again, and                  *)
(* call_default_pipeline if the configuration names an output.             *)
RegisterStream(t) ==
  /\ Step(t, "696", "696 in")
  /\ \E c \in Contexts :
       /\ ctx[c].stream = NULL
       /\ ctx' = [ctx EXCEPT ![c] = NewContext(me[t].stream)]
       /\ me' = [me EXCEPT ![t].ctx = c]
  /\ Writes(t)

(* The contexts that have been in the table under an id. *)
Known(s) == {c \in Contexts : ctx[c].stream = s /\ ctx[c].lineage # {}}

RegisterStreamEnd(t) ==
  LET s == me[t].stream
      c == me[t].ctx
  IN  /\ Step(t, "696 in", "next")
      /\ \/ /\ table' = [table EXCEPT ![s] = c]
            /\ ctx' = [ctx EXCEPT ![c].lineage = Known(s) \cup {c}]
         \/ Overlaps(t) /\ UNCHANGED <<table, ctx>>
      /\ Leaves(t)

NextTrack(t) ==
  /\ LET kinds == me[t].kinds
         k     == IF "video" \in kinds THEN "video" ELSE "audio"
     IN  \/ /\ kinds # {} /\ Step(t, "next", "662")
            /\ me' = [me EXCEPT ![t].kind = k, ![t].kinds = @ \ {k}]
         \/ /\ kinds = {} /\ UNCHANGED me
            /\ \E to \in {"415", "done"} : Step(t, "next", to)
  /\ UNCHANGED shared /\ Quiet

SetStreamInfo(t) ==
  /\ HasContext(t)
  /\ Step(t, "674", IF me[t].kind = "video" THEN "676" ELSE "next")
  /\ ctx' = [ctx EXCEPT ![me[t].ctx].par = @ \cup {me[t].kind}]
  /\ OnlyContext

(* init_Codec, of a codec that it has a filter for. *)
InitCodec(t) ==
  /\ Step(t, "676", "next")
  /\ ctx' = [ctx EXCEPT ![me[t].ctx].filter = TRUE]
  /\ OnlyContext

-----------------------------------------------------------------------------
(***************************************************************************)
(* register_pipeline: the launch line is made from one lookup of the       *)
(* context (421) and run on another (608), or mounted for any that the id  *)
(* has when a client comes (rtsp 66).                                      *)
(***************************************************************************)

(* parse_codec.  The filter of a video track may not be there yet. *)
ParseVideo(t) ==
  /\ HasContext(t)
  /\ \/ "video" \in Mine(t).par /\ ~Mine(t).filter /\ Dies(t, "217", "segv")
     \/ /\ "video" \in Mine(t).par => Mine(t).filter
        /\ Step(t, "217", "231")
        /\ ctx' = [ctx EXCEPT ![me[t].ctx].caps = @ \cup (Mine(t).par \cap {"video"})]
        /\ OnlyContext

(* ... and generate_gst_pipeline *)
ParseAudio(t) ==
  LET caps == Mine(t).caps \cup (Mine(t).par \cap {"audio"})
  IN  /\ \E to \in {"done", "606", "rtsp 82"} :
           Step(t, "231", to) /\ (to = "done" <=> caps = {})
      /\ ctx' = [ctx EXCEPT ![me[t].ctx].caps = caps]
      /\ me' = [me EXCEPT ![t].text = caps, ![t].gen = me[t].ctx]
      /\ UNCHANGED <<table, writing, pipe, mounts, mutex>> /\ Quiet

(* Some thread is between the first access of set_appsrc and its last. *)
SettingSources(c) ==
  \E u \in Threads : pc[u] \in {"184", "187", "191"} /\ me[u].ctx = c

SetPipeline(t, p) ==
  ctx' = [ctx EXCEPT ![me[t].ctx].pipeline = p,
                     ![me[t].ctx].contended = @ \/ SettingSources(me[t].ctx)]

(* With an error gst_parse_launch returns nothing, or what it has built. *)
ParseLaunch(t) ==
  /\ HasContext(t)
  /\ \/ \E p \in Pipelines, kinds \in SUBSET me[t].text, to \in {"624", "done"} :
          /\ to = "624" => kinds = me[t].text
          /\ Step(t, "610", to)
          /\ pipe[p].state = "free"
          /\ pipe' = [pipe EXCEPT ![p] = NewPipeline("null", me[t].gen, kinds)]
          /\ SetPipeline(t, p)
     \/ /\ Step(t, "610", "done")
        /\ SetPipeline(t, NULL)
        /\ UNCHANGED pipe
  /\ UNCHANGED <<table, writing, mounts, mutex, me>> /\ Quiet

(* The argument is read before the state changes. *)
ReadPipeline(t) ==
  /\ Step(t, "624", "624 call")
  /\ me' = [me EXCEPT ![t].pipe = Mine(t).pipeline]
  /\ UNCHANGED shared /\ Quiet

InState(p, state) ==
  [q \in Pipelines |-> IF q = p THEN [pipe[q] EXCEPT !.state = state] ELSE pipe[q]]

SetPlaying(t) ==
  /\ Step(t, "624 call", "175")
  /\ pipe' = InState(me[t].pipe, "playing")
  /\ OnlyPipelines

(* add_rtsp_pipeline *)
SetMountpoint(t) ==
  /\ HasContext(t)
  /\ Step(t, "rtsp 118", "rtsp 119")
  /\ ctx' = [ctx EXCEPT ![me[t].ctx].rtsp_mountpoint = TRUE]
  /\ OnlyContext

AddFactory(t) ==
  /\ Step(t, "rtsp 119", "done")
  /\ mounts' = [mounts EXCEPT ![me[t].stream] = [gen |-> me[t].gen, kinds |-> me[t].text]]
  /\ UNCHANGED <<table, writing, ctx, pipe, mutex, me>> /\ Quiet

(* media_configure *)
MediaConfigure(t) ==
  /\ HasContext(t)
  /\ Step(t, "rtsp 68", "175")
  /\ SetPipeline(t, me[t].pipe)
  /\ OnlyContext

-----------------------------------------------------------------------------
(***************************************************************************)
(* set_appsrc.  ctx->pipeline is checked once and read again for each kind *)
(* with caps, and the source found there is written after that; one that   *)
(* is not found fails g_assert.                                            *)
(***************************************************************************)
CheckPipeline(t) ==
  /\ Step(t, "175", IF Mine(t).pipeline = NULL THEN "done" ELSE "180")
  /\ OnlyHere

(* Not the code: the context is looked up by the stream's id again. *)
ReadOutputAgain(t, from, found, next, k) ==
  LET c == table[me[t].stream]
      p == IF c = NULL THEN Mine(t).pipeline ELSE ctx[c].pipeline
  IN  /\ Step(t, from, IF k \in Mine(t).caps THEN found ELSE next)
      /\ me' = [me EXCEPT ![t].pipe = p]
      /\ UNCHANGED shared /\ Quiet

(* Not the code: an audio source that is there is kept. *)
KeepAudio(t, from, found, next, k) ==
  /\ Step(t, from, IF k \in Mine(t).caps /\ (k = "audio" => Mine(t).appsrc[k] = NULL)
                   THEN found ELSE next)
  /\ me' = [me EXCEPT ![t].pipe = Mine(t).pipeline]
  /\ UNCHANGED shared /\ Quiet

ReadOutput(t, from, found, next, k) ==
  /\ Step(t, from, IF k \in Mine(t).caps THEN found ELSE next)
  /\ me' = [me EXCEPT ![t].pipe = Mine(t).pipeline]
  /\ UNCHANGED shared /\ Quiet

HasElement(p, k) == p # NULL /\ k \in pipe[p].kinds

SetSource(t, from, next, k) ==
  \/ /\ HasElement(me[t].pipe, k)
     /\ Step(t, from, next)
     /\ ctx' = [ctx EXCEPT ![me[t].ctx].appsrc[k] = me[t].pipe]
     /\ OnlyContext
  \/ ~HasElement(me[t].pipe, k) /\ Dies(t, from, "abort")

SetAppsrc(t) ==
  \/ ReadOutput(t, "180", "184", "187", "video") \/ SetSource(t, "184", "187", "video")
  \/ ReadOutput(t, "187", "191", "194", "audio") \/ SetSource(t, "191", "194", "audio")

SetInitialized(t) ==
  /\ Step(t, "194", "done")
  /\ ctx' = [ctx EXCEPT ![me[t].ctx].pipeline_initialized = TRUE]
  /\ OnlyContext

-----------------------------------------------------------------------------
(* onPacket.  What the check reads only ever becomes true, so that it may  *)
(* be one step.                                                            *)
Accepts(r, k) ==
  /\ r.pipeline_initialized
  /\ \/ k = "video" /\ (k \in r.caps \/ r.appsrc[k] # NULL) /\ r.filter
     \/ k = "audio" /\ k \in r.caps /\ r.appsrc[k] # NULL

CheckSources(t) ==
  /\ HasContext(t)
  /\ Step(t, "79", IF Accepts(Mine(t), me[t].kind) THEN "push" ELSE "done")
  /\ OnlyHere

PushBuffer(t) ==
  LET src == Mine(t).appsrc[me[t].kind]
  IN  \/ Dies(t, "push", "abort") /\ src = NULL
      \/ /\ Step(t, "push", "done")
         /\ src # NULL
         /\ pipe' = [pipe EXCEPT ![src].fed = @ \cup {me[t].ctx}]
         /\ OnlyPipelines

-----------------------------------------------------------------------------
(* unregister_stream *)

(* Not the code: no mutex. *)
NoLock(t) == Step(t, "738", "741") /\ OnlyHere

Lock(t) ==
  /\ mutex = NULL
  /\ Step(t, "738", "741")
  /\ mutex' = t
  /\ UNCHANGED <<table, writing, ctx, pipe, mounts, me>> /\ Quiet

CheckOutput(t) ==
  /\ HasContext(t)
  /\ Step(t, "745", IF Mine(t).pipeline = NULL THEN "761" ELSE "747")
  /\ OnlyHere

SetNull(t) ==
  /\ Step(t, "747", "748")
  /\ pipe' = InState(Mine(t).pipeline, "null")
  /\ OnlyPipelines

ForgetPipeline(t) ==
  /\ Step(t, "748", "752")
  /\ SetPipeline(t, NULL)
  /\ OnlyContext

RemoveFactory(t) ==
  /\ Step(t, "752", "761")
  /\ mounts' = IF Mine(t).rtsp_mountpoint
               THEN [mounts EXCEPT ![me[t].stream] = NoFactory] ELSE mounts
  /\ UNCHANGED <<table, writing, ctx, pipe, mutex, me>> /\ Quiet

Remove(t) == Step(t, "761", "761 in") /\ Writes(t) /\ UNCHANGED <<ctx, me>>

RemoveEnd(t) ==
  /\ Step(t, "761 in", "774")
  /\ \/ table' = [table EXCEPT ![me[t].stream] = NULL]
     \/ Overlaps(t) /\ UNCHANGED table
  /\ UNCHANGED ctx
  /\ Leaves(t)

Unlock(t) ==
  /\ Step(t, "774", "done")
  /\ mutex' = NULL
  /\ UNCHANGED <<table, writing, ctx, pipe, mounts, me>> /\ Quiet

-----------------------------------------------------------------------------
Run(t) ==
  \/ Contains(t) \/ Lookup(t) \/ NullContext(t) \/ TableRace(t)
  \/ RegisterStream(t) \/ RegisterStreamEnd(t) \/ NextTrack(t)
  \/ SetStreamInfo(t) \/ InitCodec(t)
  \/ ParseVideo(t) \/ ParseAudio(t) \/ ParseLaunch(t) \/ ReadPipeline(t) \/ SetPlaying(t)
  \/ SetMountpoint(t) \/ AddFactory(t) \/ MediaConfigure(t)
  \/ CheckPipeline(t) \/ SetAppsrc(t) \/ SetInitialized(t)
  \/ CheckSources(t) \/ PushBuffer(t)
  \/ Lock(t) \/ CheckOutput(t) \/ SetNull(t) \/ ForgetPipeline(t) \/ RemoveFactory(t)
  \/ Remove(t) \/ RemoveEnd(t) \/ Unlock(t)

Next == \E t \in Threads : Call(t) \/ Run(t)

(* The operating system runs every thread that can run. *)
Fairness == \A t \in Threads : WF_vars(Run(t))

Spec == Init /\ [][Next]_vars /\ Fairness

-----------------------------------------------------------------------------
StreamMapT ==
  [stream : Streams \cup {NULL}, par : SUBSET Kinds, filter : BOOLEAN,
   caps : SUBSET Kinds, pipeline : Pipelines \cup {NULL},
   appsrc : [Kinds -> Pipelines \cup {NULL}], pipeline_initialized : BOOLEAN,
   rtsp_mountpoint : BOOLEAN, lineage : SUBSET Contexts, contended : BOOLEAN]

PipelineT ==
  [state : {"free", "null", "playing"}, gen : Contexts \cup {NULL},
   kinds : SUBSET Kinds, fed : SUBSET Contexts]

FactoryT == [gen : Contexts \cup {NULL}, kinds : SUBSET Kinds]

LocalsT ==
  [stream : Streams \cup {NULL}, kind : Kinds, kinds : SUBSET Kinds,
   ctx : Contexts \cup {NULL}, pipe : Pipelines \cup {NULL},
   gen : Contexts \cup {NULL}, text : SUBSET Kinds]

(* Shared memory and locals have their types, at every line. *)
TypeOK ==
  /\ table \in [Streams -> Contexts \cup {NULL}]
  /\ writing \subseteq Threads
  /\ ctx \in [Contexts -> StreamMapT]
  /\ pipe \in [Pipelines -> PipelineT]
  /\ mounts \in [Streams -> FactoryT]
  /\ mutex \in Threads \cup {NULL}
  /\ pc \in [Threads -> Lines]
  /\ me \in [Threads -> LocalsT]
  /\ torn \in BOOLEAN
  /\ status \in {"running", "segv", "abort", "ub"}

(***************************************************************************)
(* The one place that is locked is safe: unregister_stream never uses a    *)
(* context that another unregister_stream has removed between its contains *)
(* (741) and its lookup (744).  Only a read torn by register_stream, which *)
(* does not take the mutex, can give it NULL.                              *)
(***************************************************************************)
UnregisterSafe ==
  \A t \in Threads : pc[t] = "745" /\ me[t].ctx = NULL => torn

(***************************************************************************)
(* In every interleaving a context's sources and packets are in pipelines  *)
(* whose launch line was made for that registration of the id, or for one  *)
(* before it: a line may be kept over a new registration, by a call (421   *)
(* and 608) or by a factory, but never does a registration feed, or hold a *)
(* source of, the outputs of a later one, or of another id.                *)
(***************************************************************************)
NoLaterOutput ==
  /\ \A c \in Contexts, k \in Kinds :
       LET p == ctx[c].appsrc[k] IN p # NULL => pipe[p].gen \in ctx[c].lineage
  /\ \A p \in Pipelines : \A c \in pipe[p].fed : pipe[p].gen \in ctx[c].lineage

(***************************************************************************)
(* The two sources of a context are in one pipeline whenever no set_appsrc *)
(* is at work on it: launches and play requests that follow each other     *)
(* replace both.  The exception is the race that no lock excludes:         *)
(* ctx->pipeline was replaced, or cleared, while a set_appsrc that reads   *)
(* it once for each kind was between its first read and its last write.    *)
(***************************************************************************)
SourcesTogether ==
  \A c \in Contexts :
    LET src == ctx[c].appsrc
    IN  src["video"] = src["audio"] \/ NULL \in {src["video"], src["audio"]}
          \/ SettingSources(c) \/ ctx[c].contended

(* The bound: an allocation for which Contexts has no more. *)
OutOfBounds(t) == pc[t] = "696" /\ \A c \in Contexts : ctx[c].stream # NULL

(***************************************************************************)
(* Every call returns, unless the process dies: unregister_stream gives    *)
(* the mutex back on each of its paths, so none waits for it forever.  As  *)
(* a thread makes one call, that is: in the end no thread is in a call.    *)
(***************************************************************************)
EveryCallReturns ==
  <>[](\A t \in Threads :
         pc[t] \in {"start", "done"} \/ OutOfBounds(t) \/ status # "running")

(***************************************************************************)
(* gst_antmedia.c:169: a packet of a stream that is not registered is only *)
(* noticed; onPacket never uses a context that it has not got.             *)
(***************************************************************************)
PacketsChecked ==
  \A t \in Threads : pc[t] = "79" /\ me[t].ctx = NULL => torn

(***************************************************************************)
(* What makes UnregisterSafe inductive.  A call knows its arguments; the   *)
(* lines after a check of the looked-up context have one; the thread at a  *)
(* locked line holds the mutex; and as the only lines that clear an entry  *)
(* are locked, the entry that 741 found is still there at 744.             *)
(***************************************************************************)
Given == \A t \in Threads : pc[t] # "start" => me[t].stream \in Streams

Checked == {"696 in", "676", "push", "231", "624", "624 call", "175", "180", "184",
            "187", "191", "194", "rtsp 119", "747", "748", "752"}

ContextsChecked == \A t \in Threads : pc[t] \in Checked => HasContext(t)

Holders == \A t \in Threads : pc[t] \in Locked => mutex = t

EntryStays == \A t \in Threads : pc[t] = "744" => table[me[t].stream] # NULL

ThreadsInv ==
  /\ TypeOK /\ Given /\ ContextsChecked /\ Holders /\ EntryStays
  /\ UnregisterSafe

(***************************************************************************)
(* What makes NoLaterOutput inductive.  An entry of the table knows every  *)
(* registration of its id; a thread's context is one of the id it was      *)
(* called with; the launch line that a thread, a factory or a pipeline     *)
(* holds is one of a known registration; and the pipelines that a context, *)
(* and a thread between two lines of set_appsrc, refer to are in use.      *)
(***************************************************************************)
Registrations ==
  /\ \A c \in Contexts :
       /\ ctx[c].lineage # {} => ctx[c].stream # NULL
       /\ ctx[c].lineage \subseteq Known(ctx[c].stream)
  /\ \A s \in Streams : table[s] # NULL =>
       /\ table[s] \in Known(s)
       /\ Known(s) \subseteq ctx[table[s]].lineage

OwnContext(t) ==
  HasContext(t) => me[t].stream # NULL /\ Mine(t).stream = me[t].stream

WithLine == {"606", "608", "610", "rtsp 82", "rtsp 111", "rtsp 118", "rtsp 119",
             "rtsp 64", "rtsp 66", "rtsp 68"}

OwnLine(t) ==
  /\ pc[t] \in {"217", "231"} /\ HasContext(t) => me[t].ctx \in Known(me[t].stream)
  /\ pc[t] \in WithLine => me[t].gen \in Known(me[t].stream)
  /\ pc[t] \in {"610", "rtsp 68"} /\ HasContext(t) => me[t].gen \in Mine(t).lineage

OwnPipeline(t) ==
  /\ pc[t] \in {"rtsp 64", "rtsp 66", "rtsp 68"} =>
       me[t].pipe # NULL /\ pipe[me[t].pipe].gen = me[t].gen
  /\ pc[t] \in {"184", "191"} /\ me[t].pipe # NULL =>
       pipe[me[t].pipe].gen \in Mine(t).lineage

Outputs ==
  /\ \A s \in Streams : mounts[s].gen # NULL => mounts[s].gen \in Known(s)
  /\ \A p \in Pipelines : pipe[p].state = "free" => pipe[p].gen = NULL /\ pipe[p].fed = {}
  /\ \A c \in Contexts :
       ctx[c].pipeline # NULL => pipe[ctx[c].pipeline].gen \in ctx[c].lineage

OutputsInv ==
  /\ Registrations /\ Outputs /\ NoLaterOutput
  /\ \A t \in Threads : OwnContext(t) /\ OwnLine(t) /\ OwnPipeline(t)

(***************************************************************************)
(* What makes SourcesTogether inductive: a source is there for a kind with *)
(* caps only, and as long as nobody has touched ctx->pipeline meanwhile, a *)
(* set_appsrc at work holds ctx->pipeline, and has the video source there. *)
(***************************************************************************)
SourcesOfCaps ==
  \A c \in Contexts, k \in Kinds : ctx[c].appsrc[k] # NULL => k \in ctx[c].caps

AtWork(t) ==
  /\ pc[t] = "184" => "video" \in Mine(t).caps
  /\ pc[t] = "191" => "audio" \in Mine(t).caps
  /\ HasContext(t) /\ ~Mine(t).contended =>
       /\ pc[t] \in {"184", "191"} => me[t].pipe = Mine(t).pipeline
       /\ pc[t] \in {"187", "191"} => Mine(t).appsrc["video"] \in {NULL, Mine(t).pipeline}

SourcesInv ==
  /\ SourcesOfCaps /\ SourcesTogether
  /\ \A t \in Threads : AtWork(t)
=============================================================================
