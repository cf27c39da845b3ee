----------------------------- MODULE LibavDemux -----------------------------
(***************************************************************************)
(* The demuxer elements of gst-libav (gstavdemux.c).  A task runs          *)
(* gst_ffmpegdemux_loop: it opens the container, then reads a packet and   *)
(* pushes it to the pad of its stream.  In pull mode libavformat pulls     *)
(* from the sink pad and the element can seek; in push mode an upstream    *)
(* thread fills the pipe of LibavPipe.  Application threads seek and stop  *)
(* the element while the task runs.                                        *)
(*                                                                         *)
(* Packets are numbered by their place in the container, which is their    *)
(* time; every successful seek starts an epoch, and a segment is known by  *)
(* the epoch it announces.                                                 *)
(***************************************************************************)
EXTENDS LibavPipe

CONSTANTS
  Streams,        \* the streams a container may have
  Known,          \* those of a known type with known caps
  Seekers,        \* threads that seek, once each
  Seeks,          \* what they may ask for
  Modes,          \* what the peer and the format allow: "push", "pull"
  FileLen,        \* packets in the container
  MaxActivations, \* bound: times the element is started
  NoSegment,      \* a pad that has seen no segment event
  Upstream        \* a segment that upstream sent

ASSUME DemuxAssumption ==
  /\ Known \subseteq Streams
  /\ Seeks \subseteq [flush : BOOLEAN, segment : BOOLEAN, stop : 0..FileLen]
  /\ Modes \subseteq {"push", "pull"}
  /\ FileLen \in Nat /\ MaxActivations \in Nat
  /\ Seekers \cap {"free", "loop"} = {} /\ IsFiniteSet(Seekers)
  /\ NoSegment # Upstream /\ {NoSegment, Upstream} \cap Nat = {}

VARIABLES
  mode,       \* what the sink pad is activated in: the same every time
  app,        \* the element: stopped, running, or being stopped
  task,       \* none, started or paused
  lock,       \* the lock the task runs under: task_lock, or the STREAM_LOCK
  loop,       \* where the task is in its iteration, and with what: the
              \* epoch of a packet, or the cause of a failure
  opened,
  flushing,
  sinkflush,  \* upstream is flushing: pulls fail
  streams,    \* the GstFFStreams
  pads,       \* downstream of each stream's pad
  av,         \* libavformat: the next packet, and the epoch it belongs to
  segment,    \* demux->segment
  seek_event, \* the cached seek, or none
  cached,     \* cached_events: NULL, a list, or a list that was freed
  seeker,     \* each seeking thread
  out,        \* history: the last buffer pushed against its segment
  ending,     \* history: why the task last announced an end
  refused,    \* history: a seek failed since the element was opened
  status,     \* "ok", or what memory was misused
  starts      \* activations so far

elementVars ==
  <<mode, app, task, lock, loop, opened, flushing, sinkflush, streams, pads,
    av, segment, seek_event, cached, seeker, out, ending, refused, status,
    starts>>
vars == <<pipeVars, elementVars>>

NewStream == [seen |-> FALSE, discont |-> TRUE, eos |-> FALSE, ts |-> FALSE]
NewPad == [flushing |-> FALSE, segment |-> NoSegment, eos |-> FALSE,
           flow |-> "ok", late |-> FALSE]

(* History: how a buffer of the epoch e fits the segment its pad has seen. *)
Fit(p, e) == IF p.segment = NoSegment THEN IF p.late THEN "late" ELSE "bare"
             ELSE IF p.segment = Upstream THEN "upstream"
             ELSE IF p.segment = e THEN "own" ELSE "stale"

Epochs == 0..(Cardinality(Seekers) + MaxActivations)
InitialSegment == [epoch |-> 0, stop |-> FileLen, segment |-> FALSE]

Init ==
  /\ PipeInit
  /\ mode \in Modes /\ app = "stopped" /\ task = "none" /\ lock = "free"
  /\ loop = [at |-> "off", arg |-> "none"]
  /\ opened = FALSE /\ flushing = FALSE /\ sinkflush = FALSE
  /\ streams = [s \in Streams |-> NewStream]
  /\ pads = [s \in Streams |-> NewPad]
  /\ av = [pos |-> 0, epoch |-> 0]
  /\ segment = InitialSegment
  /\ seek_event = {} /\ cached = "NULL"
  /\ seeker = [s \in Seekers |-> [at |-> "idle", seek |-> {}]]
  /\ out = "none" /\ ending = "none" /\ refused = FALSE
  /\ status = "ok" /\ starts = 0

Seekable == mode = "pull" /\ app \in {"running", "joining"}   \* demux->seekable
Seen == {s \in Streams : streams[s].seen}
Shown == Seen \cap Known   \* the streams with a pad

-----------------------------------------------------------------------------
(* Events on all source pads *)

(* gst_ffmpegdemux_push_event: what each event does to a pad downstream.   *)
PushEvent(ps, event) ==
  [s \in Streams |->
     IF s \notin Shown \/ (ps[s].flushing /\ event[1] # "flush_stop") THEN ps[s]
     ELSE CASE event[1] = "flush_start" -> [ps[s] EXCEPT !.flushing = TRUE]
            [] event[1] = "flush_stop"  -> [ps[s] EXCEPT !.flushing = FALSE,
                                              !.segment = NoSegment, !.eos = FALSE]
            [] event[1] = "segment"     -> [ps[s] EXCEPT !.segment = event[2],
                                              !.late = FALSE]
            [] event[1] = "eos"         -> [ps[s] EXCEPT !.eos = TRUE]
            [] OTHER                    -> ps[s]]

SetFlags(ss, discont, eos) ==
  [s \in Streams |-> IF ss[s].seen
                     THEN [ss[s] EXCEPT !.discont = discont, !.eos = eos]
                     ELSE ss[s]]

IsEos(ss) == \A s \in Streams : ss[s].seen => ss[s].eos
HasOutputted == \E s \in Seen : streams[s].ts

(* The flow combiner: the result of one pad, among the last of all pads.   *)
Combined(ps, flow) ==
  LET flows == {ps[s].flow : s \in Shown} IN
  IF flow \in {"flushing", "error"} THEN flow
  ELSE IF flow = "ok" THEN "ok"
  ELSE IF flows \subseteq {"not_linked"} THEN "not_linked"
  ELSE IF flows \subseteq {"not_linked", "eos"} THEN "eos" ELSE "ok"

ResetFlows(ps) == [s \in Streams |-> [ps[s] EXCEPT !.flow = "ok"]]

-----------------------------------------------------------------------------
(* Seeking *)

(* Not the code: no segment is pushed after the seek. *)
ForgetfulSeekFrom(ps, k) ==
  /\ \/ /\ \E p \in 0..(FileLen - 1) : av' = [pos |-> p, epoch |-> av.epoch + 1]
        /\ segment' = [epoch |-> av'.epoch, stop |-> k.stop, segment |-> k.segment]
        /\ UNCHANGED refused
     \/ refused' = TRUE /\ UNCHANGED <<av, segment>>
  /\ pads' = ResetFlows(ps)
  /\ streams' = SetFlags(streams, TRUE, FALSE)

(* gst_ffmpegdemux_do_seek and what follows it: av_seek_frame lands        *)
(* anywhere, or fails; only a successful seek has a new segment.           *)
SeekFrom(ps, k) ==
  \/ /\ \E p \in 0..(FileLen - 1) : av' = [pos |-> p, epoch |-> av.epoch + 1]
     /\ segment' = [epoch |-> av'.epoch, stop |-> k.stop, segment |-> k.segment]
     /\ pads' = PushEvent(ResetFlows(ps), <<"segment", av'.epoch>>)
     /\ streams' = SetFlags(streams, TRUE, FALSE)
     /\ UNCHANGED refused
  \/ /\ pads' = ResetFlows(ps)
     /\ streams' = SetFlags(streams, TRUE, FALSE)
     /\ refused' = TRUE
     /\ UNCHANGED <<av, segment>>

At(s, from, to) ==
  /\ status = "ok"
  /\ seeker[s].at = from
  /\ seeker' = [seeker EXCEPT ![s].at = to,
                              ![s].seek = IF to = "done" THEN {} ELSE @]

(* gst_ffmpegdemux_perform_seek up to its locks: without a seekable peer   *)
(* it returns; with the flush flag it flushes, without it pauses the task. *)
SeekBegins(k) ==
  IF ~Seekable THEN [at |-> "done", seek |-> {}]
  ELSE [at |-> IF k.flush THEN "mark" ELSE "pause", seek |-> {k}]

(* gst_ffmpegdemux_send_event, and src_event once there is a pad: a seek   *)
(* is cached before the element is opened, unless it comes from a pad, and *)
(* ignored in push mode.                                                   *)
SendSeek(s) ==
  /\ status = "ok" /\ seeker[s].at = "idle"
  /\ \E k \in Seeks :
       \/ /\ ~opened
          /\ seek_event' = {k}
          /\ seeker' = [seeker EXCEPT ![s].at = "done"]
       \/ /\ opened \/ Shown # {}
          /\ seek_event' = seek_event
          /\ seeker' = [seeker EXCEPT ![s] = SeekBegins(k)]
  /\ UNCHANGED <<pipeVars, mode, app, task, lock, loop, opened, flushing,
                 sinkflush, streams, pads, av, segment, cached, out, ending,
                 refused, status, starts>>

(* gst_ffmpegdemux_perform_seek, from here to SeekFinish. *)
MarkFlushing(s) ==
  /\ At(s, "mark", "flush")
  /\ flushing' = TRUE
  /\ UNCHANGED <<pipeVars, mode, app, task, lock, loop, opened, sinkflush,
                 streams, pads, av, segment, seek_event, cached, out, ending,
                 refused, status, starts>>

PushFlushStart(s) ==
  /\ At(s, "flush", "lock")
  /\ sinkflush' = TRUE
  /\ pads' = PushEvent(pads, <<"flush_start">>)
  /\ UNCHANGED <<pipeVars, mode, app, task, lock, loop, opened, flushing,
                 streams, av, segment, seek_event, cached, out, ending,
                 refused, status, starts>>

PauseTask(s) ==
  /\ At(s, "pause", "lock")
  /\ task' = IF task = "none" THEN "none" ELSE "paused"
  /\ UNCHANGED <<pipeVars, mode, app, lock, loop, opened, flushing, sinkflush,
                 streams, pads, av, segment, seek_event, cached, out, ending,
                 refused, status, starts>>

(* Not the code: the seek does not wait for the loop. *)
UnlockedSeek(s) ==
  /\ At(s, "lock", "seek")
  /\ lock' = lock
  /\ \E k \in seeker[s].seek :
       IF k.flush THEN flushing' = FALSE /\ sinkflush' = FALSE
                  ELSE UNCHANGED <<flushing, sinkflush>>
  /\ UNCHANGED <<pipeVars, mode, app, task, loop, opened, streams, pads, av,
                 segment, seek_event, cached, out, ending, refused, status,
                 starts>>

(* The STREAM_LOCK, and the sink pad made available for the seek. *)
LockStream(s) ==
  /\ At(s, "lock", "seek")
  /\ lock = "free" /\ lock' = s
  /\ \E k \in seeker[s].seek :
       IF k.flush THEN flushing' = FALSE /\ sinkflush' = FALSE
                  ELSE UNCHANGED <<flushing, sinkflush>>
  /\ UNCHANGED <<pipeVars, mode, app, task, loop, opened, streams, pads, av,
                 segment, seek_event, cached, out, ending, refused, status,
                 starts>>

(* do_seek, flush-stop and segment downstream, and the task again.  When   *)
(* the element was stopped meanwhile there is no context to seek in, or    *)
(* no task: gst_pad_start_task then makes one and gives it the pad for an  *)
(* element.                                                                *)
SeekFinish(s) ==
  /\ At(s, "seek", "done")
  /\ lock' = IF lock = s THEN "free" ELSE lock
  /\ IF opened
     THEN \E k \in seeker[s].seek :
            SeekFrom(IF k.flush THEN PushEvent(pads, <<"flush_stop">>) ELSE pads, k)
     ELSE UNCHANGED <<av, segment, pads, streams, refused>>
  /\ status' = IF opened /\ task # "none" THEN "ok" ELSE "seek after stop"
  /\ task' = IF task = "none" THEN "none" ELSE "started"
  /\ UNCHANGED <<pipeVars, mode, app, loop, opened, flushing, sinkflush,
                 seek_event, cached, out, ending, starts>>

-----------------------------------------------------------------------------
(* The task *)

Running == status = "ok" /\ loop.at # "off"
GoTo(at, arg) == loop' = [at |-> at, arg |-> arg]

LoopBegin ==
  /\ status = "ok" /\ loop.at = "off"
  /\ task = "started" /\ lock = "free"
  /\ lock' = "loop"
  /\ GoTo(IF opened THEN "read" ELSE "open", "none")
  /\ UNCHANGED <<pipeVars, mode, app, task, opened, flushing, sinkflush,
                 streams, pads, av, segment, seek_event, cached, seeker, out,
                 ending, refused, status, starts>>

(* gst_ffmpeg_pipe_read and gst_ffmpegdata_read under libavformat: in push *)
(* mode a read waits for the pipe; a short or empty one fails or not.      *)
ReadWait ==
  /\ Running /\ mode = "push" /\ loop.at \in {"open", "read"}
  /\ \E n \in 1..MaxRead : PipeWait(n)
  /\ UNCHANGED elementVars

ReadOutcome(ok, fails, cause) ==
  \/ ok /\ IF loop.at = "open" THEN GoTo("opening", "none")
                              ELSE GoTo("packet", av.epoch)
  \/ fails /\ GoTo(IF loop.at = "open" THEN "open_failed" ELSE "read_failed", cause)

ReadPipe ==
  /\ Running /\ mode = "push" /\ loop.at \in {"open", "read"}
  /\ \E n \in 1..MaxRead :
       /\ PipeGet(n)
       /\ ReadOutcome(Got(n) > 0, Got(n) < n, "end")
  /\ UNCHANGED <<mode, app, task, lock, opened, flushing, sinkflush, streams,
                 pads, av, segment, seek_event, cached, seeker, out, ending,
                 refused, status, starts>>

(* gst_ffmpegdata_peek: a flushing or stopped pad fails the pull, and any  *)
(* pull may fail by itself.  What libavformat holds in its own buffers it  *)
(* can still give.                                                         *)
ReadPull ==
  /\ Running /\ mode # "push" /\ loop.at \in {"open", "read"}
  /\ LET cut == sinkflush \/ app # "running"
     IN  ReadOutcome(av.pos < FileLen \/ loop.at = "open", TRUE,
                     IF cut THEN "flush" ELSE "end")
  /\ UNCHANGED <<pipeVars, mode, app, task, lock, opened, flushing, sinkflush,
                 streams, pads, av, segment, seek_event, cached, seeker, out,
                 ending, refused, status, starts>>

(* gst_ffmpegdemux_open after the header: first the streams and their pads. *)
AddPads ==
  /\ Running /\ loop.at = "opening"
  /\ \E found \in SUBSET Streams :
       streams' = [s \in Streams |-> [NewStream EXCEPT !.seen = s \in found]]
  /\ pads' = [s \in Streams |-> [NewPad EXCEPT !.flushing = app # "running"]]
  /\ GoTo("added", "none")
  /\ UNCHANGED <<pipeVars, mode, app, task, lock, opened, flushing, sinkflush,
                 av, segment, seek_event, cached, seeker, out, ending, refused,
                 status, starts>>

(* Then opened, the cached seek or the segment, and the cached events.     *)
Open ==
  /\ Running /\ loop.at = "added"
  /\ opened' = TRUE
  /\ status' = IF cached = "freed" THEN "freed events" ELSE "ok"
  /\ cached' = "NULL"
  /\ LET seek == seek_event # {}
     IN  /\ pads' = CASE cached = "segment" ->
                            PushEvent(pads, <<"segment", Upstream>>)
                      [] OTHER -> IF seek THEN pads
                                  ELSE PushEvent(pads, <<"segment", segment.epoch>>)
         /\ GoTo(IF seek /\ mode = "pull" THEN "cached_seek" ELSE "read", "none")
         /\ seek_event' = IF mode = "pull" THEN seek_event ELSE {}
         /\ refused' = (seek /\ mode # "pull")
  /\ UNCHANGED <<pipeVars, mode, app, task, lock, flushing, sinkflush, streams,
                 av, segment, seeker, out, ending, starts>>

(* gst_ffmpegdemux_perform_seek from gst_ffmpegdemux_open: the task holds  *)
(* the lock already and nothing was pushed that a flush could undo.        *)
CachedSeek ==
  /\ Running /\ loop.at = "cached_seek"
  /\ seek_event' = {}
  /\ \E k \in seek_event :
       /\ SeekFrom(IF k.flush THEN PushEvent(PushEvent(pads, <<"flush_start">>),
                                             <<"flush_stop">>) ELSE pads, k)
       /\ IF k.flush THEN flushing' = FALSE /\ sinkflush' = FALSE
                     ELSE UNCHANGED <<flushing, sinkflush>>
  /\ task' = IF task = "none" THEN "none" ELSE "started"
  /\ status' = IF task = "none" THEN "seek after stop" ELSE "ok"
  /\ GoTo("read", "none")
  /\ UNCHANGED <<pipeVars, mode, app, lock, opened, cached, seeker, out, ending,
                 starts>>

(* Not the code: the lock is kept. *)
HoldingEnd == GoTo("off", "none") /\ lock' = lock

(* gst_ffmpegdemux_loop, done *)
IterationEnds == GoTo("off", "none") /\ lock' = "free"

(* gst_ffmpegdemux_loop with a packet: gst_ffmpegdemux_get_stream may find *)
(* a new stream; packets of unknown streams are dropped.                   *)
UnknownPacket ==
  /\ Running /\ loop.at = "packet"
  /\ \E s \in Streams \ Known : streams' = [streams EXCEPT ![s].seen = TRUE]
  /\ av' = [av EXCEPT !.pos = @ + 1]
  /\ IterationEnds
  /\ UNCHANGED <<pipeVars, mode, app, task, opened, flushing, sinkflush, pads,
                 segment, seek_event, cached, seeker, out, ending, refused,
                 status, starts>>

KnownPacket(s) ==
  /\ Running /\ loop.at = "packet"
  /\ s \in Known
  /\ av' = [av EXCEPT !.pos = @ + 1]

(* drop: the packet is behind the segment's stop. *)
Drop ==
  /\ \E s \in Known :
       /\ KnownPacket(s)
       /\ segment.stop < FileLen /\ av.pos > segment.stop
       /\ streams' = [streams EXCEPT ![s].seen = TRUE, ![s].ts = TRUE,
                                     ![s].eos = TRUE]
       /\ pads' = [pads EXCEPT ![s].late = @ \/ ~streams[s].seen]
  /\ IF IsEos(streams') THEN GoTo("eos", "end") /\ lock' = lock
                        ELSE IterationEnds
  /\ UNCHANGED <<pipeVars, mode, app, task, opened, flushing, sinkflush,
                 segment, seek_event, cached, seeker, out, ending, refused,
                 status, starts>>

PushResult(p) == IF p.flushing THEN {"flushing"}
                 ELSE IF p.eos THEN {"eos"}
                 ELSE {"ok", "eos", "not_linked", "error"}

(* gst_pad_push, and the result of all pads. *)
PushPacket ==
  /\ \E s \in Known :
       /\ KnownPacket(s)
       /\ ~(segment.stop < FileLen /\ av.pos > segment.stop)
       /\ streams' = [streams EXCEPT ![s].seen = TRUE, ![s].ts = TRUE,
                                     ![s].discont = FALSE]
       /\ \E flow \in PushResult(pads[s]) :
            /\ pads' = [pads EXCEPT ![s].flow = flow,
                                    ![s].late = @ \/ ~streams[s].seen]
            /\ out' = IF pads[s].flushing THEN out
                      ELSE Fit([pads[s] EXCEPT !.late = pads'[s].late], loop.arg)
            /\ LET ret == Combined(pads', flow) IN
               IF ret = "ok" THEN IterationEnds
                             ELSE GoTo(ret, "downstream") /\ lock' = lock
  /\ UNCHANGED <<pipeVars, mode, app, task, opened, flushing, sinkflush,
                 segment, seek_event, cached, seeker, ending, refused, status,
                 starts>>

(* Not the code: a read that was flushed is an end like any other. *)
FlushedReadResult ==
  IF HasOutputted \/ IsEos(streams) THEN "eos" ELSE "error"

(* read_failed *)
ReadResult ==
  IF flushing THEN "flushing"
  ELSE IF HasOutputted \/ IsEos(streams) THEN "eos" ELSE "error"

ReadFailed ==
  /\ Running /\ loop.at \in {"open_failed", "read_failed"}
  /\ GoTo(IF loop.at = "open_failed" THEN "error" ELSE ReadResult, loop.arg)
  /\ UNCHANGED <<pipeVars, mode, app, task, lock, opened, flushing, sinkflush,
                 streams, pads, av, segment, seek_event, cached, seeker, out,
                 ending, refused, status, starts>>

(* pause: the task stops itself, and announces the end it has met.         *)
Pause ==
  /\ Running /\ loop.at \in {"eos", "error", "flushing", "not_linked"}
  /\ IF mode = "push"
     THEN task' = "paused" /\ PipePause(loop.at)
     ELSE task' = (IF task = "none" THEN "none" ELSE "paused") /\ UNCHANGED pipeVars
  /\ pads' = IF loop.at = "flushing" \/ (loop.at = "eos" /\ segment.segment)
             THEN pads ELSE PushEvent(pads, <<"eos">>)
  /\ ending' = IF loop.at = "flushing" THEN ending ELSE loop.arg
  /\ IterationEnds
  /\ UNCHANGED <<mode, app, opened, flushing, sinkflush, streams, av, segment,
                 seek_event, cached, seeker, out, refused, status, starts>>

-----------------------------------------------------------------------------
(* The upstream thread, in push mode *)

Pushing == status = "ok" /\ mode = "push" /\ app = "running"

ChainCall == Pushing /\ (Chain \/ ChainIgnore) /\ UNCHANGED elementVars
ChainReturn == status = "ok" /\ ChainWoken /\ UNCHANGED elementVars

(* gst_ffmpegdemux_sink_event.  An event before the element is opened is   *)
(* kept for gst_ffmpegdemux_open.                                          *)
SerializedEvent ==
  /\ Pushing
  /\ \/ opened /\ SerializedCall /\ UNCHANGED elementVars
     \/ /\ ~opened /\ Call
        /\ cached' \in IF cached = "NULL" THEN {"list", "segment"}
                       ELSE IF cached = "list" THEN {"list", "segment"} ELSE {cached}
        /\ status' = IF cached = "freed" THEN "freed events" ELSE "ok"
        /\ UNCHANGED <<ffpipe, cond, up, size, mode, app, task, lock, loop,
                       opened, flushing, sinkflush, streams, pads, av, segment,
                       seek_event, seeker, out, ending, refused, starts>>

(* Not all kinds of events are told apart: upstream's own segment is        *)
(* forwarded like any other.                                               *)
SerializedStep ==
  /\ status = "ok"
  /\ SerializedWaits
  /\ pads' \in IF up' = "idle" THEN {pads, PushEvent(pads, <<"segment", Upstream>>)}
                               ELSE {pads}
  /\ UNCHANGED <<mode, app, task, lock, loop, opened, flushing, sinkflush,
                 streams, av, segment, seek_event, cached, seeker, out, ending,
                 refused, status, starts>>

EosEvent == Pushing /\ PipeEos /\ UNCHANGED elementVars

FlushStart ==
  /\ Pushing /\ ~sinkflush /\ up # "flush_stop"
  /\ sinkflush' = TRUE
  /\ pads' = PushEvent(pads, <<"flush_start">>)
  /\ PipeFlushStart
  /\ UNCHANGED <<mode, app, task, lock, loop, opened, flushing, streams, av,
                 segment, seek_event, cached, seeker, out, ending, refused,
                 status, starts>>

(* The list of cached events is freed and its pointer kept. *)
FlushStop ==
  /\ Pushing /\ sinkflush
  /\ FlushStopCall
  /\ sinkflush' = FALSE
  /\ pads' = PushEvent(pads, <<"flush_stop">>)
  /\ cached' = IF cached = "NULL" THEN "NULL" ELSE "freed"
  /\ status' = IF cached = "freed" THEN "freed events" ELSE "ok"
  /\ UNCHANGED <<mode, app, task, lock, loop, opened, flushing, streams, av,
                 segment, seek_event, seeker, out, ending, refused, starts>>

(* The task goes on.  It is started again also when the element was told   *)
(* to stop meanwhile, and once it was joined it runs in an element that is *)
(* being closed.                                                           *)
FlushRestart ==
  /\ status = "ok" /\ mode = "push"
  /\ PipeFlushStop
  /\ task' = "started"
  /\ flushing' = FALSE
  /\ status' = IF app \in {"running", "joining"} THEN "ok" ELSE "task after stop"
  /\ UNCHANGED <<mode, app, lock, loop, opened, sinkflush, streams, pads, av,
                 segment, seek_event, cached, seeker, out, ending, refused,
                 starts>>

-----------------------------------------------------------------------------
(* Changes of state *)

(* gst_ffmpegdemux_sink_activate and activate_mode *)
Activate ==
  /\ status = "ok" /\ app = "stopped" /\ starts < MaxActivations
  /\ app' = "running"
  /\ IF mode = "push" THEN PipeActivate ELSE UNCHANGED pipeVars
  /\ task' = "started"
  /\ sinkflush' = FALSE
  /\ av' = [pos |-> 0, epoch |-> av.epoch + 1]
  /\ segment' = [segment EXCEPT !.epoch = av.epoch + 1]
  /\ ending' = "none"
  /\ starts' = starts + 1
  /\ UNCHANGED <<mode, lock, loop, opened, flushing, streams, pads, seek_event,
                 cached, seeker, out, refused, status>>

(* The source pads go first, then the sink pad: no data, no pulls, and the *)
(* task is told to stop.                                                   *)
Deactivate ==
  /\ status = "ok" /\ app = "running"
  /\ app' = "joining"
  /\ IF mode = "push" THEN PipeDeactivate ELSE UNCHANGED pipeVars
  /\ task' = "none"
  /\ pads' = [s \in Streams |-> [pads[s] EXCEPT !.flushing = TRUE]]
  /\ UNCHANGED <<mode, lock, loop, opened, flushing, sinkflush, streams, av,
                 segment, seek_event, cached, seeker, out, ending, refused,
                 status, starts>>

(* The lock the task runs under, then gst_task_join. *)
JoinTask ==
  /\ status = "ok" /\ app = "joining" /\ lock = "free"
  /\ app' = "closing"
  /\ task' = "none"
  /\ UNCHANGED <<pipeVars, mode, lock, loop, opened, flushing, sinkflush, streams,
                 pads, av, segment, seek_event, cached, seeker, out, ending,
                 refused, status, starts>>

(* The pad's own STREAM_LOCK, which a thread in the chain or event         *)
(* function holds; then change_state's gst_ffmpegdemux_close.              *)
Close ==
  /\ status = "ok" /\ app = "closing" /\ up = "idle" /\ lock = "free"
  /\ app' = "stopped"
  /\ PipeClear
  /\ opened' = FALSE
  /\ IF opened
     THEN /\ seek_event' = {}
          /\ segment' = [InitialSegment EXCEPT !.epoch = segment.epoch]
     ELSE UNCHANGED <<seek_event, segment>>
  /\ streams' = [s \in Streams |-> NewStream]
  /\ pads' = [s \in Streams |-> NewPad]
  /\ cached' = "NULL" /\ ending' = "none" /\ out' = "none"
  /\ status' = IF cached = "freed" THEN "freed events" ELSE "ok"
  /\ UNCHANGED <<mode, task, lock, loop, flushing, sinkflush, av, seeker,
                 refused, starts>>

-----------------------------------------------------------------------------
SeekStep(s) ==
  MarkFlushing(s) \/ PushFlushStart(s) \/ PauseTask(s) \/ LockStream(s) \/ SeekFinish(s)

LoopStep ==
  LoopBegin \/ ReadWait \/ ReadPipe \/ ReadPull \/ AddPads \/ Open
  \/ CachedSeek \/ UnknownPacket \/ Drop \/ PushPacket \/ ReadFailed \/ Pause

Wakeup == status = "ok" /\ SpuriousWakeup /\ UNCHANGED elementVars

Next ==
  \/ \E s \in Seekers : SendSeek(s) \/ SeekStep(s)
  \/ LoopStep
  \/ ChainCall \/ ChainReturn \/ SerializedEvent \/ SerializedStep
  \/ EosEvent \/ FlushStart \/ FlushStop \/ FlushRestart
  \/ Activate \/ Deactivate \/ JoinTask \/ Close
  \/ Wakeup

(* A thread that can run is run.  What arrives from outside is not fair.   *)
Fairness ==
  /\ WF_vars(LoopStep)
  /\ WF_vars(ChainReturn) /\ WF_vars(SerializedStep) /\ WF_vars(FlushRestart)
  /\ WF_vars(JoinTask) /\ WF_vars(Close)
  /\ \A s \in Seekers : WF_vars(SeekStep(s))

Spec == Init /\ [][Next]_vars /\ Fairness

-----------------------------------------------------------------------------
(* Properties *)

SegmentIds == Epochs \cup {NoSegment, Upstream}

TypeOK ==
  /\ PipeTypeOK
  /\ mode \in Modes
  /\ app \in {"stopped", "running", "joining", "closing"}
  /\ task \in {"none", "started", "paused"}
  /\ lock \in {"free", "loop"} \cup Seekers
  /\ streams \in [Streams -> [seen : BOOLEAN, discont : BOOLEAN, eos : BOOLEAN,
                              ts : BOOLEAN]]
  /\ pads \in [Streams -> [flushing : BOOLEAN, segment : SegmentIds,
                           eos : BOOLEAN, flow : Flows, late : BOOLEAN]]
  /\ segment \in [epoch : Epochs, stop : 0..FileLen, segment : BOOLEAN]
  /\ seek_event \subseteq Seeks
  /\ cached \in {"NULL", "list", "segment", "freed"}
  /\ out \in {"none", "late", "bare", "upstream", "own", "stale"}

(* g_cond_signal wakes one thread, and one condition serves both sides:    *)
(* that is enough as long as they never wait at once.                      *)
OneWaiter == Cardinality(cond) < 2

(* A buffer that libavformat read before a seek is never pushed under the  *)
(* segment of that seek, nor one read after it under an older segment.     *)
NoStaleData == out # "stale"

(* In pull mode data goes out without a segment only on a pad that appeared *)
(* after the element was opened, or after a seek that failed.              *)
SegmentFirst == mode = "pull" /\ out = "bare" => refused

(* A read of an opened element that fails because of a flush is no end of  *)
(* stream and no error: only the end of the element, or a second seek,     *)
(* makes it one.                                                           *)
FlushIsNoEnd ==
  ending = "flush" /\ opened =>
    app # "running" \/ Cardinality({s \in Seekers : seeker[s].at # "idle"}) > 1

(* The chain function lets its caller go as long as the task goes on.      *)
ChainReturns == (up = "chain") ~> (up = "idle" \/ task # "started" \/ status # "ok")

(* A seek gets the lock and returns.                                       *)
SeekReturns ==
  \A s \in Seekers : (seeker[s].at = "lock") ~> (seeker[s].at = "done" \/ status # "ok")

(* Stopping the element ends, but for an upstream thread inside a          *)
(* serialized event.                                                       *)
StopReturns ==
  (app = "joining") ~> (app = "stopped" \/ up = "serialized" \/ status # "ok")
=============================================================================
