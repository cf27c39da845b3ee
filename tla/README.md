# A verification of the GST-ANT-Fusion plugin

GST-ANT-Fusion is a plugin of Ant Media Server that gives every published
stream further outputs: an RTSP mount point, RTMP, SRT or RTP sinks, captions,
or any GStreamer pipeline.  A thin Java part listens to the server and calls a
native library, `libGstAntFusion.so`, through JNA; the library keeps a table of
streams and pushes their packets into GStreamer pipelines.  The pipelines'
demuxers, decoders, encoders and muxers are those of `gst-libav`, of which the
repository carries a patched copy.  These TLA+ modules model the library, the
Java code that drives it and the elements; TLC checks them on small
instances and TLAPS proves the most important of their properties for every
instance.  Line numbers refer to `Native/gst_antmedia.c` under
`src/main/java/io/antmedia/` unless a file is named; the `gstav*.c` are in
`gst-libav/ext/libav/`.

## 1. The system

| Part | State | Operations | Talks to |
|---|---|---|---|
| `plugin/SamplePlugin.java` | `is_init`, the packet listener, where each stream is in its session | constructor (starts a thread that runs `init_plugin`), `streamStarted`, `streamFinished`, room events, caption callback | the library, in the server's threads, one bean per application |
| `rest/RestService.java` | none | `register_pipeline`: validates a request, calls the library, answers | the library, in the HTTP threads |
| `app/SamplePacketListener.java`, `app/NativeInterface.java`, `app/DataMaper.java` | none | `onVideoPacket`, `onAudioPacket` pass the packet on | `onPacket`, in the muxer's threads |
| `Native/gst_antmedia.c`, `data_struct.h` | `hash_table` (stream id to `StreamMap`), `hashtable_mutex`, the `StreamMap`s (codec parameters, caps, parser, filter, `pipeline`, the two `appsrc`s, `pipeline_initialized`, mount point) and the pipelines it has started | `init_plugin`, `register_stream`, `setStreamInfo`, `register_pipeline`, `call_default_pipeline`, `unregister_stream`, `onPacket`, room calls | GStreamer, `rtsp.c`, `transcriber.c` |
| `Native/rtsp.c` | `mounts`, the media factories with their launch lines, shared media | `init_rtsp`, `add_rtsp_pipeline`, the callback `media_configure` in the RTSP server's loop | the table, `set_appsrc` |
| `Native/config.c` | `config` | `get_config` reads `gst_plugin.cfg` | read by `call_default_pipeline`, the launch lines, `init_rtsp` |
| `Native/transcriber.c` | `callback` | `transcription_data` on a signal of the caption element, `registerCallback` | `SamplePlugin` |
| `gstavprotocol.c`, `gstavdemux.c` | the pipe between upstream and the demuxing task (`ffpipe`), the element (`opened`, `flushing`, cached seek and events), the segment, streams and pads | chain, sink events, the task's loop, seeks, activation, state changes | libavformat, upstream's thread, seeking threads, the application |
| `gstavviddec.c` | caps, codec, output state, the last picture's format, the internal buffer pool | `set_format`, `handle_frame`, `get_buffer2`, `drain`, `flush`, `finish`, `stop` | libavcodec and its threads, the decoder base class |
| `gstavvidenc.c`, `gstavaudenc.c` | codec, `opened`, `need_reopen`, the channels' order | `set_format`, `handle_frame`, `finish`, `flush`, `stop` | libavcodec, the encoder base classes |
| `gstavauddec.c` | caps, codec, the last frame's format | `set_format`, `handle_frame`, `drain`, `flush` | libavcodec, the audio decoder base class |
| `gstavmux.c` | `opened`, the streams of the context | `request_new_pad`, caps events, `collected`, state changes | libavformat, collectpads, the application |
| `gstavcodecmap.c`, `gstavcfg.c`, `gstavutils.c`, `gstavdeinterlace.c`, `gstav.c` | none to speak of | tables between codec ids and caps (with the repository's one patch, which hands out the caps string), options, registration | the elements |

**How they interact.**  `streamStarted` makes five calls in a row:
`register_stream`, `setStreamInfo` for video and for audio,
`call_default_pipeline`, and only then the packet listener is installed.  REST
requests and RTSP play requests come from other threads at any point of that
sequence, also before it and after `streamFinished`.  There is no lock around
the table except inside `unregister_stream`.  An RTSP output is made in two
parts that may lie far apart: `add_rtsp_pipeline` stores a launch line with the
caps of that moment, and `media_configure`, when the first client plays, finds
its stream again *by id* and takes the media for whatever context it finds.

**What is hard.**  Overwritten pointers (`ctx->pipeline`, a table entry) decide
whether an output can ever be stopped; `unregister_stream` leaves the context's
sources in place and removes the mount point in one branch only; a failed
launch clears the pointer to a pipeline that plays on; the assertions in
`set_appsrc` and `onPacket` rely on caps and sources that other calls set; the
start of the library is not awaited; and every function may be interleaved with
every other at any access to the table.  `PROJECT.json` lists these hazards line by
line.

**What makes each part correct.**

* Registry: an entry leads to a context of its own id; a packet reaches only a pipeline that was made
  for its stream, and with the codec of its track; whatever still plays can be
  stopped; nothing dereferences NULL or fails an assertion.
* RTSP: a mount point goes when its registration goes; a play request never
  connects a stream to another's media.
* Life cycle: outputs that were promised exist once a stream is live; the end of
  a stream is the end of its outputs only.
* Threads: `unregister_stream` excludes itself and gives the mutex back on every
  path; while calls overlap, a registration never reaches the outputs of a later
  one, and the two sources of a context are in one pipeline unless a launch
  overtakes another in the middle of `set_appsrc`.
* Demuxers: the two sides of the pipe do not lose each other's signals; no packet
  goes out under another seek's segment; a flush is never taken for an end.
* Decoders: accepted caps have an open codec; what is pushed has the agreed
  format; the base class's list of frames and the codec's pictures agree; a
  drain loses nothing it need not lose.
* Encoders: a packet goes out with the frame it was made from, and the codec
  is open for the caps of the element.
* Muxers: the header covers and describes all that is written, and what is
  written is in the order of time.

**The elements.**  A demuxer is where threads meet: one brings data, the task
reads them through libavformat, others seek or stop the element, and all of
them share one condition variable and one lock that a thread may have to wait
for in the middle of a call.  In a decoder or encoder one thread runs at a time
(but for the buffers a codec asks for from a thread of its own); there the
difficulty is bookkeeping.  The base class counts frames, the codec holds some
of them back, and a drain, a flush, a change of caps or a failure in the middle
must leave the two with the same frames.  In a muxer the application's thread
adds pads without any lock in common with the streaming threads.

## 2. The modules

| Module | What it is |
|---|---|
| `OutputSwitch` | the abstract specification: streams are published and withdrawn, a stream has at most one active output, packets go to it and to nothing else |
| `FusionPlugin` | the library and the Java side, one action per native call |
| `FusionThreads` | the same functions line by line, one call per thread |
| `LibavPipe` | the demuxers' data pipe: chain function, reads, flushes, one condition variable |
| `LibavDemux` | the demuxer element around the pipe (it extends `LibavPipe`) |
| `LibavVidDec`, `LibavAudDec` | the video and the audio decoder |
| `LibavEncoders` | the video and the audio encoder |
| `LibavMux` | the muxer |
| `FusionPluginProofs`, `FusionThreadsProofs`, `LibavDemuxProofs`, `LibavVidDecProofs`, `LibavEncodersProofs`, `LibavAudDecProofs`, `LibavMuxProofs` | theorems |
| `MCFusionPlugin`, `MCFusionThreads`, `MCLibav...` | values of the constants for TLC |

### FusionPlugin

| Variable | Code |
|---|---|
| `lib` | how far `init_plugin` is: `loaded`, `configured` (591), `table` (596), `gst` (578), `serving` (`mounts` set, rtsp.c:26) |
| `config` | `plugin_config`'s two default protocols; the ports only appear in texts |
| `table` | `hash_table`; `NULL` is "not contained" |
| `ctx` | the `StreamMap`s.  `par` holds `videopar` and `audiopar`, `caps` the caps strings, `parser` the tracks that have a parser and payloader, `appsrc` the pipelines whose sources are held.  The field `stream` is history: the id it was made for.  The code never frees them, the model neither |
| `mounts` | per stream the factory at its mount point: the context and caps its launch line was made from, whether the line parses, and the shared media |
| `pipe` | pipelines: launched by the plugin or made by a factory, playing or stopped, and, as history, their stream, the context of their launch line and the contexts that fed them |
| `lost` | history: the pipelines whose last pointer was overwritten, the contexts that were replaced in the table or lost their output to a failed launch |
| `status` | running, or how the process died |
| `phase`, `codec` | the Java side: where `streamStarted` is for each application and stream, and the tracks of the session |

Each action is a native call run to its end; the calls of `streamStarted` are
one action each (`JavaRegister`, `JavaVideoInfo`, `JavaAudioInfo`,
`JavaDefault`, `AddPacketListener`), so everything else can come in between.
`RegisterPipeline` is the whole function with `parse_codec`,
`generate_gst_pipeline`, `add_gstreamer_pipeline` or `add_rtsp_pipeline` and
`set_appsrc` inside; `Rest` and `CallDefaultPipeline` both end in it.  Calls are
whole here, `set_appsrc` with its two unlocked reads of `ctx->pipeline` too: this
module is about the order of calls, and what can happen inside them is the
subject of `FusionThreads`.
`ClientPlay` is a first client's request with `media_configure` inside,
`ClientsLeave` the RTSP server stopping the media.

Abstractions.  A launch line is the set of tracks it names with their codecs;
whether GStreamer accepts the rest is a choice between a pipeline, an error,
and an error with a partial pipeline, and the line of a track without a parser
("(null)") does not parse.  A `Gstreamer` pipeline of a user gets the library's
own prefix with the named sources, as in the code.  Calls on a table or mount points that do not exist
yet fail with GLib's critical warning and change nothing.  Packets have no
content.  The stream key of the mount points is the id, as in the code.

### FusionThreads

A thread runs one native call and `pc` is the source line it is about to run.
The steps are the accesses to shared memory, in the code's order: `contains`
and `lookup` on the table are separate steps, an insertion or removal has a
beginning and an end, and a read or a write that overlaps one (`writing`) may
miss it, be lost, or crash the process, since `GHashTable` promises nothing
then.  `hashtable_mutex` is taken by `unregister_stream` and by nobody else, as
in the code.

| Variable | Code |
|---|---|
| `ctx` | the `StreamMap`s: which tracks have parameters, a filter and caps, `pipeline`, the two `appsrc`s, `pipeline_initialized`, `rtsp_mountpoint`.  As history, `lineage`: the registrations of the id up to this one; `contended`: `ctx->pipeline` was written while a `set_appsrc` was at work on the context |
| `pipe`, `mounts` | pipelines and factories, each with `gen`, the context whose caps its launch line was made from, and the tracks in that line; of a pipeline also the contexts that have fed it |
| `me` | a thread's locals: its arguments, the context it has looked up, the pipeline it has read, the launch line it has made (`gen`, `text`) |

`streamStarted` makes its native calls in their order in one thread: registration,
`setStreamInfo` for each enabled track (with its own lookup, and `init_Codec` as a
step after the parameters are stored), and a default output or none.
`register_pipeline` makes its launch line from the context found at 421 and runs
it on the one found at 608; a factory keeps its line until a client comes, and
`media_configure` then takes the context that the id has.  `set_appsrc` is
a read and a write per track, as at 180-193.  A launch with an error gives no pipeline, or
one that lacks some of the tracks.

A property of the outputs must therefore speak of the line: `NoLaterOutput`
says that what a context feeds or holds sources of was made from its own
registration or an earlier one of the id, never from a later one.  That earlier ones
occur (a REST launch between 421 and 608, a factory that outlives its
registration) is the code's behaviour.

Left out are parsers (every codec has one and a filter here; `FusionPlugin` has
the others) and the config.

### FusionPlugin implements OutputSwitch

`OutputRefinement` maps `published` to the table's ids, `owner` to the stream
a pipeline was made for, `delivered` to the streams of the contexts that fed
it, and `active` to the pipeline that holds the sources of the registered
context (`SourcesPaired`: in `FusionPlugin`, where calls are whole, both are in one).  So a re-registration is a fresh `Publish`, a failed launch changes
nothing (the old output goes on getting packets), a partial one or a media
that was asked for by an id that is gone is an output that never becomes
active.

### LibavPipe and LibavDemux

| Variable | Code |
|---|---|
| `ffpipe`, `cond`, `size` | `GstFFMpegPipe`: what the adapter holds, `needed`, `eos`, `srcresult`; the threads waiting on its condition; what the read in progress asked for |
| `up` | the upstream thread: idle, inside the chain function, a serialized event or FLUSH_STOP |
| `mode`, `app`, `task`, `lock` | push or pull, where the application is with starting and stopping, the pad's task, and who holds the STREAM_LOCK (pull) or `task_lock` (push) |
| `loop` | where `gst_ffmpegdemux_loop` is in its iteration, with the epoch of the packet in hand |
| `opened`, `flushing`, `seek_event`, `cached` | the fields of those names; `cached` also says if the list was freed |
| `streams`, `pads` | the `GstFFStream`s, and what each pad's downstream has seen |
| `av`, `segment` | libavformat's position, `demux->segment`, each with the epoch of the last seek |
| `seeker` | each thread in `gst_ffmpegdemux_perform_seek`, at its unlocked steps |

A critical section of the pipe is one action and ends where it waits; what
follows the wait is the next action, so every interleaving at `g_cond_wait` is
there, with spurious wakeups.  `Signalled` is `g_cond_signal`: one waiter, any.
The element's actions are the pieces of a function between two points where
another thread can see or stop it.  The opening is three: reading the header, `AddPads`
and `Open`, as a pad can get a seek before `opened` is set; FLUSH_STOP is two, the events
first (`FlushStop`), then the pipe and the task (`FlushRestart`).  A seek is five actions (`MarkFlushing`, `PushFlushStart`
or `PauseTask`, `LockStream`, `SeekFinish`), an iteration of the loop about
four.  Stopping is three (`Deactivate`, `JoinTask`, `Close`), as GStreamer waits
for the task and then for the threads in the pad.  Three outcomes end a behaviour in
`status`, as what follows is not defined: use of the freed list of cached events,
a seek in an element that was stopped meanwhile, and a task that FLUSH_STOP starts
in an element that is being closed.

### LibavVidDec, LibavAudDec, LibavEncoders

The three have the same shape.  `dec` or `enc` holds the fields of the element,
`codec` what libavcodec holds, `frames` or `base` what the base class
holds, `task` where the streaming thread is, `srcpad` what downstream makes of
buffers, and `hist` history for the properties.  One call of the base class is
a short chain of actions: it begins (`HandleFrame`, `SetFormat`, `DrainBegin`,
...), receives one picture, packet or frame per action, and ends.  Between them
downstream may change its mind.

* `LibavVidDec` keeps the picture's format (`dec.pic`) and the output state
  apart, since the code compares a picture with the one and copies into buffers
  of the other; `pool` holds the internal pool, the one in use and
  `pool_format`; `lock` is the STREAM_LOCK, which the element gives up
  around `avcodec_send_packet` because the codec may ask for a buffer from
  another thread (`AskElsewhere`).  With frame threads such a request (`asking`) may
  outlive the call that led to it; the next use of the codec, a drain or a flush
  too, waits for it, and those two keep the lock.  A drain whose null packet is
  refused (1938) ends at once (`DrainRefused`).
* `LibavEncoders` is both encoders; `media` says which, and where the two files
  differ there is a disjunct for each (`VideoFrame`, `AudioFrame`, `VideoFormat`,
  `AudioFormat`).  `canFlush` is `AV_CODEC_CAP_ENCODER_FLUSH`; `codec.unsent` says that
  the last NULL was answered with an error, after which `flush_buffers` goes to its
  end without receiving and without flushing (gstavvidenc.c:798).
* `LibavAudDec` counts packets that are not finished (`base.pending`), because
  the base class dates a subframe by the oldest of them.  A drain whose null packet
  is refused neither flushes nor finishes anything (599, 628), and is a cause of
  its own in `hist.skew`.

External, modelled from how this code uses them: libavcodec keeps at most
`Delay` frames back, gives them in order, refuses input when it is drained,
may fail on any frame, and asks for buffers only inside
`avcodec_send_packet`; the base classes keep frames until they are finished
or dropped and forget them at a flush or stop; collectpads calls back when
every pad has a buffer or has ended.

### LibavMux

| Variable | Code |
|---|---|
| `mux` | `opened`, and whether `pb` is open |
| `streams` | `context->streams`, with the caps `setcaps` has written into each |
| `request` | a pad between the check of `opened` in `request_new_pad` and its new stream |
| `pad`, `collect`, `flow` | collectpads: the buffer and the end of each pad; where `gst_ffmpegmux_collected` is; what it returned last |
| `header` | the caps in the header that was written |
| `hist` | history, per stream where it matters: whose buffers the header does not describe, whose caps came after the header, whose caps are an earlier run's |

`collected` is a chain: `CollectOpen` (checks and `gst_ffmpegdata_open`),
`WriteHeader`, then per call `WriteFrame` or `WriteTrailer`.  The application's
`RequestPad` and `NewStream` come in between anywhere.

## 3. The runs

Runs that pass:

| Run | Question | Bounds |
|---|---|---|
| `glue` (MCFusionGlue) | the system as shipped: `IsVideo = 0`, streams may start before the library is ready, `rtmpout` streams end in the plugin too.  `NoCrash`; `LeakOnlyLost`: a launched pipeline that plays is pointed to, except where a pointer was overwritten; `MountOutlives`: a mount point outlives its registration only in the three ways the code allows; `TypeOK` | two applications, one id, two contexts, two pipelines |
| `streams` (MCFusionStreams) | video and audio with two ids, codecs with and without a filter: `Isolation`, `OwnCaps`, and `OutputRefinement` | two ids, two contexts, two pipelines, two video codecs |
| `finish` (MCThreadsFinish) | two ends of one stream and a registration that announces a track and launches its default output, line by line: `UnregisterSafe`, `EveryCallReturns`, `TypeOK` | three threads, one id, two contexts, one pipeline, a video track |
| `replace` (MCThreadsReplace) | a launch, a play request, a packet and a registration of one stream, line by line: `NoLaterOutput` | four threads, one id, two contexts, two pipelines, a video track |
| `launch` (MCThreadsLaunch) | a launch, a play request and the end of one stream, line by line: `SourcesTogether` | three threads, one id, one context, two pipelines, both tracks |
| `demux` (MCLibavDemux) | the demuxer in both modes: `OneWaiter` (one signal is enough), `NoStaleData`, `SegmentFirst`, `FlushIsNoEnd`; `ChainReturns`, `SeekReturns`, `StopReturns` under fairness; `TypeOK` | reads of up to two units, three calls of upstream, three packets, one known and one unknown stream, one seek (flushing with a stop, or a segment seek), two activations |
| `viddec` (MCLibavVidDec) | `AcceptedIsOpen`, `OutputMatches`, `RealFrames`, `DrainComplete`, `NullFrameAtDrain`, `SendReturns` | plain, NAL-aligned and bad caps, two formats and one unknown to GStreamer, three frames, two of them held back, two changes of caps |
| `encoders` (MCLibavEncoders) | `FrameForEveryPacket`, `OwnFrame`, `CodecFitsFormat`, `AcceptedIsOpen`, `DrainedStartsAnew`, `OwnLayout` | both media, both kinds of codec, three caps (one without a layout, one reordered), four frames, one held back, three changes of caps |
| `auddec` (MCLibavAudDec) | `LastCapsOpen`, `SubframesFinished`, `OutputMatches`, `OwnDate` | two caps, two formats and an unknown one, four packets, two changes of caps |
| `mux` (MCLibavMux) | `HeaderCovers`, `HeaderDescribes`, `InOrder` | two pads, two caps, four buffers, three times and none, two runs |

The bounds are enough for the cases that matter to happen.  In the plugin: two contexts give a
registration that replaces another or follows it; two pipelines give an output
that replaces another, and one of each kind; two ids or two applications give
the confusion of streams; one id is where every race is, as the calls of
different ids share only the table.  A thread makes one call, so `replace` and
`launch` have the threads whose calls can disturb each other, at any line.  In the elements: one frame more than the
codec holds back gives a codec that returns one frame while it keeps another;
one change of caps more than the first gives a codec that is open for the
caps before; two activations give what one session leaves to the next;
three packets give a seek that lands before, at and behind the position, and a
stop that is passed; reads of one and two units give a read that is satisfied
at once, after one call and after two.

Several properties name an exception.  Each is a case that TLC showed, with
the reason in the comment: `OneWaiter` has none, but
`StopReturns`, for example, excepts an upstream thread inside a serialized
event, because that thread waits in a loop that nothing ends.  So the
properties say exactly how far the code's promise goes.

The bounds end a behaviour, and so do the death of the process, a
fatal misuse of memory, or, in the line-by-line runs, the return of every call.
Therefore all runs allow deadlock.

Runs that show a disagreement between the code and what the repository says of
it (`findings` in `PROJECT.json` quotes the lines):

| Run | Property | What happens |
|---|---|---|
| `packet_race` | `PacketsChecked` | `unregister_stream` between `contains` and `lookup` in `onPacket` |
| `encflush` | `FlushedStartsAnew` | a flush of an encoder whose codec cannot be flushed leaves packets behind, which meet frames of after the flush; the comment in `handle_frame` promises a new codec |

**Seen while modelling**, and not runs of their own, either because the
repository promises nothing to the contrary or because one line shows it:

* `is_video` is always 0 (SamplePlugin.java:133), so video never reaches a
  pipeline.  With video announced as enabled, a REST request between the two
  `setStreamInfo` calls leaves a launch line without audio, and playing it after
  the second call fails `g_assert` in `set_appsrc` (`NoCrash` is therefore
  checked with `IsVideo = 0`, as shipped).
* An RTSP output requested while `init_plugin` runs is reported ready and does
  not exist; with both default protocols on, RTMP replaces RTSP (728); two
  applications that share an id share its outputs, and announce their tracks into
  one context, so that `OwnCaps` takes one application.
* `unregister_stream` between `add_gstreamer_pipeline`'s reading of `ctx->pipeline` and
  its start leaves a pipeline that plays with nobody to stop it.
* A launch and a play request that overlap in `set_appsrc` leave video in one pipeline and
  audio in another (`SourcesTogether` excepts just that race), and with video enabled
  a request between 674 and 676 reads a filter that is not there yet (217).
* `set_appsrc` checks `ctx->pipeline` (175) and reads it again for each kind (183, 190): an
  `unregister_stream` in between clears it, and the assertion on the source found fails.
  The model ends the process there.
* In the demuxer, the freed list of cached events (gstavdemux.c:1716), the seek
  in a stopped element (650), the serialized event that waits for ever (1753) and the
  task that FLUSH_STOP starts whatever the element's state (1724).
* In the video decoder, a pool of downstream that is adopted without its format
  (2252-2257), after which a copy may go to a buffer of another format; NAL-aligned
  caps accepted at the second attempt (588); the NULL frame of a drain (1882);
  a drain or a flush that keeps the STREAM_LOCK (1938, 1944, 2154) while a frame thread of the
  codec waits for it to get a buffer: the comment at 2034 gives the reason why
  `handle_frame` releases the lock, and `SendReturns` is therefore stated for packets only.
* In the audio decoder, a refused packet that is not finished when the codec refuses the
  null packet as well (628-630), against the comment at gstavauddec.c:768: the cause `unsent`
  in `OwnDate`.
* In the muxer, a header that is written after a restart with a pad that has had no caps,
  because `codec_id` is an earlier run's (gstavmux.c:562-570): `stale` in `HeaderDescribes`.
* In the encoders, samples that belong to the base class are unreferenced when
  there is no codec, and a frame that cannot be mapped twice (`double unref`).

**Fairness.**  `FusionThreads`: weak fairness of each thread's steps, since the
operating system runs every thread that can run.  It is enough for the
mutex because each thread makes one call, so others hold it finitely often.
A call for which the bounds have no context left is excepted
(`OutOfBounds`).  `LibavDemux`: weak fairness of the task (`LoopStep`), of a thread
that is inside the chain function, an event or a seek, and of a state change
that has begun.  The arrival of data, events, seeks and state changes is not fair: upstream
may fall silent.  No strong fairness is used; a seek gets the lock of the loop
because it has flushed the pads or paused the task before it waits.  `LibavVidDec`: weak
fairness of the streaming thread and of the codec's thread that asks
for a buffer.  The other modules state no liveness.

Every property of a passing run has a mutant: an operator marked "Not the
code" just before the definition it would replace, with which TLC finds the
property violated.

## 4. The proofs

Every invariant that a passing run checks is also a theorem, for every value of
the constants, and so is the refinement.  Each rests on an inductive invariant,
which TLC checked on the run's instance before it was proved.

### The plugin

`FusionPluginProofs` proves of `FusionPlugin`, for all sets of applications,
streams, contexts, pipelines, codecs and output types, from the assumptions
that `NULL` is none of the identities and that the
configurations and output types are of the right kind:

| Theorem | States | Inductive invariant |
|---|---|---|
| `TypeCorrect`, `StreamsIsolated` | `TypeOK`, `Isolation` | `NativeInv` |
| `PluginRefines` | `OutputRefinement` | `NativeInv` |
| `LeaksOnlyLost`, `MountsOutlive` | `LeakOnlyLost`, `MountOutlives` | `LeftBehindInv` |
| `CapsAreOwn` | `OneApp => OwnCaps` | `CapsInv` |
| `NothingCrashes` | `IsVideo = 0 => NoCrash` | `CrashInv` |

`Isolation` is not inductive: that a packet stays with its stream rests on the
source it is pushed to, which rests on who set that source, for which context,
found under which id.  `NativeInv` adds just that:

* `TableOwned`: the entry of an id is a context made for that id;
* `SourcesOwned`: a source belongs to a pipeline made for its context's stream,
  and exists only with caps (so that the next `set_appsrc` replaces both
  sources or none was there);
* `SourcesPaired`: between calls, a context's two sources are in one pipeline.  Inside
  them they need not be; what holds there is `SourcesTogether` of `FusionThreads`;
* `FedOwned`: `Isolation`, and every feeder has a stream;
* `PointersBuilt`, `FreeUnused`: a pipeline that was not built is pointed to by
  nobody and has been fed nothing, so that building it cannot change the owner
  of anything in use.

For the refinement, each native call is mapped under `NativeInv`: `RegisterStream` to
`Publish` (or to nothing while there is no table), `Unregister` to `Withdraw`,
`OnPacket` to `Deliver`, complete and partial launches and play requests to
`Build`, everything else to a stutter.  The sources of
a registered context are one pipeline or none (`SourcesPaired`), so
"the active output" is well defined; two ids never share a context
(`TableOwned`), so a step on one stream leaves the others' outputs alone; and
a free pipeline is nobody's (`FreeUnused`), so building it takes no output
away.

What is left behind (`LeftBehindInv`): a mount point was made for a context of
its own stream, which remembers it (`MountsOwned`), and a registered context that
once had an output has one or lost it (`OutputsHeld`); so the only ways
to leave a pipeline or a mount point are the overwritten pointers in `lost`.

`CapsInv`: all caps made from a context, its own, a factory's or a pipeline's,
still say what its tracks are (`CapsDeclared`), because each track is announced once
(`AnnouncedOnce`).  The proof needs `OneApp`: one application that publishes.  This
is no convenience: with two applications and one id TLC finds that
`OwnCaps` does not hold, since `setStreamInfo` (677) writes into whatever context
the table has for the id.  The run `streams` has one application, and the hazard
is listed.

`CrashInv`: while `IsVideo` is 0, as `SamplePlugin` passes it, no context has
video (`AudioOnly`), so none has a track that its launch line lacks.  With `IsVideo = 1`
the code does fail (see 3.).

`FusionThreadsProofs` proves of `FusionThreads`, for any number of threads, each
in any function at any line:

* `TypeCorrect` and `UnregisterIsSafe` (`TypeOK`, `UnregisterSafe`), by `ThreadsInv`: a thread
  at a locked line holds the mutex (`Holders`), the lines after a check have what
  was checked (`ContextsChecked`), and since only locked lines remove an entry, the
  entry found at 741 is there at 744 (`EntryStays`);
* `OutputsAreNotLater` (`NoLaterOutput`), by `OutputsInv`: no lock protects this.  An entry
  of the table knows all registrations of its id (`Registrations`), so a context that is looked up
  knows every line that was made before the lookup, the thread's own, a
  factory's and a pipeline's (`OwnLine`, `Outputs`); and contexts and pipelines are
  never given back, so what a thread has read stays what it was (`OwnPipeline`);
* `SourcesStayTogether` (`SourcesTogether`), by `SourcesInv`: a `set_appsrc` at work on an
  uncontended context holds `ctx->pipeline` and has put the video source there
  before it puts the audio source (`AtWork`); a source exists only for a kind with
  caps (`SourcesOfCaps`), so whoever comes next replaces both.

### The elements

`LibavDemuxProofs`, for every container, pipe and number of seeking threads:

* `NeverBothWait` (`OneWaiter`).  `WaitInv` says what a waiting task has left
  behind under `tlock`: it waits only inside a read, after it has said what it
  needs and woken upstream.  A serialized event then does not wait, as `needed`
  is not 0, and a chain call that does wait has signalled the task first: with
  one waiter the signal wakes exactly that one (`SignalsAll`).
* `PushesOwnEpoch` (`NoStaleData`).  The invariant has two parts.  `LockInv`: the loop
  holds the lock during an iteration, so no seek finishes while a packet is in
  hand.  `EpochInv`: the packet in hand is of libavformat's epoch, a pad that
  is not flushing has that epoch's segment, upstream's, or none, and a seek
  changes the epoch only with the lock.
* `SegmentGoesFirst` (`SegmentFirst`).  `PhaseInv` says where the task is in an element that
  is opened or not; `SegmentInv`, that in pull mode, while no seek has failed, every pad
  flushes, came late or has a segment: after a successful seek all pads get
  one, and opening gives one unless a cached seek is about to.
* `FlushedReadIsNoEnd` (`FlushIsNoEnd`).  `FlushInv`: with one seeking thread, upstream's
  flush and the element's `flushing` go together as long as the task can read, in
  the order the two are set and reset.  In push mode no read fails by a flush.
* `TypeCorrect` (`TypeOK`).  The types need two counts.  `PipeInv`: what the pipe holds
  was brought by as many calls.  `CountInv`: every epoch was begun by an activation
  or by a seek that is done, and a cached seek is done with its epoch still
  to come.  No pad has a segment of an epoch to come (`PadsTo`).

`LibavVidDecProofs`: `AcceptsOpen`, `DrainsAll` and `NullFrameOnlyThen` rest on `CapsInv`
(what `last_caps` implies about the codec), `PictureInv` (the remembered picture
is the output state's, if GStreamer has its format) and `TaskInv` (the codec
drains only while the task does).  `OutputIsNegotiated` and `FramesAreReal` rest on
`FlowInv`: the internal pool is of the format it was made for, unless
downstream's was adopted (`OutputInv`); each picture in the codec is of a frame
of its own, handed in and not lost, and the frame in hand has no picture
yet (`FrameInv`).

`LibavEncodersProofs` (`AcceptsWhenOpen`, `OpensOwnCaps`, `DrainsStartAnew`, `ReordersOwnCaps`) and
`LibavAudDecProofs` (`RemembersOpenCaps`, `FinishesSubframes`) rest on a description
of which states of element, codec and task go together (`CodecState`, `CodecReady`): above all, a
codec is draining only while its last packets are read, with a reopening due, or after a
NULL that was answered with an error.
On top of it they relate two queues, whatever their length:

* `FramesSuffice` and `PacketsFindFrames`: until something is recorded in `hist.skew`, the base class
  has the very frames the codec holds back, in the same order (`FrameInv`); and a codec that can
  be flushed never has more of them than the base class.
* `DatesAreOwn`: until then (a drain that could not start is one of the causes), the packets not finished are those the codec holds,
  after the one a frame was just read of and before the one about to be
  finished for a header or a refusal (`DateInv`).  `OutputIsAgreed`: `dec.info`
  is what was agreed last (`FormatInv`).

`LibavMuxProofs` (`WritesHeaderStreams`, `WritesHeaderCaps`, `WritesInOrder`) for any number of pads.
`PadsInv`: every pad has one stream.  `CollectInv` and `HeaderInv`: once the header is
out, unless a pad came late, every stream is in it and no pad is being made; and
the buffers of a stream, also of one whose pad has no caps, are those of its header
unless that stream is in `changed` or `stale`.
`OrderInv`: what an open muxer still has to write is not older than what it wrote,
because it writes only when every pad has a buffer and takes the oldest, and
no pad goes back.  That there is an oldest (`LeastNumber`) comes from the
library's well-founded induction.

### What the theorems do not say

The assumptions are the named `ASSUME`s on the constants: the bounds are natural
numbers, `None` is no caps and no format, the special caps are caps.  TLC
evaluates them in every run.  Two theorems have a hypothesis of their own, `OneApp` and
`IsVideo = 0`, and the properties fail without them.

Only model-checked are the liveness properties, which are out of the prover's reach:
`EveryCallReturns`, `ChainReturns`, `SeekReturns`, `StopReturns`, and `SendReturns`,
which says nothing of a drain or a flush (see 3.).

## 5. Not modelled

* Build and installation scripts, the web page, the load tests: no state.
* `media_constructed` and the session cleanup timer of `rtsp.c`, the room calls:
  no state that anything else reads.
* `transcriber.c`: one callback that forwards strings; what could fail is the
  lifetime of objects of the Java side.
* The text of launch lines, the fixed buffers they are formatted into, the
  parsing of `gst_plugin.cfg` and the validation of REST fields: functions of one input.
* The bitstream filter's buffering in `onPacket`.
* `gstavcodecmap.c`, `gstavcfg.c`, `gstavutils.c`, `gstav.c`: tables, options and
  registration.  `gstavdeinterlace.c`: a filter of one picture.
* In the modelled elements: tags, metadata, queries, the copying of samples and
  planes, the accessors of properties, two-pass statistics, the seekable and
  streaming variants of `gstavprotocol.c`'s writing side, leaks as such.
* The elements are modelled one by one.  A composition of demuxer, decoder,
  encoder and muxer would add nothing the properties could see: they meet only
  in caps, buffers and flow results, which each module takes from its
  environment in every order.

What remains worth doing: theorems of the safety half of the liveness properties (that
the mutex of `FusionThreads` and the lock of the demuxer's task are always held by
someone who can run), and an abstract specification of the data pipe.
