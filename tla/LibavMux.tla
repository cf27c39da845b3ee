------------------------------ MODULE LibavMux ------------------------------
(***************************************************************************)
(* The muxer elements of gst-libav (gstavmux.c).  Every sink pad has a     *)
(* thread that delivers caps, buffers and end of stream; collectpads calls *)
(* gst_ffmpegmux_collected when every pad has a buffer or has ended, which *)
(* writes the header once and then one buffer per call.  The application   *)
(* requests pads and changes the state from a thread of its own, without   *)
(* a lock in common with them.                                             *)
(*                                                                         *)
(* Time stamps are small numbers that do not decrease on one pad; NoTime   *)
(* is GST_CLOCK_TIME_NONE, the largest.  collectpads, the state change of  *)
(* GstElement and libavformat are modelled from how this code uses them.   *)
(***************************************************************************)
EXTENDS Naturals, Sequences

CONSTANTS
  Pads,       \* request pads
  InCaps,     \* caps the muxer accepts
  None,
  MaxTime,    \* bound: time stamps
  NoTime,
  MaxBuffers, \* bound: buffers that reach the pads
  MaxRuns     \* bound: times the element goes to PAUSED

ASSUME MuxAssumption ==
  /\ None \notin Pads \cup InCaps \cup Nat
  /\ MaxTime \in Nat /\ NoTime \in Nat /\ NoTime > MaxTime
  /\ MaxBuffers \in Nat /\ MaxRuns \in Nat

VARIABLES
  mux,      \* the fields of GstFFMpegMux: opened, and the state of pb
  streams,  \* context->streams, in the order of the pads: pad and caps
  pad,      \* per pad: what is queued, its end, the caps and time it is at
  request,  \* the pad request_new_pad is making, or None
  collect,  \* where collected is: idle, opening or writing
  flow,     \* stopped, or what collected returned last: ok, error or eos
  header,   \* the caps of each stream in the header
  hist,     \* history, see NoHistory
  count     \* bounds: buffers and runs so far

vars == <<mux, streams, pad, request, collect, flow, header, hist, count>>

NewPad == [buffer |-> None, eos |-> FALSE, caps |-> None, time |-> 0]
NoHistory == [last |-> 0,          \* the last time written
              back |-> FALSE,      \* a time before it was written
              untimed |-> FALSE,   \* a buffer without a time was written
              odd |-> {},          \* streams with a buffer the header does not describe
              stray |-> FALSE,     \* a buffer of no stream the header describes
              changed |-> {},      \* streams whose caps came after the header
              stale |-> {},        \* streams the header describes by an earlier run's caps
              late |-> FALSE]      \* a pad was being added during the opening

Init ==
  /\ mux = [opened |-> FALSE, pb |-> "closed"]
  /\ streams = <<>> /\ pad = [p \in Pads |-> NewPad]
  /\ request = None /\ collect = "idle" /\ flow = "stopped"
  /\ header = <<>> /\ hist = NoHistory
  /\ count = [buffers |-> 0, runs |-> 0]

Streams == DOMAIN streams
Requested == {streams[i].pad : i \in Streams}
StreamOf(p) == CHOOSE i \in Streams : streams[i].pad = p

-----------------------------------------------------------------------------
(* Pads *)

(* Not the code: a pad may be requested at any time. *)
AlwaysMayRequest == TRUE

(* gst_ffmpegmux_request_new_pad, the check of opened *)
MayRequest == ~mux.opened

RequestPad ==
  /\ request = None /\ MayRequest
  /\ \E p \in Pads \ Requested : request' = p
  /\ UNCHANGED <<mux, streams, pad, collect, flow, header, hist, count>>

(* ... and the stream, to which there are no caps yet *)
NewStream ==
  /\ request # None
  /\ streams' = Append(streams, [pad |-> request, caps |-> None])
  /\ request' = None
  /\ hist' = [hist EXCEPT !.late = @ \/ collect = "opening"]
  /\ UNCHANGED <<mux, pad, collect, flow, header, count>>

(* collectpads is started. An error of collected stops the thread that     *)
(* called it; the buffers stay, and the other pads go on.                  *)
Running == flow \in {"ok", "error"}

Delivers(p) == Running /\ p \in Requested /\ pad[p].buffer = None /\ ~pad[p].eos

(* Not the code: caps go to the stream that was made last. *)
LastStream(p) == Len(streams)

(* gst_ffmpegmux_setcaps: collect_pad->padnum *)
StreamFor(p) == StreamOf(p)

(* gst_ffmpegmux_sink_event with caps, and gst_ffmpegmux_setcaps: whether  *)
(* the muxer is open makes no difference.                                  *)
SetCaps ==
  \E p \in Pads : \E c \in InCaps :
    /\ Delivers(p) /\ pad[p].caps # c
    /\ streams' = [streams EXCEPT ![StreamFor(p)].caps = c]
    /\ pad' = [pad EXCEPT ![p].caps = c]
    /\ hist' = [hist EXCEPT !.changed = IF mux.opened THEN @ \cup {StreamOf(p)} ELSE @]
    /\ UNCHANGED <<mux, request, collect, flow, header, count>>

(* A buffer or the end of the stream reaches a pad of collectpads. *)
PadDelivers ==
  \E p \in Pads :
    /\ Delivers(p)
    /\ \/ \E t \in pad[p].time..MaxTime \cup {NoTime} :
            /\ count.buffers < MaxBuffers
            /\ count' = [count EXCEPT !.buffers = @ + 1]
            /\ pad' = [pad EXCEPT ![p].buffer = t, ![p].time = IF t = NoTime THEN @ ELSE t]
       \/ pad' = [pad EXCEPT ![p].eos = TRUE] /\ UNCHANGED count
    /\ UNCHANGED <<mux, streams, request, collect, flow, header, hist>>

-----------------------------------------------------------------------------
(* gst_ffmpegmux_collected *)

AllCollected ==
  /\ Running /\ collect = "idle" /\ Streams # {}
  /\ \A p \in Requested : pad[p].buffer # None \/ pad[p].eos

(* "we do need all streams to have started capsnego": codec_id is set once *)
(* and for all, also by the caps of a run before this one.                 *)
Negotiated == \A i \in Streams : streams[i].caps # None

(* The check of the caps, stream-start and segment, and                    *)
(* gst_ffmpegdata_open, which can fail.                                    *)
CollectOpen ==
  /\ AllCollected /\ ~mux.opened
  /\ \/ /\ Negotiated
        /\ mux' = [mux EXCEPT !.pb = "open"]
        /\ collect' = "opening" /\ flow' = "ok"
     \/ flow' = "error" /\ UNCHANGED <<mux, collect>>
  /\ UNCHANGED <<streams, pad, request, header, hist, count>>

(* avformat_write_header can fail: pb stays open then.  A stream of a pad  *)
(* without caps is described by those codecpar kept from an earlier run.   *)
WriteHeader ==
  /\ collect = "opening"
  /\ \/ /\ mux' = [mux EXCEPT !.opened = TRUE]
        /\ header' = [i \in Streams |-> streams[i].caps]
        /\ hist' = [hist EXCEPT !.late = @ \/ request # None,
                                 !.stale = {i \in Streams : pad[streams[i].pad].caps = None}]
        /\ collect' = "writing" /\ UNCHANGED flow
     \/ /\ flow' = "error" /\ collect' = "idle"
        /\ UNCHANGED <<mux, header, hist>>
  /\ UNCHANGED <<streams, pad, request, count>>

CollectMore ==
  /\ AllCollected /\ mux.opened /\ collect' = "writing"
  /\ UNCHANGED <<mux, streams, pad, request, flow, header, hist, count>>

Queued == {i \in Streams : pad[streams[i].pad].buffer # None}
Time(i) == pad[streams[i].pad].buffer

(* Not the code: the first pad with a buffer is served. *)
FirstQueued == CHOOSE i \in Queued : \A j \in Queued : i <= j

(* The first of the streams with the oldest buffer; but when the first     *)
(* that has a buffer has one without a time, it comes before the others.   *)
BestPad ==
  LET first == CHOOSE i \in Queued : \A j \in Queued : i <= j
  IN  IF Time(first) = NoTime THEN first
      ELSE CHOOSE i \in Queued :
             \A j \in Queued : Time(i) < Time(j) \/ (Time(i) = Time(j) /\ i <= j)

(* av_write_frame, whose result is ignored *)
WriteFrame ==
  /\ collect = "writing" /\ Queued # {}
  /\ LET i == BestPad
         p == streams[i].pad
     IN  /\ pad' = [pad EXCEPT ![p].buffer = None]
         /\ hist' = [hist EXCEPT
              !.last = IF Time(i) = NoTime THEN @ ELSE Time(i),
              !.untimed = @ \/ Time(i) = NoTime,
              !.back = @ \/ Time(i) < hist.last,
              !.stray = @ \/ i \notin DOMAIN header \/ header[i] = None,
              !.odd = IF i \in DOMAIN header /\ pad[p].caps # header[i]
                        THEN @ \cup {i} ELSE @]
  /\ collect' = "idle"
  /\ UNCHANGED <<mux, streams, request, flow, header, count>>

(* av_write_trailer, gst_ffmpegdata_close and the end of the stream *)
WriteTrailer ==
  /\ collect = "writing" /\ Queued = {}
  /\ mux' = [opened |-> FALSE, pb |-> "closed"]
  /\ flow' = "eos" /\ collect' = "idle"
  /\ UNCHANGED <<streams, pad, request, header, hist, count>>

-----------------------------------------------------------------------------
(* gst_ffmpegmux_change_state *)

ReadyToPaused ==
  /\ flow = "stopped" /\ count.runs < MaxRuns
  /\ flow' = "ok" /\ count' = [count EXCEPT !.runs = @ + 1]
  /\ UNCHANGED <<mux, streams, pad, request, collect, header, hist>>

(* What PAUSED_TO_READY leaves of an open muxer *)
Shut(m) == IF m.opened THEN [opened |-> FALSE, pb |-> "closed"] ELSE m

(* The threads of the pads have ended by then; the streams keep their caps. *)
PausedToReady ==
  /\ flow # "stopped" /\ collect = "idle"
  /\ flow' = "stopped" /\ mux' = Shut(mux)
  /\ pad' = [p \in Pads |-> NewPad]
  /\ header' = <<>> /\ hist' = NoHistory
  /\ UNCHANGED <<streams, request, collect, count>>

-----------------------------------------------------------------------------
Next ==
  \/ RequestPad \/ NewStream \/ SetCaps \/ PadDelivers
  \/ CollectOpen \/ WriteHeader \/ CollectMore \/ WriteFrame \/ WriteTrailer
  \/ ReadyToPaused \/ PausedToReady

Spec == Init /\ [][Next]_vars

-----------------------------------------------------------------------------
(* Properties *)

(* Every buffer written is of a stream the header describes, unless        *)
(* the application was adding a pad while the header was on its way:       *)
(* opened is checked before the stream exists, and set after the header.   *)
HeaderCovers == hist.stray => hist.late

(* The buffers of a stream have the caps the header gives for it, unless   *)
(* caps have come for that very stream since, which setcaps lets them; the *)
(* pad of that stream has had no caps in this run, so that the header took *)
(* the codec_id left over from an earlier one (the check of                *)
(* AV_CODEC_ID_NONE cannot tell); or a pad was added during the opening.   *)
HeaderDescribes == hist.odd \subseteq hist.changed \cup hist.stale \/ hist.late

(* Buffers are written in the order of their times, whichever pad they     *)
(* come from, unless some have no time or a pad was added late.            *)
InOrder == hist.back => hist.untimed \/ hist.late
=============================================================================
