--------------------------- MODULE LibavEncoders ---------------------------
(***************************************************************************)
(* The encoder elements of gst-libav, for video (gstavvidenc.c) and for    *)
(* audio (gstavaudenc.c), on top of the encoder base classes of GStreamer  *)
(* and of libavcodec.  They tell packets from frames by their order alone: *)
(* a packet that comes out goes to the oldest frame the base class holds,  *)
(* or to the oldest samples.                                               *)
(*                                                                         *)
(* Frames are numbered and packets carry the number of theirs.  The base   *)
(* classes and libavcodec are modelled from how this code uses them: the   *)
(* codec gives packets in the order of the frames, and one that cannot be  *)
(* flushed ignores it.                                                     *)
(***************************************************************************)
EXTENDS Naturals, Sequences, FiniteSets

CONSTANTS
  InCaps,     \* input caps
  Unpositioned, \* audio caps with channels libav has no layout for
  Reordered,  \* audio caps with channels libav has in another order
  None,
  Delay,      \* packets the codec may hold back
  MaxFrames,  \* bound: frames handed to the element
  MaxFormats  \* bound: calls of set_format by caps

ASSUME VidEncAssumption ==
  None \notin InCaps /\ Unpositioned \subseteq InCaps /\ Reordered \subseteq InCaps
  /\ Delay \in Nat /\ MaxFrames \in Nat /\ MaxFormats \in Nat

VARIABLES
  media,    \* "video" or "audio"
  canFlush, \* the codec has AV_CODEC_CAP_ENCODER_FLUSH
  enc,      \* the element's fields, and if the caps were accepted
  codec,    \* libavcodec: its state, the caps it has, packets to come, and if
            \* the NULL that made it drain was answered with an error (history)
  frames,   \* the base class's frames, oldest first
  task,     \* idle, or taking packets, or to flush the codec, or done; and why
  srcpad,   \* what downstream makes of buffers
  hist,     \* history, see Init
  status,   \* "ok", or what went wrong
  count     \* bounds: frames and formats so far

vars == <<media, canFlush, enc, codec, frames, task, srcpad, hist, status, count>>

Stopped == [started |-> FALSE, accepted |-> FALSE, opened |-> FALSE,
            need_reopen |-> FALSE, input_state |-> None, reorder |-> None]
NoCodec == [state |-> "closed", caps |-> None, delayed |-> <<>>, unsent |-> FALSE]
NoHistory == [skew |-> {},        \* why frames and packets no longer match
              out |-> "none",     \* if the last packet was of its frame
              peer |-> FALSE,     \* downstream has refused caps
              reopen |-> "ok"]    \* the last attempt to open the codec again

Init ==
  /\ media \in {"video", "audio"} /\ canFlush \in BOOLEAN
  /\ enc = Stopped /\ codec = NoCodec /\ frames = <<>>
  /\ task = [at |-> "idle", why |-> "none"]
  /\ srcpad = "ok" /\ hist = NoHistory /\ status = "ok"
  /\ count = [frames |-> 0, formats |-> 0]

Idle == status = "ok" /\ task.at = "idle"
Receiving == status = "ok" /\ task.at = "receive"
Skewed(h, cause, really) == IF really THEN [h EXCEPT !.skew = @ \cup {cause}] ELSE h

-----------------------------------------------------------------------------
(* Opening *)

(* Not the code: the context is kept for the new format. *)
KeptContext(e, cd) == cd

(* A codec that was opened is freed with all it holds, and made again.     *)
FreshContext(e, cd) == IF e.opened THEN NoCodec ELSE cd

(* avcodec_open2 on a codec that is open leaves it as it is.               *)
OpenCodec(cd, c) ==
  IF cd.state = "closed" THEN [NoCodec EXCEPT !.state = "open", !.caps = c] ELSE cd

Opened(e, c) == [e EXCEPT !.opened = TRUE, !.input_state = c]
Closed(e) == [e EXCEPT !.opened = FALSE, !.need_reopen = FALSE]

(* gst_ffmpegvidenc_set_format: the stats file or the time base may be     *)
(* bad, the codec may not open, or downstream not take what it makes; then *)
(* the codec stays open and the element does not know.                     *)
VideoFormat(e, cd, c) ==
  {[result |-> "settings", enc |-> Closed(e), codec |-> FreshContext(e, cd)],
   [result |-> "codec",    enc |-> Closed(e), codec |-> NoCodec]}
  \cup {[result |-> r, enc |-> IF r = "ok" THEN Opened(Closed(e), c) ELSE Closed(e),
         codec |-> OpenCodec(FreshContext(e, cd), c)] : r \in {"peer", "ok"}}

(* Not the code: the order is set when it differs and never reset. *)
StickyLayout(e, c) == IF c \in Reordered THEN [e EXCEPT !.reorder = c] ELSE e

(* needs_reorder and ffmpeg_layout are set for channels with a layout, and *)
(* else left as they were.                                                 *)
Layout(e, c) ==
  IF c \in Unpositioned THEN e
  ELSE [e EXCEPT !.reorder = IF c \in Reordered THEN c ELSE None]

(* gst_ffmpegaudenc_set_format: the codec is freed again when it does not  *)
(* open, has no caps or they are refused, but not when downstream has none *)
(* in common with it.                                                      *)
AudioFormat(e, cd, c) ==
  LET shut == Layout(Closed(e), c)
  IN  {[result |-> "codec", enc |-> shut, codec |-> NoCodec]}
      \cup {[result |-> r, enc |-> IF r = "ok" THEN Opened(shut, c) ELSE shut,
             codec |-> OpenCodec(FreshContext(e, cd), c)] : r \in {"peer", "ok"}}

Format(e, cd, c) ==
  IF media = "video" THEN VideoFormat(e, cd, c) ELSE AudioFormat(e, cd, c)

Formatted(r) == Skewed([hist EXCEPT !.peer = @ \/ r.result = "peer"], "format",
                       codec.delayed # <<>> /\ r.codec.delayed = <<>>)

(* Not the code: TRUE is returned on every path. *)
AlwaysAccepts(result) == result # "none"

(* What set_format returns *)
Accepts(result) == result = "ok"

SetFormat ==
  /\ Idle /\ enc.started /\ count.formats < MaxFormats
  /\ count' = [count EXCEPT !.formats = @ + 1]
  /\ \E c \in InCaps : \E r \in Format(enc, codec, c) :
       /\ enc' = [r.enc EXCEPT !.accepted = Accepts(r.result)]
       /\ codec' = r.codec
       /\ hist' = [Formatted(r) EXCEPT !.reopen = "ok"]
  /\ UNCHANGED <<media, canFlush, frames, task, srcpad, status>>

(* gst_ffmpegvidenc_start and gst_ffmpegaudenc_start *)
Start ==
  /\ Idle /\ ~enc.started
  /\ enc' = [Stopped EXCEPT !.started = TRUE, !.reorder = enc.reorder]
  /\ codec' = NoCodec /\ srcpad' = "ok" /\ hist' = NoHistory
  /\ UNCHANGED <<media, canFlush, frames, task, status, count>>

-----------------------------------------------------------------------------
(* A frame in *)

(* Not the code: a frame the codec refuses is left with the base class. *)
LeaveFailed(fs) == fs

(* encode_fail: the frame that was handed in, the newest one, is finished, *)
(* to "avoid frame (and ts etc) piling up".                                *)
FinishFailed(fs) == SubSeq(fs, 1, Len(fs) - 1)

Numbered == Append(frames, count.frames + 1)
Sent(cd) == [cd EXCEPT !.delayed = Append(@, count.frames + 1)]

(* The start of handle_frame, where a codec that was drained is opened     *)
(* again, if it can be.                                                    *)
Reopened ==
  IF enc.need_reopen THEN Format(enc, codec, enc.input_state)
  ELSE {[result |-> "ok", enc |-> enc, codec |-> codec]}
ReopenHist(r) == [Formatted(r) EXCEPT !.reopen = IF enc.need_reopen THEN r.result ELSE @]

ReopenFails ==
  \E r \in Reopened :
    /\ r.result # "ok"
    /\ enc' = r.enc /\ codec' = r.codec /\ frames' = Numbered
    /\ hist' = Skewed(ReopenHist(r), "reopen", TRUE)
    /\ UNCHANGED <<task, status>>

SendFrame ==
  \E r \in Reopened :
    /\ r.result = "ok" /\ r.codec.state = "open"
    /\ enc' = r.enc /\ codec' = Sent(r.codec) /\ frames' = Numbered
    /\ hist' = ReopenHist(r)
    /\ task' = [at |-> "receive", why |-> "frame"]
    /\ UNCHANGED status

(* gst_ffmpegvidenc_handle_frame: a frame is sent, and packets are taken   *)
(* as long as there are some.  A frame that cannot be mapped is            *)
(* unreferenced in send_frame and in encode_fail.                          *)
VideoFrame ==
  /\ media = "video"
  /\ \/ ReopenFails
     \/ SendFrame
     \/ \E r \in Reopened :
          /\ r.result = "ok"
          /\ enc' = r.enc /\ codec' = r.codec
          /\ frames' = FinishFailed(Numbered)
          /\ hist' = ReopenHist(r)
          /\ status' \in {"ok", "double unref"}
          /\ UNCHANGED task

(* gst_ffmpegaudenc_handle_frame: without a codec the samples are          *)
(* unreferenced, which belong to the base class.  Samples that the codec   *)
(* refuses are given up, with a warning only unless it is draining.        *)
AudioFrame ==
  /\ media = "audio"
  /\ \/ ~enc.opened /\ status' = "double unref" /\ UNCHANGED <<enc, codec, frames, hist, task>>
     \/ enc.opened /\ ReopenFails
     \/ enc.opened /\ SendFrame
     \/ \E r \in Reopened :
          /\ enc.opened /\ r.result = "ok"
          /\ enc' = r.enc /\ codec' = r.codec /\ frames' = Numbered
          /\ hist' = Skewed(ReopenHist(r), "refused", TRUE)
          /\ IF r.codec.state = "draining" THEN UNCHANGED task
             ELSE task' = [at |-> "receive", why |-> "frame"]
          /\ UNCHANGED status

HandleFrame ==
  /\ Idle /\ enc.accepted /\ count.frames < MaxFrames
  /\ count' = [count EXCEPT !.frames = @ + 1]
  /\ VideoFrame \/ AudioFrame
  /\ UNCHANGED <<media, canFlush, srcpad>>

-----------------------------------------------------------------------------
(* Packets out *)

Ends == task' = IF task.why = "frame" THEN [at |-> "idle", why |-> "none"]
                ELSE [task EXCEPT !.at = "drained"]

(* What downstream makes of a packet is ignored when a video encoder stops *)
(* and when an audio encoder handles a frame.                              *)
GoesOn == srcpad = "ok" \/ task.why = (IF media = "video" THEN "stop" ELSE "frame")

(* gst_ffmpegvidenc_receive_packet: the packet goes to the oldest frame,   *)
(* which has to be there; when stopping it goes nowhere.  In               *)
(* gst_ffmpegaudenc_receive_packet it goes to the base class, which looks  *)
(* for the samples.                                                        *)
ReceivePacket ==
  /\ Receiving /\ codec.delayed # <<>>
  /\ codec' = [codec EXCEPT !.delayed = Tail(@)]
  /\ IF frames = <<>>
     THEN status' = "no frame" /\ UNCHANGED <<frames, hist, task>>
     ELSE /\ frames' = Tail(frames)
          /\ hist' = [hist EXCEPT !.out = IF Head(frames) = Head(codec.delayed)
                                          THEN "own" ELSE "other"]
          /\ IF GoesOn THEN UNCHANGED task ELSE Ends
          /\ UNCHANGED status
  /\ UNCHANGED <<media, canFlush, enc, srcpad, count>>

(* No packet yet, no packet any more, or an error in place of one.         *)
ReceiveNothing ==
  /\ Receiving
  /\ \/ /\ IF codec.state = "draining" THEN codec.delayed = <<>>
                                       ELSE Len(codec.delayed) <= Delay
        /\ UNCHANGED <<codec, hist>>
     \/ /\ codec.delayed # <<>>
        /\ codec' = [codec EXCEPT !.delayed = Tail(@)]
        /\ hist' = Skewed(hist, "error", TRUE)
  /\ Ends
  /\ UNCHANGED <<media, canFlush, enc, frames, srcpad, status, count>>

-----------------------------------------------------------------------------
(* Draining and flushing *)

(* Not the code: the codec is not opened again. *)
NoReopen == enc.need_reopen

(* gst_ffmpegvidenc_send_frame without a frame: a codec that cannot be     *)
(* flushed is opened again before the next frame.                          *)
Reopen == enc.need_reopen \/ ~canFlush

(* avcodec_send_frame without a frame.  A codec that is draining says so;  *)
(* an error may come before it starts to drain or from its first packet.   *)
SentNull ==
  LET draining == [codec EXCEPT !.state = "draining"]
  IN  IF codec.state = "draining" THEN {[result |-> "eof", codec |-> codec]}
      ELSE {[result |-> "ok", codec |-> draining], [result |-> "error", codec |-> codec],
            [result |-> "error", codec |-> [draining EXCEPT !.unsent = TRUE]]}

(* gst_ffmpegvidenc_flush_buffers neither takes packets nor flushes the    *)
(* codec unless NULL was sent.  gst_ffmpegaudenc_drain takes none from a   *)
(* codec that was draining, and flushes it always.                         *)
AfterNull(result) ==
  IF result = "ok" THEN "receive"
  ELSE IF media = "video" THEN "done"
  ELSE IF result = "error" THEN "receive" ELSE "drained"

(* gst_ffmpegvidenc_flush_buffers, for finish and for stop, and            *)
(* gst_ffmpegaudenc_drain.  Nothing is drained that is not opened: the     *)
(* audio element then posts an error and lets GLib refuse the unreference  *)
(* of no buffer, which changes nothing.                                    *)
DrainFor(why) ==
  /\ Idle /\ enc.started
  /\ \/ ~enc.opened /\ task' = [at |-> "done", why |-> why] /\ UNCHANGED <<enc, codec>>
     \/ /\ enc.opened
        /\ enc' = [enc EXCEPT !.need_reopen = Reopen]
        /\ \E sent \in SentNull : /\ codec' = sent.codec
                                  /\ task' = [at |-> AfterNull(sent.result), why |-> why]
  /\ UNCHANGED <<media, canFlush, frames, srcpad, hist, status, count>>

Finish == DrainFor("finish")
VideoStop == media = "video" /\ DrainFor("stop")

(* gst_ffmpegaudenc_stop *)
AudioStop ==
  /\ Idle /\ enc.started /\ media = "audio"
  /\ enc' = [Stopped EXCEPT !.reorder = enc.reorder]
  /\ codec' = NoCodec /\ frames' = <<>> /\ hist' = NoHistory
  /\ UNCHANGED <<media, canFlush, task, srcpad, status, count>>

(* Not the code: nothing is flushed. *)
NotFlushed(cd) == cd

(* avcodec_flush_buffers *)
Flushed(cd) == IF canFlush /\ cd.state # "closed"
               THEN [cd EXCEPT !.state = "open", !.delayed = <<>>, !.unsent = FALSE]
               ELSE cd

(* The end of flush_buffers, and of gst_ffmpegvidenc_stop, after which the *)
(* base class forgets its frames.                                          *)
DrainEnd ==
  /\ status = "ok" /\ task.at \in {"drained", "done"}
  /\ task' = [at |-> "idle", why |-> "none"]
  /\ IF task.why = "stop"
     THEN /\ enc' = Stopped /\ codec' = NoCodec /\ frames' = <<>>
          /\ hist' = NoHistory
     ELSE /\ IF task.at = "done" THEN UNCHANGED <<codec, hist>>
             ELSE /\ codec' = Flushed(codec)
                  /\ hist' = Skewed(hist, "drain", codec.delayed # <<>>)
          /\ UNCHANGED <<enc, frames>>
  /\ UNCHANGED <<media, canFlush, srcpad, status, count>>

(* gst_ffmpegvidenc_flush and gst_ffmpegaudenc_flush; the base class forgets its frames. *)
Flush ==
  /\ Idle /\ enc.started
  /\ codec' = IF enc.opened THEN Flushed(codec) ELSE codec
  /\ frames' = <<>>
  /\ hist' = Skewed([hist EXCEPT !.skew = {}, !.out = "none"], "flush", codec'.delayed # <<>>)
  /\ srcpad' = "ok"
  /\ UNCHANGED <<media, canFlush, enc, task, status, count>>

DownstreamFails ==
  /\ status = "ok" /\ srcpad = "ok" /\ srcpad' = "error"
  /\ UNCHANGED <<media, canFlush, enc, codec, frames, task, hist, status, count>>

-----------------------------------------------------------------------------
Next ==
  \/ Start \/ SetFormat \/ HandleFrame \/ ReceivePacket \/ ReceiveNothing
  \/ Finish \/ VideoStop \/ AudioStop \/ DrainEnd \/ Flush \/ DownstreamFails

Spec == Init /\ [][Next]_vars

-----------------------------------------------------------------------------
(* Properties *)

(* There is a frame for every packet to come, whatever was drained,        *)
(* reconfigured or failed, as long as the codec can be flushed.            *)
FrameForEveryPacket ==
  canFlush => Len(codec.delayed) <= Len(frames) /\ status # "no frame"

(* A packet goes out with the frame it was made from, until frames stay    *)
(* behind whose packets are lost: with a codec that was freed for new caps *)
(* or could not be opened again, or with a drain or a packet that failed;  *)
(* or until a flush leaves packets behind.                                 *)
OwnFrame == hist.out = "other" => hist.skew # {}

(* An opened element has its codec opened for its caps, unless downstream  *)
(* once refused what the codec makes: set_format then leaves it open, and  *)
(* the next call opens it in vain.                                         *)
CodecFitsFormat == enc.opened => codec.caps = enc.input_state \/ hist.peer

(* The base class hands frames to an element whose codec is open, or that  *)
(* is to open it, but for one that has failed to once: need_reopen is      *)
(* reset before the attempt, and every later frame is dropped silently.    *)
AcceptedIsOpen == enc.accepted => enc.opened \/ hist.reopen # "ok"

(* A codec that was drained or flushed and cannot be flushed is opened     *)
(* again, as the comment in handle_frame says: after a flush alone packets *)
(* still come with frames of their own.                                    *)
FlushedStartsAnew ==
  hist.out = "other" \/ status = "no frame" => hist.skew \ {"flush"} # {}

(* No frame meets a codec that was drained before: between calls a codec   *)
(* that is draining is about to be opened again.  Only a video encoder     *)
(* whose codec can be flushed may forget to, and only if its last NULL was *)
(* answered with an error, for flush_buffers then skips the flush.         *)
DrainedStartsAnew ==
  Idle /\ enc.opened /\ codec.state = "draining" =>
    enc.need_reopen \/ (media = "video" /\ canFlush /\ codec.unsent)

(* The channels of an opened audio encoder are put in another order only   *)
(* if its own caps ask for it, or if they have no layout: then as the caps *)
(* before them asked for, for needs_reorder is left as it was.             *)
OwnLayout ==
  enc.opened /\ enc.reorder # None =>
    enc.reorder = enc.input_state \/ enc.input_state \in Unpositioned
=============================================================================
