---------------------------- MODULE LibavVidDec ----------------------------
(***************************************************************************)
(* The video decoder elements of gst-libav (gstavviddec.c), on top of the  *)
(* decoder base class of GStreamer and of libavcodec.  One streaming       *)
(* thread configures the element, hands it frames and drains it; the codec *)
(* may ask for picture buffers from a thread of its own, one at a time,    *)
(* and with frame threads after the call that gave it the packet.          *)
(*                                                                         *)
(* A picture is known by the frame it comes from and by its format, which  *)
(* stands for all that gst_ffmpegviddec_negotiate looks at.  The base      *)
(* class and libavcodec are modelled from how this code uses them.         *)
(***************************************************************************)
EXTENDS Naturals, Sequences, FiniteSets

CONSTANTS
  InCaps,     \* input caps
  NalCaps,    \* those of NAL-aligned H.264
  BadCaps,    \* those the codec does not open with
  Formats,    \* formats of pictures
  Supported,  \* those GStreamer has a format for
  None,
  Delay,      \* pictures the codec may hold back
  MaxFrames,  \* bound: frames handed to the element
  MaxFormats  \* bound: calls of set_format

ASSUME VidDecAssumption ==
  /\ NalCaps \subseteq InCaps /\ BadCaps \subseteq InCaps
  /\ Supported \subseteq Formats
  /\ None \notin InCaps \cup Formats
  /\ Delay \in Nat /\ MaxFrames \in Nat /\ MaxFormats \in Nat

VARIABLES
  settings, \* thread_type is FRAME; direct_rendering: set before the start
  dec,      \* the fields of GstFFMpegVidDec, and if the caps were accepted
  pool,     \* internal_pool, the pool the base class uses, and pool_format
  codec,    \* libavcodec: its state, and pictures that wait to be received
  frames,   \* the base class's frames: DECODE_ONLY or not
  task,     \* the streaming thread: where, with which frame (0 when it
            \* drains), for which caps
  lock,     \* if the STREAM_LOCK is held by that thread
  asking,   \* a frame the codec wants a buffer for, from its own thread
  srcpad,   \* what downstream makes of buffers
  hist,     \* history, see Init
  status,   \* "ok", or what went wrong
  count     \* bounds: frames and formats so far

vars == <<settings, dec, pool, codec, frames, task, lock, asking, srcpad,
          hist, status, count>>

Closed == [started |-> FALSE, accepted |-> FALSE, opened |-> FALSE,
           last_caps |-> None, input_state |-> None, output_state |-> None,
           pic |-> None]
NoFrames == [n \in {} |-> TRUE]
NoPools == [internal |-> None, used |-> None, format |-> None]
Pool(f, peer) == [format |-> f, peer |-> peer]   \* downstream's, or its own

Init ==
  /\ settings \in [frame_threads : BOOLEAN, direct : BOOLEAN]
  /\ dec = Closed
  /\ pool = NoPools
  /\ codec = [state |-> "closed", ready |-> <<>>]
  /\ frames = NoFrames
  /\ task = [at |-> "idle", frame |-> 0, caps |-> None]
  /\ lock = FALSE /\ asking = 0 /\ srcpad = "ok"
  /\ hist = [leaked |-> {},       \* frames that are no one's
             out |-> "none",      \* the last picture, if pushed, and the output state
             adopted |-> FALSE,   \* a pool was adopted of another format than the codec's
             why |-> "end"]       \* why a drain takes no more pictures
  /\ status = "ok"
  /\ count = [frames |-> 0, formats |-> 0]

Go(to) == task' = [task EXCEPT !.at = to]
At(pc) == status = "ok" /\ task.at = pc
Idle == At("idle") /\ ~lock
Without(fs, gone) == [n \in DOMAIN fs \ gone |-> fs[n]]
PictureFrames == {codec.ready[i].frame : i \in DOMAIN codec.ready}

-----------------------------------------------------------------------------
(* Configuration *)

(* gst_ffmpegviddec_start *)
Start ==
  /\ Idle /\ ~dec.started
  /\ dec' = [dec EXCEPT !.started = TRUE]
  /\ srcpad' = "ok"
  /\ UNCHANGED <<settings, pool, codec, frames, task, lock, asking, hist, status,
                 count>>

(* gst_ffmpegviddec_stop and close, which waits for the codec's threads    *)
(* without the STREAM_LOCK; the base class clears its frames.              *)
Stop ==
  /\ Idle /\ dec.started /\ asking = 0
  /\ dec' = Closed
  /\ pool' = NoPools
  /\ codec' = [state |-> "closed", ready |-> <<>>]
  /\ frames' = NoFrames
  /\ hist' = [hist EXCEPT !.out = "none", !.leaked = {}, !.adopted = FALSE]
  /\ UNCHANGED <<settings, task, lock, asking, srcpad, status, count>>

(* gst_ffmpegviddec_set_format: the same caps again need nothing; an open  *)
(* codec is drained and flushed first.                                     *)
SetFormat ==
  /\ Idle /\ dec.started /\ count.formats < MaxFormats
  /\ count' = [count EXCEPT !.formats = @ + 1]
  /\ \E c \in InCaps :
       IF dec.last_caps = c
       THEN dec' = [dec EXCEPT !.accepted = TRUE] /\ UNCHANGED <<task, lock>>
       ELSE /\ task' = [at |-> IF dec.opened THEN "drain" ELSE "configure",
                        frame |-> 0, caps |-> c]
            /\ lock' = TRUE
            /\ UNCHANGED dec
  /\ UNCHANGED <<settings, pool, codec, frames, asking, srcpad, hist,
                 status>>

(* Not the code: the caps are kept when the codec does not open. *)
KeepingConfigured(c) ==
  LET base == [dec EXCEPT !.pic = IF dec.opened THEN None ELSE @,
                          !.accepted = FALSE, !.opened = FALSE, !.last_caps = c]
  IN  IF c \in BadCaps \/ (c \in NalCaps /\ settings.frame_threads) THEN base
      ELSE [base EXCEPT !.accepted = TRUE, !.opened = TRUE, !.input_state = c]

(* set_format and gst_ffmpegviddec_open: what is known of the picture goes *)
(* with an old codec; frame threading is refused for NAL-aligned input     *)
(* after the caps were taken; a codec that does not open is closed again,  *)
(* and its caps forgotten.                                                 *)
Configured(c) ==
  LET base == [dec EXCEPT !.pic = IF dec.opened THEN None ELSE @,
                          !.accepted = FALSE, !.opened = FALSE, !.last_caps = c]
  IN  IF c \in NalCaps /\ settings.frame_threads THEN base
      ELSE IF c \in BadCaps THEN [base EXCEPT !.last_caps = None]
      ELSE [base EXCEPT !.accepted = TRUE, !.opened = TRUE, !.input_state = c]

Configure ==
  /\ At("configure")
  /\ dec' = Configured(task.caps)
  /\ codec' = [codec EXCEPT !.state = IF dec'.opened THEN "open" ELSE "closed"]
  /\ Go("idle") /\ lock' = FALSE
  /\ UNCHANGED <<settings, pool, frames, asking, srcpad, hist, status, count>>

-----------------------------------------------------------------------------
(* A frame in *)

(* gst_ffmpegviddec_handle_frame up to avcodec_send_packet: the frame is   *)
(* void until a buffer is wanted for it.  One that cannot be mapped, or is *)
(* empty, is not sent.                                                     *)
HandleFrame ==
  /\ Idle /\ dec.accepted /\ count.frames < MaxFrames
  /\ LET n == count.frames + 1
         With(void) == [k \in DOMAIN frames \cup {n} |->
                          IF k = n THEN void ELSE frames[k]]
     IN  /\ count' = [count EXCEPT !.frames = n]
         /\ \/ /\ frames' = With(TRUE)
               /\ task' = [at |-> "send", frame |-> n, caps |-> None]
               /\ UNCHANGED hist
            \/ frames' = With(TRUE) /\ UNCHANGED <<task, hist>>
            \/ /\ frames' = With(FALSE)
               /\ hist' = [hist EXCEPT !.leaked = @ \cup {n}]
               /\ UNCHANGED task
  /\ UNCHANGED <<settings, dec, pool, codec, lock, asking, srcpad, status>>

(* A codec that is closed or draining refuses, and the result stays ok.    *)
Refuses == codec.state # "open"

(* Not the code: the codec is called under the lock. *)
HoldsLock == lock' = ~Refuses

(* GST_VIDEO_DECODER_STREAM_UNLOCK: the codec may want the lock. *)
LeavesLock == lock' = FALSE

(* avcodec_send_packet.  The codec asks for a buffer, from here or from    *)
(* another thread, or finds no picture in the packet.  It takes a packet   *)
(* when its own thread is done with the one before.                        *)
SendPacket ==
  /\ At("send")
  /\ LeavesLock
  /\ \/ Refuses /\ Go("idle") /\ UNCHANGED asking
     \/ ~Refuses /\ asking = 0 /\ asking' = task.frame /\ Go("wait")
     \/ ~Refuses /\ asking = 0 /\ Go("ask") /\ UNCHANGED asking
  /\ UNCHANGED <<settings, dec, pool, codec, frames, srcpad, hist, status, count>>

(* gst_ffmpegviddec_ensure_internal_pool: the pool is kept if its format   *)
(* and pool_format are the picture's, and else made again.                 *)
InternalPool(f) ==
  IF pool.internal # None /\ pool.internal.format = f /\ pool.format = f THEN pool
  ELSE [pool EXCEPT !.internal = Pool(f, FALSE), !.format = f]

(* gst_ffmpegviddec_get_buffer2: the frame is real now.  With direct       *)
(* rendering the picture has a buffer of the internal pool, or none when   *)
(* the pool or the map fails.                                              *)
GetBuffer(n) ==
  /\ n \in DOMAIN frames
  /\ frames' = [frames EXCEPT ![n] = FALSE]
  /\ \E f \in Formats :
       /\ pool' = IF settings.direct THEN InternalPool(f) ELSE pool
       /\ \/ /\ codec' = [codec EXCEPT !.ready = Append(@,
                            [frame |-> n, format |-> f,
                             buffer |-> IF settings.direct THEN pool'.internal
                                        ELSE None])]
             /\ UNCHANGED hist
          \/ /\ settings.direct
             /\ hist' = [hist EXCEPT !.leaked = @ \cup {n}]
             /\ UNCHANGED codec

AskHere ==
  /\ At("ask")
  /\ GetBuffer(task.frame) \/ UNCHANGED <<codec, frames, pool, hist>>
  /\ Go("receive") /\ lock' = TRUE
  /\ UNCHANGED <<settings, dec, asking, srcpad, status, count>>

(* From another thread the base class's frame is behind the lock. *)
AskElsewhere ==
  /\ status = "ok" /\ asking # 0 /\ ~lock
  /\ GetBuffer(asking)
  /\ asking' = 0
  /\ UNCHANGED <<settings, dec, task, lock, srcpad, status, count>>

(* The call returns; with frame threads it need not wait for the other.    *)
Sent ==
  /\ At("wait") /\ (asking = 0 \/ settings.frame_threads)
  /\ Go("receive") /\ lock' = TRUE
  /\ UNCHANGED <<settings, dec, pool, codec, frames, asking, srcpad, hist,
                 status, count>>

-----------------------------------------------------------------------------
(* Pictures out *)

Draining == task.frame = 0

(* Where a loop over pictures ends: handle_frame returns, a drain goes on. *)
Ends == IF Draining THEN Go("drained") /\ lock' = lock ELSE Go("idle") /\ lock' = FALSE

(* Not the code: a change of format is not noticed. *)
BlindPictureChanged(p) == dec.pic = None

(* picture_changed and context_changed *)
PictureChanged(p) == dec.pic # p.format

(* Not the code: the output state is kept, the format remembered. *)
HastyRefused(p) == [dec EXCEPT !.pic = p.format]

(* negotiate_failed: the output state is new, the format forgotten. *)
RefusedNegotiation(p) == [dec EXCEPT !.output_state = p.format, !.pic = None]

(* gst_ffmpegviddec_decide_allocation: downstream's pool, adopted as the   *)
(* internal one when it has the codec's strides, but without pool_format;  *)
(* or the internal one when pool_format fits; or one of no other use.      *)
UsedPools(f) ==
  (IF pool.internal = None THEN {}
   ELSE {[pool EXCEPT !.internal = Pool(f, TRUE), !.used = Pool(f, TRUE)]})
  \cup {[pool EXCEPT !.used = IF pool.internal # None /\ pool.format = f
                              THEN pool.internal ELSE Pool(f, TRUE)],
        [pool EXCEPT !.used = Pool(f, TRUE)]}

(* gst_ffmpegviddec_negotiate: its result, the fields and the pools.       *)
(* A format without a GStreamer one is remembered all the same.            *)
Negotiated(p) ==
  IF ~PictureChanged(p) THEN [ok |-> TRUE, dec |-> dec, pools |-> {pool}]
  ELSE IF p.format \notin Supported
  THEN [ok |-> FALSE, dec |-> [dec EXCEPT !.pic = p.format], pools |-> {pool}]
  ELSE IF srcpad # "ok"
  THEN [ok |-> FALSE, dec |-> RefusedNegotiation(p), pools |-> {pool}]
  ELSE [ok |-> TRUE, dec |-> [dec EXCEPT !.output_state = p.format, !.pic = p.format],
        pools |-> UsedPools(p.format)]

(* Not the code: frames that have a buffer go as well. *)
AllOld == {n \in DOMAIN frames : Draining \/ n < task.frame}

(* gst_ffmpegviddec_video_frame, "cleaning time": of the frames before the *)
(* one in hand, or of all in a drain, those no buffer was wanted for.      *)
Ghosts == {n \in DOMAIN frames : (Draining \/ n < task.frame) /\ frames[n]}

(* The buffer to push: the picture's own if it is of the pool in use, or   *)
(* a copy in one of that pool (get_output_buffer).                         *)
Copies(p, used) == IF p.buffer = None \/ p.buffer # used THEN {TRUE} ELSE {TRUE, FALSE}

(* Not the code: one picture, and the loop is over. *)
PushOnce == Ends

(* The loop goes on while downstream takes what it gets. *)
PushNext == IF srcpad = "ok" THEN UNCHANGED <<task, lock>> ELSE Ends

(* History: downstream's pool is adopted while pool_format is another. *)
Adopting(p) ==
  [hist EXCEPT !.adopted = @ \/ (pool'.internal # pool.internal /\ pool.format # p.format)]

Push(p, d, copy) ==
  /\ dec' = d
  /\ hist' = [Adopting(p) EXCEPT
       !.out = IF p.format = d.output_state
                  /\ (copy => pool'.used.format = d.output_state)
               THEN "match" ELSE "mismatch",
       !.why = IF Draining /\ srcpad # "ok" THEN srcpad ELSE @]
  /\ frames' = Without(frames, Ghosts \cup {p.frame})
  /\ PushNext
  /\ UNCHANGED status

(* no_output and negotiation_error: the frame is dropped.  no_output also  *)
(* resets a flag of the frame in hand, which a drain has not.              *)
DropPicture(p, d, no_output, why) ==
  /\ dec' = d
  /\ frames' = Without(frames, {p.frame})
  /\ hist' = [Adopting(p) EXCEPT !.out = "none", !.why = IF Draining THEN why ELSE @]
  /\ status' = IF no_output /\ Draining THEN "null frame" ELSE "ok"
  /\ Ends

(* gst_ffmpegviddec_video_frame with a picture.  A copy may fail on its     *)
(* own; a buffer that cannot be mapped is pushed as it is (1630-1636).     *)
ReceivePicture ==
  /\ At("receive") /\ codec.ready # <<>>
  /\ codec' = [codec EXCEPT !.ready = Tail(@)]
  /\ LET p == Head(codec.ready)
         r == Negotiated(p)
     IN  /\ pool' \in r.pools
         /\ IF ~r.ok THEN DropPicture(p, r.dec, FALSE, "error")
            ELSE \E copy \in Copies(p, pool'.used) :
                   IF copy /\ (r.dec.output_state = None \/ srcpad # "ok")
                   THEN DropPicture(p, r.dec, TRUE, "error")
                   ELSE \/ Push(p, r.dec, copy)
                        \/ copy /\ DropPicture(p, r.dec, TRUE, "copy")
  /\ UNCHANGED <<settings, asking, srcpad, count>>

(* ... and without: the codec has none yet, has no more, or meets an error *)
(* that costs a picture.  None of them is passed on.                       *)
ReceiveNothing ==
  /\ At("receive")
  /\ \/ /\ IF codec.state = "draining" THEN codec.ready = <<>>
                                       ELSE Len(codec.ready) <= Delay
        /\ UNCHANGED <<codec, frames, hist>>
     \/ /\ codec.ready # <<>>
        /\ codec' = [codec EXCEPT !.ready = Tail(@)]
        /\ frames' = Without(frames, {Head(codec.ready).frame})
        /\ hist' = [hist EXCEPT !.why = IF Draining THEN "bad" ELSE @]
  /\ Ends
  /\ UNCHANGED <<settings, dec, pool, asking, srcpad, status, count>>

-----------------------------------------------------------------------------
(* Drain and flush *)

(* gst_ffmpegviddec_finish at the end of the stream, or _drain at a gap.   *)
Drain ==
  /\ Idle /\ dec.opened
  /\ task' = [at |-> "drain", frame |-> 0, caps |-> None] /\ lock' = TRUE
  /\ UNCHANGED <<settings, dec, pool, codec, frames, asking, srcpad, hist,
                 status, count>>

(* The null packet is sent under the lock; what the codec's own thread     *)
(* still has in hand comes first.                                          *)
DrainBegin ==
  /\ At("drain") /\ codec.state = "open" /\ asking = 0
  /\ codec' = [codec EXCEPT !.state = "draining"]
  /\ Go("receive")
  /\ hist' = [hist EXCEPT !.why = "end"]
  /\ UNCHANGED <<settings, dec, pool, frames, lock, asking, srcpad, status,
                 count>>

(* send_packet_failed: a codec that drains already, or fails, gives no     *)
(* pictures.  A gap leaves it so; finish flushes it all the same.          *)
DrainRefused ==
  /\ At("drain") /\ asking = 0
  /\ \E state \in {codec.state, "draining"} : codec' = [codec EXCEPT !.state = state]
  /\ \/ Go("drained") /\ hist' = [hist EXCEPT !.why = "unsent"] /\ UNCHANGED lock
     \/ task.caps = None /\ Go("idle") /\ lock' = FALSE /\ UNCHANGED hist
  /\ UNCHANGED <<settings, dec, pool, frames, asking, srcpad, status, count>>

(* avcodec_flush_buffers.  The pictures go, and with them their frames     *)
(* (gst_ffmpegviddec_video_frame_free).                                    *)
Flushed == [state |-> "open", ready |-> <<>>]

(* The end of gst_ffmpegviddec_drain, and of gst_ffmpegviddec_finish, which *)
(* set_format calls too.                                                   *)
DrainEnd ==
  /\ At("drained")
  /\ codec' = Flushed
  /\ frames' = Without(frames, PictureFrames)
  /\ IF task.caps = None THEN Go("idle") /\ lock' = FALSE
                         ELSE Go("configure") /\ lock' = lock
  /\ hist' = [hist EXCEPT !.why = "end"]
  /\ UNCHANGED <<settings, dec, pool, asking, srcpad, status, count>>

(* gst_ffmpegviddec_flush, which the base class calls under the lock.      *)
FlushBegin ==
  /\ Idle /\ dec.started
  /\ Go("flush") /\ lock' = TRUE
  /\ UNCHANGED <<settings, dec, pool, codec, frames, asking, srcpad, hist,
                 status, count>>

(* avcodec_flush_buffers waits for the codec's thread; the base class      *)
(* forgets its frames.                                                     *)
Flush ==
  /\ At("flush") /\ asking = 0
  /\ codec' = IF dec.opened THEN Flushed ELSE codec
  /\ frames' = NoFrames
  /\ hist' = [hist EXCEPT !.leaked = {}]
  /\ srcpad' = "ok"
  /\ Go("idle") /\ lock' = FALSE
  /\ UNCHANGED <<settings, dec, pool, asking, status, count>>

(* Downstream starts to flush, or fails. *)
DownstreamFails ==
  /\ status = "ok" /\ srcpad = "ok"
  /\ srcpad' \in {"flushing", "error"}
  /\ UNCHANGED <<settings, dec, pool, codec, frames, task, lock, asking,
                 hist, status, count>>

-----------------------------------------------------------------------------
Work ==
  Configure \/ SendPacket \/ AskHere \/ Sent \/ ReceivePicture \/ ReceiveNothing
  \/ DrainBegin \/ DrainRefused \/ DrainEnd \/ Flush

Next ==
  \/ Start \/ Stop \/ SetFormat \/ HandleFrame \/ Drain \/ FlushBegin
  \/ Work \/ AskElsewhere
  \/ DownstreamFails

(* The streaming thread goes on, and so does the codec's. *)
Fairness == WF_vars(Work) /\ WF_vars(AskElsewhere)

Spec == Init /\ [][Next]_vars /\ Fairness

-----------------------------------------------------------------------------
(* Properties *)

(* Caps that set_format has accepted have an open codec behind them, but   *)
(* for NAL-aligned caps refused for frame threading and then sent again:   *)
(* they equal last_caps, so the second call returns TRUE and every packet  *)
(* is lost.                                                                *)
AcceptedIsOpen ==
  dec.accepted => dec.opened \/ (dec.last_caps \in NalCaps /\ settings.frame_threads)

(* What is pushed has the format of the output state, and a copy goes to a *)
(* buffer of that format.  Two things break it: a picture of a format that *)
(* GStreamer has not is refused once only, and the next one passes for     *)
(* unchanged; and a pool that was adopted while the codec asked for        *)
(* another format passes for one of that other format.                     *)
OutputMatches ==
  hist.out = "mismatch" => dec.pic \notin Supported \/ hist.adopted

(* A frame stays with the base class exactly as long as a picture of it    *)
(* may come out of the codec, unless its buffer or its map failed: then no *)
(* one drops it before a flush.                                            *)
RealFrames ==
  status = "ok" =>
    {n \in DOMAIN frames : ~frames[n]} \ hist.leaked = PictureFrames

(* A drain throws pictures away only when downstream stopped taking them,  *)
(* when one could not be copied, or after a picture that could not be      *)
(* decoded, which ends it early and without an error; or when the codec    *)
(* refused the null packet, and finish flushes it nevertheless.            *)
DrainComplete ==
  task.at = "drained" /\ codec.ready # <<>> =>
    hist.why \in {"bad", "error", "copy", "flushing", "unsent"}

(* Only a drain whose output fails resets the flag of a frame that is not  *)
(* there: downstream is gone, or the format is one GStreamer has not, or   *)
(* the picture cannot be copied.                                           *)
NullFrameAtDrain ==
  status = "null frame" =>
    srcpad # "ok" \/ dec.pic \notin Supported \/ hist.why = "copy"

(* A packet is taken or refused: no thread waits for the other's lock.     *)
SendReturns ==
  (task.at \in {"send", "wait"}) ~> (task.at \in {"idle", "ask", "receive"} \/ status # "ok")
=============================================================================
