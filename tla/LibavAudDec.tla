---------------------------- MODULE LibavAudDec ----------------------------
(***************************************************************************)
(* The audio decoder elements of gst-libav (gstavauddec.c), on top of the  *)
(* audio decoder base class of GStreamer and of libavcodec.  The element   *)
(* pushes every frame as a subframe and finishes one packet when a packet  *)
(* has led to frames; the base class dates a subframe by the oldest packet *)
(* that is not finished.                                                   *)
(*                                                                         *)
(* The base class and libavcodec are modelled from how this code uses      *)
(* them: the codec holds back at most Delay packets, refuses a packet when *)
(* more of its frames wait to be read, and gives frames in the order of    *)
(* the packets.                                                            *)
(***************************************************************************)
EXTENDS Naturals, Sequences

CONSTANTS
  InCaps,     \* input caps
  Formats,    \* formats of decoded frames
  Unknown,    \* the ones GStreamer has no format for
  None,
  Delay,      \* packets the codec may hold back
  MaxPackets, \* bound: packets handed to the element
  MaxFormats  \* bound: calls of set_format

ASSUME AudDecAssumption ==
  None \notin InCaps \cup Formats /\ Unknown \subseteq Formats
  /\ Delay \in Nat /\ MaxPackets \in Nat /\ MaxFormats \in Nat

VARIABLES
  dec,    \* the fields of GstFFMpegAudDec
  codec,  \* libavcodec: its state, its caps, packets whose frame is to come
  base,   \* base class: packets not finished, a subframe open, output format
  task,   \* idle, reading frames, past the last one, or in a drain that
          \* failed to start; and for what
  srcpad, \* what downstream makes of buffers
  hist,   \* history, see NoHistory
  count   \* bounds: packets and formats so far

vars == <<dec, codec, base, task, srcpad, hist, count>>

Stopped  == [started |-> FALSE, accepted |-> FALSE, opened |-> FALSE,
             last_caps |-> None, info |-> None]
NoCodec  == [state |-> "closed", caps |-> None, held |-> <<>>]
NewBase  == [pending |-> <<>>, subframe |-> FALSE, output |-> None]
IdleTask == [at |-> "idle", why |-> "none", got |-> FALSE, caps |-> None]
NoHistory == [skew |-> {},        \* why dates no longer match packets
              out |-> "none",     \* if the last subframe got its own date
              format |-> "none"]  \* if it had the format of the output

Init ==
  /\ dec = Stopped /\ codec = NoCodec /\ base = NewBase /\ task = IdleTask
  /\ srcpad = "ok" /\ hist = NoHistory /\ count = [packets |-> 0, formats |-> 0]

Idle == task.at = "idle"
Reading == task.at = "read"
Skewed(h, cause, really) == IF really THEN [h EXCEPT !.skew = @ \cup {cause}] ELSE h

-----------------------------------------------------------------------------
(* Opening *)

(* gst_ffmpegauddec_start *)
Start ==
  /\ Idle /\ ~dec.started
  /\ dec' = [dec EXCEPT !.started = TRUE]
  /\ codec' = NoCodec /\ base' = NewBase /\ hist' = NoHistory
  /\ UNCHANGED <<task, srcpad, count>>

(* gst_ffmpegauddec_close and gst_ffmpegauddec_stop *)
Stop ==
  /\ Idle /\ dec.started
  /\ dec' = Stopped /\ codec' = NoCodec /\ base' = NewBase /\ hist' = NoHistory
  /\ UNCHANGED <<task, srcpad, count>>

(* Not the code: the caps are remembered though the codec did not open. *)
KeptCaps(d, c) == [d EXCEPT !.last_caps = c, !.opened = FALSE, !.accepted = FALSE]

(* gst_ffmpegauddec_close after the codec did not open *)
OpenFailed(d, c) == [d EXCEPT !.last_caps = None, !.opened = FALSE, !.accepted = FALSE]

(* gst_ffmpegauddec_open.  A session that had to be closed first has lost  *)
(* last_caps with it.                                                      *)
OpenDone(d, c) == [d EXCEPT !.last_caps = IF d.opened THEN None ELSE c,
                            !.opened = TRUE, !.accepted = TRUE, !.info = None]

Configure(c) ==
  \/ dec' = OpenDone(dec, c) /\ codec' = [state |-> "open", caps |-> c, held |-> <<>>]
  \/ dec' = OpenFailed(dec, c) /\ codec' = NoCodec

(* avcodec_send_packet without a packet fails on a codec that is draining, *)
(* and may fail before the codec starts to or with what it drains first.   *)
Draining == [codec EXCEPT !.state = "draining"]
NullFails == IF codec.state = "open" THEN {codec, Draining} ELSE {codec}

(* gst_ffmpegauddec_drain up to its loop *)
DrainBegin(why, c) ==
  LET for(at) == [at |-> at, why |-> why, got |-> FALSE, caps |-> c]
  IN  \/ codec.state = "open" /\ codec' = Draining /\ task' = for("read")
      \/ codec' \in NullFails /\ task' = for("unsent")

(* gst_ffmpegauddec_set_format up to the drain of the old session.  It     *)
(* writes last_caps here, which nothing reads before DrainEnd clears it.   *)
SetFormat ==
  /\ Idle /\ dec.started /\ count.formats < MaxFormats
  /\ count' = [count EXCEPT !.formats = @ + 1]
  /\ \E c \in InCaps :
       \/ /\ dec.last_caps = c
          /\ dec' = [dec EXCEPT !.accepted = TRUE]
          /\ UNCHANGED <<codec, task>>
       \/ /\ dec.last_caps # c /\ dec.opened
          /\ DrainBegin("format", c) /\ UNCHANGED dec
       \/ dec.last_caps # c /\ ~dec.opened /\ Configure(c) /\ UNCHANGED task
  /\ UNCHANGED <<base, srcpad, hist>>

-----------------------------------------------------------------------------
(* A packet in *)

Number == count.packets + 1
Provided == [base EXCEPT !.pending = Append(@, Number)]
ReadFor(why) == [at |-> "read", why |-> why, got |-> FALSE, caps |-> None]

(* gst_ffmpegauddec_handle_frame with a packet of no bytes *)
EmptyPacket ==
  /\ base' = Provided /\ hist' = Skewed(hist, "empty", TRUE)
  /\ UNCHANGED <<codec, task>>

(* The packet is sent: it has a frame or none, and may be flagged as a     *)
(* header.                                                                 *)
SendPacket ==
  /\ codec.state = "open" /\ Len(codec.held) <= Delay
  /\ base' = Provided
  /\ \E header \in BOOLEAN :
       /\ task' = ReadFor(IF header THEN "header" ELSE "packet")
       /\ \/ codec' = [codec EXCEPT !.held = Append(@, Number)] /\ UNCHANGED hist
          \/ /\ UNCHANGED codec
             /\ hist' = IF header THEN Skewed(hist, "header", codec.held # <<>>)
                                  ELSE Skewed(hist, "silent", TRUE)

(* The codec refuses the packet, as it does when it is draining, and is    *)
(* drained.                                                                *)
RefusePacket ==
  /\ base' = Provided /\ DrainBegin("force", None) /\ UNCHANGED hist

HandleFrame ==
  /\ Idle /\ dec.accepted /\ count.packets < MaxPackets
  /\ count' = [count EXCEPT !.packets = Number]
  /\ EmptyPacket \/ SendPacket \/ RefusePacket
  /\ UNCHANGED <<dec, srcpad>>

(* ... without a packet *)
Drain ==
  /\ Idle /\ dec.started /\ dec.opened
  /\ DrainBegin("drain", None)
  /\ UNCHANGED <<dec, base, srcpad, hist, count>>

-----------------------------------------------------------------------------
(* Frames out *)

LoopEnds == task' = [task EXCEPT !.at = "read all"]

(* settings_changed *)
SettingsChanged(f) == dec.info # f

(* Not the code: info is left as it was set for the caps that failed. *)
KeptInfo(f) == f

(* caps_failed: the info is cleared. *)
ClearedInfo(f) == None

(* gst_ffmpegauddec_negotiate fails: the frame is lost. *)
NotNegotiated(f) ==
  /\ f \in Unknown \/ SettingsChanged(f)
  /\ dec' = IF f \in Unknown THEN dec ELSE [dec EXCEPT !.info = ClearedInfo(f)]
  /\ hist' = Skewed(hist, "not negotiated", TRUE)
  /\ LoopEnds /\ UNCHANGED base

(* gst_ffmpegauddec_audio_frame and gst_ffmpegauddec_frame: a subframe.    *)
(* Reading goes on when downstream refuses it, but for a packet's frames.  *)
Subframe(f) ==
  /\ f \notin Unknown
  /\ dec' = [dec EXCEPT !.info = f]
  /\ base' = [base EXCEPT !.subframe = TRUE,
                          !.output = IF SettingsChanged(f) THEN f ELSE @]
  /\ hist' = [Skewed(hist, "burst", task.got) EXCEPT
                !.out = IF base.pending # <<>> /\ Head(base.pending) = Head(codec.held)
                        THEN "own" ELSE "other",
                !.format = IF base'.output = f THEN "right" ELSE "wrong"]
  /\ task' = [task EXCEPT !.got = TRUE,
                          !.at = IF srcpad = "error" /\ task.why \in {"packet", "header"}
                                 THEN "read all" ELSE @]

ReceiveFrame ==
  /\ Reading /\ codec.held # <<>>
  /\ codec' = [codec EXCEPT !.held = Tail(@)]
  /\ \E f \in Formats : NotNegotiated(f) \/ Subframe(f)
  /\ UNCHANGED <<srcpad, count>>

(* No frame yet, no frame any more, or an error in place of one. *)
ReceiveNothing ==
  /\ Reading
  /\ \/ /\ IF codec.state = "draining" THEN codec.held = <<>> ELSE Len(codec.held) <= Delay
        /\ UNCHANGED <<codec, hist>>
     \/ /\ codec.held # <<>>
        /\ codec' = [codec EXCEPT !.held = Tail(@)]
        /\ hist' = Skewed(hist, "error", TRUE)
  /\ LoopEnds
  /\ UNCHANGED <<dec, base, srcpad, count>>

-----------------------------------------------------------------------------
(* The end of a packet and of a drain *)

(* gst_audio_decoder_finish_frame for one packet *)
FinishOne(b) == [b EXCEPT !.pending = IF @ = <<>> THEN @ ELSE Tail(@), !.subframe = FALSE]

(* Not the code: nothing is finished once downstream has failed. *)
FinishesWhenOk(t) == (t.got \/ t.why \in {"header", "force"}) /\ srcpad = "ok"

(* Not the code: a packet the codec refused is not finished. *)
FinishesFrames(t) == t.got \/ t.why = "header"

(* A packet is finished when it led to frames, is a header, or was refused. *)
Finishes(t) == t.got \/ t.why \in {"header", "force"}

Finished == IF Finishes(task) THEN FinishOne(base) ELSE base

(* The end of handle_frame, with gst_audio_decoder_finish_frame *)
PacketEnd ==
  /\ task.at = "read all" /\ task.why \in {"packet", "header"}
  /\ base' = Finished /\ task' = IdleTask
  /\ hist' = Skewed(hist, "header", task.why = "header" /\ ~task.got /\ codec.held # <<>>)
  /\ UNCHANGED <<dec, codec, srcpad, count>>

(* avcodec_flush_buffers *)
Flushed(cd) == IF cd.state = "closed" THEN cd ELSE [cd EXCEPT !.state = "open", !.held = <<>>]

(* The end of gst_ffmpegauddec_drain, and after it that of set_format.     *)
(* What frames are left when an error has ended the loop are lost.         *)
DrainEnd ==
  /\ task.at = "read all" /\ task.why \notin {"packet", "header"}
  /\ base' = Finished /\ task' = IdleTask
  /\ hist' = Skewed(hist, "refused", task.why = "force" /\ task.got)
  /\ IF task.why = "format" THEN Configure(task.caps)
                            ELSE codec' = Flushed(codec) /\ UNCHANGED dec
  /\ UNCHANGED <<srcpad, count>>

(* send_packet_failed in gst_ffmpegauddec_drain: nothing was read, nothing *)
(* is flushed, and no packet finished, the refused one of "force" neither. *)
(* set_format goes on to close the codec with all it holds.                *)
DrainFailed ==
  /\ task.at = "unsent" /\ task' = IdleTask
  /\ \/ task.why = "drain" /\ UNCHANGED <<dec, codec, hist>>
     \/ /\ task.why = "force" /\ hist' = Skewed(hist, "unsent", TRUE)
        /\ UNCHANGED <<dec, codec>>
     \/ /\ task.why = "format" /\ hist' = Skewed(hist, "format", codec.held # <<>>)
        /\ Configure(task.caps)
  /\ UNCHANGED <<base, srcpad, count>>

(* gst_ffmpegauddec_flush; the base class forgets its packets. *)
Flush ==
  /\ Idle /\ dec.started
  /\ codec' = IF dec.opened THEN Flushed(codec) ELSE codec
  /\ base' = [base EXCEPT !.pending = <<>>]
  /\ hist' = [hist EXCEPT !.skew = {}, !.out = "none"] /\ srcpad' = "ok"
  /\ UNCHANGED <<dec, task, count>>

DownstreamFails ==
  /\ srcpad = "ok" /\ srcpad' = "error"
  /\ UNCHANGED <<dec, codec, base, task, hist, count>>

-----------------------------------------------------------------------------
Next ==
  \/ Start \/ Stop \/ SetFormat \/ HandleFrame \/ Drain \/ ReceiveFrame
  \/ ReceiveNothing \/ PacketEnd \/ DrainEnd \/ DrainFailed \/ Flush \/ DownstreamFails

Spec == Init /\ [][Next]_vars

-----------------------------------------------------------------------------
(* Properties *)

(* Caps that are remembered, and so accepted again without a look, are the *)
(* ones the codec is open for.                                             *)
LastCapsOpen == dec.last_caps # None => dec.opened /\ codec.caps = dec.last_caps

(* A subframe is never left open when the element returns, also when       *)
(* downstream refused it: the base class expects finish_frame after it.    *)
SubframesFinished == Idle => ~base.subframe

(* A subframe has the format that was agreed with downstream last. *)
OutputMatches == hist.format # "wrong"

(* A subframe is dated by its own packet, until packets stay unfinished or *)
(* are finished for others: one that led to no frame or to an error, one   *)
(* without bytes, a header ahead of frames held back, a packet refused     *)
(* when draining gave frames, more frames than one for a packet; or a      *)
(* drain that could not start, which leaves the refused packet unfinished  *)
(* or lets set_format close a codec that holds frames.                     *)
OwnDate == hist.out = "other" => hist.skew # {}
=============================================================================
