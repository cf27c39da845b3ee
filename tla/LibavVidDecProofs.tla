------------------------- MODULE LibavVidDecProofs -------------------------
(***************************************************************************)
(* Theorems about LibavVidDec, for all caps, formats, delays of the codec  *)
(* and settings: what accepted caps promise, when a drain loses pictures   *)
(* or meets a frame that is not there, that what is pushed has the format  *)
(* it was negotiated for, and that every frame kept is of a picture.       *)
(***************************************************************************)
EXTENDS LibavVidDec, SequenceTheorems, TLAPS

(* Caps that are remembered have an open codec, or are refused for good;   *)
(* accepted caps are remembered.                                           *)
CapsInv ==
  /\ dec.last_caps # None =>
       dec.opened \/ (dec.last_caps \in NalCaps /\ settings.frame_threads)
  /\ dec.accepted => dec.last_caps # None

(* The picture that is remembered is the output state's, if it can be. *)
PictureInv == dec.pic \in Supported => dec.output_state = dec.pic

(* The codec drains while the task drains, which it does under the lock; a *)
(* packet is of a frame in hand.                                           *)
TaskInv ==
  /\ task.at = "receive" /\ task.frame = 0 => codec.state = "draining"
  /\ task.at \in {"send", "ask", "wait"} => task.frame # 0
  /\ task.at \in {"drain", "receive", "drained"} => lock
  /\ task.at = "configure" => task.caps \in InCaps
  /\ task.caps \in InCaps \cup {None}

(* The fields of the records, and the numbers that matter. *)
FieldsOK ==
  /\ dec = [started |-> dec.started, accepted |-> dec.accepted, opened |-> dec.opened,
            last_caps |-> dec.last_caps, input_state |-> dec.input_state,
            output_state |-> dec.output_state, pic |-> dec.pic]
  /\ codec = [state |-> codec.state, ready |-> codec.ready]
  /\ task = [at |-> task.at, frame |-> task.frame, caps |-> task.caps]
  /\ hist = [leaked |-> hist.leaked, out |-> hist.out,
             adopted |-> hist.adopted, why |-> hist.why]
  /\ count = [frames |-> count.frames, formats |-> count.formats]
  /\ count.frames \in Nat
  /\ srcpad \in {"ok", "flushing", "error"}
  /\ status \in {"ok", "null frame"}

VidInv ==
  FieldsOK /\ CapsInv /\ PictureInv /\ TaskInv /\ DrainComplete /\ NullFrameAtDrain

LEMMA InvInit == Init => VidInv
  <1> SUFFICES ASSUME Init PROVE VidInv
    OBVIOUS
  <1>1. FieldsOK
    BY DEF Init, Closed, FieldsOK
  <1>2. None \notin Supported
    BY VidDecAssumption
  <1>3. QED
    BY <1>1, <1>2
    DEF Init, Closed, VidInv, CapsInv, PictureInv, TaskInv, DrainComplete,
        NullFrameAtDrain

LEMMA NoneIsNothing == None \notin InCaps /\ None \notin Supported
  BY VidDecAssumption

-----------------------------------------------------------------------------
(* What set_format leaves. *)
LEMMA ConfiguredCaps ==
  ASSUME VidInv, NEW c \in InCaps, dec' = Configured(c), settings' = settings,
         status' = status, srcpad' = srcpad, status = "ok"
  PROVE  /\ dec' = [started |-> dec'.started, accepted |-> dec'.accepted,
                    opened |-> dec'.opened, last_caps |-> dec'.last_caps,
                    input_state |-> dec'.input_state,
                    output_state |-> dec'.output_state, pic |-> dec'.pic]
         /\ CapsInv' /\ PictureInv'
  <1> DEFINE base == [dec EXCEPT !.pic = IF dec.opened THEN None ELSE @,
                          !.accepted = FALSE, !.opened = FALSE, !.last_caps = c]
  <1>1. base = [started |-> dec.started, accepted |-> FALSE, opened |-> FALSE,
                last_caps |-> c, input_state |-> dec.input_state,
                output_state |-> dec.output_state,
                pic |-> IF dec.opened THEN None ELSE dec.pic]
    <2>1. dec = [started |-> dec.started, accepted |-> dec.accepted,
                 opened |-> dec.opened, last_caps |-> dec.last_caps,
                 input_state |-> dec.input_state, output_state |-> dec.output_state,
                 pic |-> dec.pic]
      BY DEF VidInv, FieldsOK
    <2> DEFINE x == IF dec.opened THEN None ELSE dec.pic
    <2>2. base = [dec EXCEPT !.pic = x, !.accepted = FALSE, !.opened = FALSE,
                             !.last_caps = c]
      OBVIOUS
    <2> DEFINE d1 == [dec EXCEPT !.pic = x]
               d2 == [d1 EXCEPT !.accepted = FALSE]
               d3 == [d2 EXCEPT !.opened = FALSE]
               d4 == [d3 EXCEPT !.last_caps = c]
    <2>3. base = d4
      BY <2>2
    <2>4. d1 = [dec EXCEPT !.pic = x] /\ d2 = [d1 EXCEPT !.accepted = FALSE]
          /\ d3 = [d2 EXCEPT !.opened = FALSE] /\ d4 = [d3 EXCEPT !.last_caps = c]
      OBVIOUS
    <2>5. d4 = [started |-> dec.started, accepted |-> FALSE, opened |-> FALSE,
                last_caps |-> c, input_state |-> dec.input_state,
                output_state |-> dec.output_state, pic |-> x]
      <3> HIDE DEF x, d1, d2, d3, d4
      <3> QED
        BY <2>1, <2>4
    <2>6. QED
      BY <2>3, <2>5
  <1>2. \/ c \in NalCaps /\ settings.frame_threads /\ dec' = base
        \/ dec' = [base EXCEPT !.last_caps = None]
        \/ dec' = [base EXCEPT !.accepted = TRUE, !.opened = TRUE, !.input_state = c]
    BY DEF Configured
  <1>3. CASE c \in NalCaps /\ settings.frame_threads /\ dec' = base
    BY <1>1, <1>3, NoneIsNothing DEF VidInv, CapsInv, PictureInv
  <1>4. CASE dec' = [base EXCEPT !.last_caps = None]
    BY <1>1, <1>4, NoneIsNothing DEF VidInv, CapsInv, PictureInv
  <1>5. CASE dec' = [base EXCEPT !.accepted = TRUE, !.opened = TRUE, !.input_state = c]
    <2>1. dec' = [started |-> dec.started, accepted |-> TRUE, opened |-> TRUE,
                  last_caps |-> c, input_state |-> c, output_state |-> dec.output_state,
                  pic |-> IF dec.opened THEN None ELSE dec.pic]
      BY <1>1, <1>5
    <2>2. QED
      BY <2>1, NoneIsNothing DEF VidInv, CapsInv, PictureInv
  <1>6. QED
    BY <1>2, <1>3, <1>4, <1>5

(* What a negotiation leaves: only a format GStreamer has not can agree    *)
(* without an output state.                                                *)
LEMMA NegotiatedPicture ==
  ASSUME VidInv, NEW p, dec' = Negotiated(p).dec, settings' = settings
  PROVE  /\ dec' = [started |-> dec'.started, accepted |-> dec'.accepted,
                    opened |-> dec'.opened, last_caps |-> dec'.last_caps,
                    input_state |-> dec'.input_state,
                    output_state |-> dec'.output_state, pic |-> dec'.pic]
         /\ CapsInv' /\ PictureInv'
         /\ Negotiated(p).ok /\ dec'.output_state = None => dec'.pic \notin Supported
  <1>1. \/ dec' = dec
        \/ p.format \notin Supported /\ dec' = [dec EXCEPT !.pic = p.format]
             /\ ~Negotiated(p).ok
        \/ dec' = [dec EXCEPT !.output_state = p.format, !.pic = None]
             /\ ~Negotiated(p).ok
        \/ p.format \in Supported
             /\ dec' = [dec EXCEPT !.output_state = p.format, !.pic = p.format]
    BY DEF Negotiated, RefusedNegotiation
  <1>2. CASE dec' = dec
    BY <1>2, NoneIsNothing DEF VidInv, FieldsOK, CapsInv, PictureInv
  <1>3. CASE p.format \notin Supported /\ dec' = [dec EXCEPT !.pic = p.format]
             /\ ~Negotiated(p).ok
    BY <1>3 DEF VidInv, FieldsOK, CapsInv, PictureInv
  <1>4. CASE dec' = [dec EXCEPT !.output_state = p.format, !.pic = None]
             /\ ~Negotiated(p).ok
    BY <1>4, NoneIsNothing DEF VidInv, FieldsOK, CapsInv, PictureInv
  <1>5. CASE p.format \in Supported
             /\ dec' = [dec EXCEPT !.output_state = p.format, !.pic = p.format]
    BY <1>5, NoneIsNothing DEF VidInv, FieldsOK, CapsInv, PictureInv
  <1>6. QED
    BY <1>1, <1>2, <1>3, <1>4, <1>5

-----------------------------------------------------------------------------
(* Steps of the streaming thread between frames, and of downstream. *)
LEMMA OutsideStep ==
  ASSUME VidInv,
         Start \/ Stop \/ SetFormat \/ HandleFrame \/ Drain \/ FlushBegin \/ Flush
           \/ DownstreamFails
  PROVE  VidInv'
  <1>0. status = "ok" /\ status' = "ok"
    BY DEF Start, Stop, SetFormat, HandleFrame, Drain, FlushBegin, Flush,
           DownstreamFails, Idle, At
  <1>1. CASE Start
    <2>1. FieldsOK'
      BY <1>1 DEF VidInv, FieldsOK, Start
    <2>2. dec' = [dec EXCEPT !.started = TRUE] /\ dec'.pic = dec.pic
          /\ dec'.last_caps = dec.last_caps /\ dec'.opened = dec.opened
          /\ dec'.accepted = dec.accepted /\ dec'.output_state = dec.output_state
          /\ UNCHANGED <<settings, codec, task, lock, hist>>
      BY <1>1 DEF Start, VidInv, FieldsOK
    <2>3. QED
      BY <1>0, <2>1, <2>2
      DEF VidInv, CapsInv, PictureInv, TaskInv, DrainComplete, NullFrameAtDrain
  <1>2. CASE Stop
    <2>1. /\ dec' = Closed /\ codec' = [state |-> "closed", ready |-> <<>>]
          /\ UNCHANGED <<settings, task, lock, srcpad, count>> /\ task.at = "idle"
          /\ hist' = [hist EXCEPT !.out = "none", !.leaked = {}, !.adopted = FALSE]
      BY <1>2 DEF Stop, Idle, At
    <2>2. FieldsOK'
      <3>1. hist' = [leaked |-> hist'.leaked,
                     out |-> hist'.out, adopted |-> hist'.adopted, why |-> hist'.why]
        BY <2>1 DEF VidInv, FieldsOK
      <3>2. QED
        BY <1>0, <2>1, <3>1 DEF VidInv, FieldsOK, Closed
    <2>3. QED
      BY <1>0, <2>1, <2>2, NoneIsNothing
      DEF VidInv, CapsInv, PictureInv, TaskInv, DrainComplete, NullFrameAtDrain, Closed
  <1>3. CASE SetFormat
    <2>1. PICK c \in InCaps :
            \/ /\ dec.last_caps = c /\ dec' = [dec EXCEPT !.accepted = TRUE]
               /\ task' = task
            \/ /\ task' = [at |-> IF dec.opened THEN "drain" ELSE "configure",
                           frame |-> 0, caps |-> c]
               /\ dec' = dec /\ lock' = TRUE
      BY <1>3 DEF SetFormat
    <2>2. /\ UNCHANGED <<settings, codec, srcpad, hist>>
          /\ count' = [count EXCEPT !.formats = @ + 1] /\ task.at = "idle"
      BY <1>3 DEF SetFormat, Idle, At
    <2>4. count' = [frames |-> count'.frames, formats |-> count'.formats]
          /\ count'.frames \in Nat
      BY <2>2 DEF VidInv, FieldsOK
    <2>5. CASE dec.last_caps = c /\ dec' = [dec EXCEPT !.accepted = TRUE] /\ task' = task
      <3>1. dec' = [started |-> dec.started, accepted |-> TRUE, opened |-> dec.opened,
                    last_caps |-> dec.last_caps, input_state |-> dec.input_state,
                    output_state |-> dec.output_state, pic |-> dec.pic]
        BY <2>5 DEF VidInv, FieldsOK
      <3>2. FieldsOK'
        BY <1>0, <2>2, <2>4, <2>5, <3>1 DEF VidInv, FieldsOK
      <3>3. QED
        BY <1>0, <2>2, <2>5, <3>1, <3>2, NoneIsNothing
        DEF VidInv, CapsInv, PictureInv, TaskInv, DrainComplete, NullFrameAtDrain
    <2>6. CASE /\ task' = [at |-> IF dec.opened THEN "drain" ELSE "configure",
                           frame |-> 0, caps |-> c]
               /\ dec' = dec /\ lock' = TRUE
      <3>1. FieldsOK'
        BY <1>0, <2>2, <2>4, <2>6 DEF VidInv, FieldsOK
      <3>2. QED
        BY <1>0, <2>2, <2>6, <3>1
        DEF VidInv, CapsInv, PictureInv, TaskInv, DrainComplete, NullFrameAtDrain
    <2>7. QED
      BY <2>1, <2>5, <2>6
  <1>4. CASE HandleFrame
    <2>1. /\ UNCHANGED <<settings, dec, codec, lock, srcpad>> /\ task.at = "idle"
          /\ count' = [count EXCEPT !.frames = count.frames + 1]
          /\ hist' = hist \/ hist' = [hist EXCEPT !.leaked = @ \cup {count.frames + 1}]
          /\ \/ task' = task
             \/ task' = [at |-> "send", frame |-> count.frames + 1, caps |-> None]
      BY <1>4 DEF HandleFrame, Idle, At
    <2>3. /\ count' = [frames |-> count'.frames, formats |-> count'.formats]
          /\ count'.frames \in Nat /\ count.frames + 1 # 0
      <3>1. count = [frames |-> count.frames, formats |-> count.formats]
            /\ count.frames \in Nat
        BY DEF VidInv, FieldsOK
      <3>2. count' = [frames |-> count.frames + 1, formats |-> count.formats]
        BY <2>1, <3>1
      <3>3. QED
        BY <3>1, <3>2
    <2>4. /\ hist' = [leaked |-> hist'.leaked,
                      out |-> hist'.out, adopted |-> hist'.adopted, why |-> hist'.why]
          /\ hist'.why = hist.why
      BY <2>1 DEF VidInv, FieldsOK
    <2>5. FieldsOK'
      BY <1>0, <2>1, <2>3, <2>4 DEF VidInv, FieldsOK
    <2>6. QED
      BY <1>0, <2>1, <2>3, <2>4, <2>5
      DEF VidInv, CapsInv, PictureInv, TaskInv, DrainComplete, NullFrameAtDrain
  <1>5. CASE Drain
    <2>1. /\ UNCHANGED <<settings, dec, codec, srcpad, hist, count>>
          /\ task' = [at |-> "drain", frame |-> 0, caps |-> None] /\ lock' = TRUE
      BY <1>5 DEF Drain, Idle, At
    <2>2. FieldsOK'
      BY <1>0, <2>1 DEF VidInv, FieldsOK
    <2>3. QED
      BY <1>0, <2>1, <2>2
      DEF VidInv, CapsInv, PictureInv, TaskInv, DrainComplete, NullFrameAtDrain
  <1>6. CASE Flush
    <2>1. /\ UNCHANGED <<settings, dec, count>> /\ task' = [task EXCEPT !.at = "idle"]
          /\ srcpad' = "ok" /\ codec' \in {Flushed, codec}
          /\ hist' = [hist EXCEPT !.leaked = {}]
      BY <1>6 DEF Flush, Go
    <2> DEFINE t == [at |-> "idle", frame |-> task.frame, caps |-> task.caps]
    <2>4. task' = t
      BY <2>1 DEF VidInv, FieldsOK
    <2>2. FieldsOK'
      <3>1. hist' = [leaked |-> hist'.leaked,
                     out |-> hist'.out, adopted |-> hist'.adopted, why |-> hist'.why]
        BY <2>1 DEF VidInv, FieldsOK
      <3>2. codec' = [state |-> codec'.state, ready |-> codec'.ready]
        BY <2>1 DEF Flushed, VidInv, FieldsOK
      <3>3. QED
        BY <1>0, <2>1, <2>4, <3>1, <3>2 DEF VidInv, FieldsOK
    <2>3. QED
      BY <1>0, <2>1, <2>2, <2>4
      DEF VidInv, CapsInv, PictureInv, TaskInv, DrainComplete, NullFrameAtDrain
  <1>9. CASE FlushBegin
    <2>1. /\ UNCHANGED <<settings, dec, codec, srcpad, hist, count>>
          /\ task' = [task EXCEPT !.at = "flush"]
      BY <1>9 DEF FlushBegin, Go
    <2>2. task' = [at |-> "flush", frame |-> task.frame, caps |-> task.caps]
      BY <2>1 DEF VidInv, FieldsOK
    <2>3. FieldsOK'
      BY <1>0, <2>1, <2>2 DEF VidInv, FieldsOK
    <2>4. QED
      BY <1>0, <2>1, <2>2, <2>3
      DEF VidInv, CapsInv, PictureInv, TaskInv, DrainComplete, NullFrameAtDrain
  <1>7. CASE DownstreamFails
    <2>1. /\ UNCHANGED <<settings, dec, codec, lock, task, hist, count>>
          /\ srcpad' \in {"flushing", "error"}
      BY <1>7 DEF DownstreamFails
    <2>2. FieldsOK'
      BY <1>0, <2>1 DEF VidInv, FieldsOK
    <2>3. QED
      BY <1>0, <2>1, <2>2
      DEF VidInv, CapsInv, PictureInv, TaskInv, DrainComplete, NullFrameAtDrain
  <1>8. QED
    BY <1>1, <1>2, <1>3, <1>4, <1>5, <1>6, <1>7, <1>9

-----------------------------------------------------------------------------
(* Steps that leave the fields of the element alone. *)
LEMMA WorkKeeps ==
  ASSUME VidInv, UNCHANGED <<settings, dec, srcpad, count>>,
         status = "ok", status' = "ok",
         codec' = [state |-> codec'.state, ready |-> codec'.ready],
         task' = [at |-> task'.at, frame |-> task'.frame, caps |-> task'.caps],
         hist' = [leaked |-> hist'.leaked,
                  out |-> hist'.out, adopted |-> hist'.adopted, why |-> hist'.why],
         TaskInv', DrainComplete'
  PROVE  VidInv'
  <1>1. FieldsOK'
    BY DEF VidInv, FieldsOK
  <1>2. CapsInv' /\ PictureInv' /\ NullFrameAtDrain'
    BY DEF VidInv, CapsInv, PictureInv, NullFrameAtDrain
  <1>3. QED
    BY <1>1, <1>2 DEF VidInv

(* What the history keeps of a picture. *)
LEMMA HistoryOf ==
  ASSUME VidInv, NEW a, NEW o, NEW w
  PROVE  [[hist EXCEPT !.adopted = a] EXCEPT !.out = o, !.why = w]
            = [leaked |-> hist.leaked, out |-> o,
               adopted |-> a, why |-> w]
  <1> DEFINE h1 == [hist EXCEPT !.adopted = a]
             h2 == [h1 EXCEPT !.out = o]
             h3 == [h2 EXCEPT !.why = w]
  <1>1. hist = [leaked |-> hist.leaked, out |-> hist.out,
                adopted |-> hist.adopted, why |-> hist.why]
    BY DEF VidInv, FieldsOK
  <1>2. h1 = [hist EXCEPT !.adopted = a] /\ h2 = [h1 EXCEPT !.out = o]
        /\ h3 = [h2 EXCEPT !.why = w]
    OBVIOUS
  <1>3. h3 = [leaked |-> hist.leaked, out |-> o, adopted |-> a, why |-> w]
    <2> HIDE DEF h1, h2, h3
    <2> QED
      BY <1>1, <1>2
  <1>4. QED
    BY <1>3

LEMMA DropHistory ==
  ASSUME VidInv, NEW p, NEW d, NEW no, NEW w, DropPicture(p, d, no, w)
  PROVE  hist' = [leaked |-> hist.leaked, out |-> "none",
                  adopted |-> hist.adopted
                     \/ (pool'.internal # pool.internal /\ pool.format # p.format),
                  why |-> IF Draining THEN w ELSE hist.why]
  <1> DEFINE a == hist.adopted \/ (pool'.internal # pool.internal /\ pool.format # p.format)
             h1 == [hist EXCEPT !.adopted = a]
             v == IF Draining THEN w ELSE hist.why
  <1>1. hist' = [h1 EXCEPT !.out = "none", !.why = IF Draining THEN w ELSE h1.why]
    BY DEF DropPicture, Adopting
  <1>2. h1 = [hist EXCEPT !.adopted = a]
    OBVIOUS
  <1>3. h1.why = hist.why
    <2> HIDE DEF a
    <2> QED
      BY DEF VidInv, FieldsOK
  <1>4. hist' = [h1 EXCEPT !.out = "none", !.why = v]
    BY <1>1, <1>3
  <1> HIDE DEF a, v
  <1>5. hist' = [leaked |-> hist.leaked, out |-> "none", adopted |-> a, why |-> v]
    BY <1>4, HistoryOf
  <1>6. QED
    BY <1>5 DEF a, v

LEMMA ConfigureStep == VidInv /\ Configure => VidInv'
  <1> SUFFICES ASSUME VidInv, Configure PROVE VidInv'
    OBVIOUS
  <1>1. /\ UNCHANGED <<settings, srcpad, hist, status, count>>
        /\ status = "ok" /\ task.at = "configure" /\ dec' = Configured(task.caps)
        /\ task' = [task EXCEPT !.at = "idle"]
    BY DEF Configure, Go, At
  <1>2. task.caps \in InCaps /\ task.caps \in InCaps \cup {None}
    BY <1>1 DEF VidInv, TaskInv
  <1>3. /\ dec' = [started |-> dec'.started, accepted |-> dec'.accepted,
                   opened |-> dec'.opened, last_caps |-> dec'.last_caps,
                   input_state |-> dec'.input_state,
                   output_state |-> dec'.output_state, pic |-> dec'.pic]
        /\ CapsInv' /\ PictureInv'
    BY <1>1, <1>2, ConfiguredCaps
  <1>4. codec' = [state |-> codec'.state, ready |-> codec'.ready]
    <2>1. PICK state : codec' = [codec EXCEPT !.state = state]
      BY DEF Configure
    <2>2. QED
      BY <2>1 DEF VidInv, FieldsOK
  <1>5. task' = [at |-> "idle", frame |-> task.frame, caps |-> task.caps]
    BY <1>1 DEF VidInv, FieldsOK
  <1>6. FieldsOK'
    BY <1>1, <1>3, <1>4, <1>5 DEF VidInv, FieldsOK
  <1>7. TaskInv' /\ DrainComplete' /\ NullFrameAtDrain'
    BY <1>1, <1>2, <1>5 DEF TaskInv, DrainComplete, NullFrameAtDrain
  <1>8. QED
    BY <1>3, <1>6, <1>7 DEF VidInv

LEMMA SendStep ==
  VidInv /\ (SendPacket \/ AskHere \/ AskElsewhere \/ Sent) => VidInv'
  <1> SUFFICES ASSUME VidInv, SendPacket \/ AskHere \/ AskElsewhere \/ Sent
               PROVE  VidInv'
    OBVIOUS
  <1>1. /\ UNCHANGED <<settings, dec, srcpad, status, count>> /\ status = "ok"
    BY DEF SendPacket, AskHere, AskElsewhere, Sent, At
  <1>2. /\ codec = [state |-> codec.state, ready |-> codec.ready]
        /\ task = [at |-> task.at, frame |-> task.frame, caps |-> task.caps]
        /\ hist = [leaked |-> hist.leaked, out |-> hist.out,
                   adopted |-> hist.adopted, why |-> hist.why]
    BY DEF VidInv, FieldsOK
  <1>3. CASE SendPacket
    <2>1. /\ codec' = codec /\ hist' = hist /\ task.at = "send"
          /\ \E to \in {"idle", "wait", "ask"} : task' = [task EXCEPT !.at = to]
      BY <1>3 DEF SendPacket, At, Go
    <2>2. task.frame # 0 /\ task.caps \in InCaps \cup {None}
      BY <2>1 DEF VidInv, TaskInv
    <2>3. /\ task' = [at |-> task'.at, frame |-> task.frame, caps |-> task.caps]
          /\ task'.at \in {"idle", "wait", "ask"}
      BY <1>2, <2>1, <2>2
    <2>5. TaskInv' /\ DrainComplete'
      BY <2>2, <2>3 DEF TaskInv, DrainComplete
    <2>6. QED
      BY <1>1, <1>2, <2>1, <2>3, <2>5, WorkKeeps
  <1>4. CASE AskHere \/ AskElsewhere
    <2>1. /\ codec' = codec \/ \E r : codec' = [codec EXCEPT !.ready = r]
          /\ hist' = hist \/ \E l : hist' = [hist EXCEPT !.leaked = l]
      BY <1>4 DEF AskHere, AskElsewhere, GetBuffer
    <2>2. codec' = [state |-> codec'.state, ready |-> codec'.ready]
      BY <1>2, <2>1
    <2>3. hist' = [leaked |-> hist'.leaked,
                   out |-> hist'.out, adopted |-> hist'.adopted, why |-> hist'.why]
      BY <1>2, <2>1
    <2>4. \/ task' = task /\ ~lock /\ lock' = lock
          \/ /\ task' = [at |-> "receive", frame |-> task.frame, caps |-> task.caps]
             /\ task.frame # 0 /\ lock'
      <3>1. CASE AskHere
        BY <1>2, <3>1 DEF AskHere, At, Go, VidInv, TaskInv
      <3>2. CASE AskElsewhere
        BY <3>2 DEF AskElsewhere
      <3>3. QED
        BY <1>4, <3>1, <3>2
    <2>7. codec'.state = codec.state
      BY <1>2, <2>1
    <2>5. TaskInv' /\ DrainComplete'
      BY <2>4, <2>7 DEF VidInv, TaskInv, DrainComplete
    <2>6. QED
      BY <1>1, <1>2, <2>2, <2>3, <2>4, <2>5, WorkKeeps
  <1>5. CASE Sent
    <2>1. /\ UNCHANGED <<codec, hist>> /\ task.at = "wait" /\ lock'
          /\ task' = [task EXCEPT !.at = "receive"]
      BY <1>5 DEF Sent, At, Go
    <2>2. task' = [at |-> "receive", frame |-> task.frame, caps |-> task.caps]
          /\ task.frame # 0
      BY <1>2, <2>1 DEF VidInv, TaskInv
    <2>3. TaskInv' /\ DrainComplete'
      BY <2>1, <2>2 DEF VidInv, TaskInv, DrainComplete
    <2>4. QED
      BY <1>1, <1>2, <2>1, <2>2, <2>3, WorkKeeps
  <1>6. QED
    BY <1>3, <1>4, <1>5

LEMMA DrainStep == VidInv /\ (DrainBegin \/ DrainRefused \/ DrainEnd) => VidInv'
  <1> SUFFICES ASSUME VidInv, DrainBegin \/ DrainRefused \/ DrainEnd PROVE VidInv'
    OBVIOUS
  <1>1. /\ UNCHANGED <<settings, dec, srcpad, status, count>> /\ status = "ok"
        /\ task.at \in {"drain", "drained"}
    BY DEF DrainBegin, DrainRefused, DrainEnd, At
  <1>2. /\ codec = [state |-> codec.state, ready |-> codec.ready]
        /\ task = [at |-> task.at, frame |-> task.frame, caps |-> task.caps]
        /\ hist = [leaked |-> hist.leaked, out |-> hist.out,
                   adopted |-> hist.adopted, why |-> hist.why]
        /\ lock /\ task.caps \in InCaps \cup {None}
    BY <1>1 DEF VidInv, FieldsOK, TaskInv
  <1>3. CASE DrainBegin
    <2>1. /\ codec' = [codec EXCEPT !.state = "draining"] /\ lock' = lock
          /\ task' = [task EXCEPT !.at = "receive"] /\ hist' = [hist EXCEPT !.why = "end"]
      BY <1>3 DEF DrainBegin, Go
    <2>2. /\ codec' = [state |-> "draining", ready |-> codec.ready]
          /\ task' = [at |-> "receive", frame |-> task.frame, caps |-> task.caps]
          /\ hist' = [leaked |-> hist.leaked, out |-> hist.out,
                      adopted |-> hist.adopted, why |-> "end"]
      BY <1>2, <2>1
    <2>3. TaskInv' /\ DrainComplete'
      BY <1>1, <1>2, <2>1, <2>2 DEF TaskInv, DrainComplete
    <2>4. QED
      BY <1>1, <2>2, <2>3, WorkKeeps
  <1>4. CASE DrainEnd
    <2>1. /\ codec' = Flushed /\ hist' = [hist EXCEPT !.why = "end"]
          /\ \/ task' = [task EXCEPT !.at = "idle"]
             \/ task.caps # None /\ task' = [task EXCEPT !.at = "configure"]
      BY <1>4 DEF DrainEnd, Go
    <2>2. /\ codec' = [state |-> codec'.state, ready |-> codec'.ready]
          /\ task' = [at |-> task'.at, frame |-> task.frame, caps |-> task.caps]
          /\ task'.at = "idle" \/ (task'.at = "configure" /\ task.caps \in InCaps)
      BY <1>2, <2>1 DEF Flushed
    <2>3. hist' = [leaked |-> hist.leaked, out |-> hist.out,
                   adopted |-> hist.adopted, why |-> "end"]
      BY <1>2, <2>1
    <2>4. TaskInv' /\ DrainComplete'
      BY <1>1, <1>2, <2>2 DEF TaskInv, DrainComplete
    <2>5. QED
      BY <1>1, <2>2, <2>3, <2>4, WorkKeeps
  <1>5. CASE DrainRefused
    <2>1. PICK state : codec' = [codec EXCEPT !.state = state]
      BY <1>5 DEF DrainRefused
    <2>2. \/ /\ task' = [task EXCEPT !.at = "drained"] /\ lock' = lock
             /\ hist' = [hist EXCEPT !.why = "unsent"]
          \/ task' = [task EXCEPT !.at = "idle"] /\ hist' = hist
      BY <1>5 DEF DrainRefused, Go
    <2>3. codec' = [state |-> codec'.state, ready |-> codec'.ready]
      BY <1>2, <2>1
    <2>4. \/ /\ task' = [at |-> "drained", frame |-> task.frame, caps |-> task.caps]
             /\ lock'
             /\ hist' = [leaked |-> hist.leaked, out |-> hist.out,
                         adopted |-> hist.adopted, why |-> "unsent"]
          \/ /\ task' = [at |-> "idle", frame |-> task.frame, caps |-> task.caps]
             /\ hist' = hist
      BY <1>2, <2>2
    <2>5. TaskInv' /\ DrainComplete'
      BY <1>2, <2>4 DEF TaskInv, DrainComplete
    <2>6. /\ task' = [at |-> task'.at, frame |-> task'.frame, caps |-> task'.caps]
          /\ hist' = [leaked |-> hist'.leaked, out |-> hist'.out,
                      adopted |-> hist'.adopted, why |-> hist'.why]
      BY <1>2, <2>4
    <2>7. QED
      BY <1>1, <2>3, <2>5, <2>6, WorkKeeps
  <1>6. QED
    BY <1>3, <1>4, <1>5

LEMMA NothingStep == VidInv /\ ReceiveNothing => VidInv'
  <1> SUFFICES ASSUME VidInv, ReceiveNothing PROVE VidInv'
    OBVIOUS
  <1>1. /\ UNCHANGED <<settings, dec, srcpad, status, count>> /\ status = "ok"
        /\ task.at = "receive" /\ Ends
    BY DEF ReceiveNothing, At
  <1>2. /\ codec = [state |-> codec.state, ready |-> codec.ready]
        /\ task = [at |-> task.at, frame |-> task.frame, caps |-> task.caps]
        /\ hist = [leaked |-> hist.leaked, out |-> hist.out,
                   adopted |-> hist.adopted, why |-> hist.why]
        /\ lock /\ task.caps \in InCaps \cup {None}
        /\ task.frame = 0 => codec.state = "draining"
    BY <1>1 DEF VidInv, FieldsOK, TaskInv
  <1>3. /\ task' = [at |-> task'.at, frame |-> task.frame, caps |-> task.caps]
        /\ task'.at = (IF task.frame = 0 THEN "drained" ELSE "idle")
        /\ task.frame = 0 => lock'
    BY <1>1, <1>2 DEF Ends, Draining, Go
  <1>4. \/ codec' = codec /\ hist' = hist /\ (task.frame = 0 => codec.ready = <<>>)
        \/ codec' = [codec EXCEPT !.ready = Tail(codec.ready)]
           /\ hist' = [hist EXCEPT !.why = IF task.frame = 0 THEN "bad" ELSE @]
    BY <1>2 DEF ReceiveNothing, Draining
  <1>5. /\ codec' = [state |-> codec'.state, ready |-> codec'.ready]
        /\ hist' = [leaked |-> hist'.leaked,
                    out |-> hist'.out, adopted |-> hist'.adopted, why |-> hist'.why]
        /\ (task.frame = 0 /\ codec'.ready = <<>>) \/ hist'.why = "bad" \/ task.frame # 0
    BY <1>2, <1>4
  <1>6. TaskInv' /\ DrainComplete'
    BY <1>1, <1>2, <1>3, <1>5 DEF TaskInv, DrainComplete
  <1>7. QED
    BY <1>1, <1>3, <1>5, <1>6, WorkKeeps

(* A picture is pushed or dropped; only a drop without an output state,    *)
(* with a downstream that is gone or for a copy costs a drain its flag.    *)
LEMMA PictureStep == VidInv /\ ReceivePicture => VidInv'
  <1> SUFFICES ASSUME VidInv, ReceivePicture PROVE VidInv'
    OBVIOUS
  <1>1. /\ UNCHANGED <<settings, srcpad, count>> /\ status = "ok"
        /\ task.at = "receive"
        /\ codec' = [codec EXCEPT !.ready = Tail(codec.ready)]
    BY DEF ReceivePicture, At
  <1> DEFINE p == Head(codec.ready)
             r == Negotiated(p)
  <1>2. \/ ~r.ok /\ DropPicture(p, r.dec, FALSE, "error")
        \/ /\ r.ok /\ (r.dec.output_state = None \/ srcpad # "ok")
           /\ DropPicture(p, r.dec, TRUE, "error")
        \/ DropPicture(p, r.dec, TRUE, "copy")
        \/ \E copy \in BOOLEAN : Push(p, r.dec, copy)
    BY DEF ReceivePicture, Copies
  <1>3. dec' = r.dec
    BY <1>2 DEF DropPicture, Push
  <1> HIDE DEF p
  <1>4. /\ dec' = [started |-> dec'.started, accepted |-> dec'.accepted,
                   opened |-> dec'.opened, last_caps |-> dec'.last_caps,
                   input_state |-> dec'.input_state,
                   output_state |-> dec'.output_state, pic |-> dec'.pic]
        /\ CapsInv' /\ PictureInv'
        /\ r.ok /\ dec'.output_state = None => dec'.pic \notin Supported
    BY <1>1, <1>3, NegotiatedPicture
  <1> HIDE DEF r
  <1>5. /\ codec' = [state |-> codec.state, ready |-> codec'.ready]
        /\ task = [at |-> task.at, frame |-> task.frame, caps |-> task.caps]
        /\ lock /\ task.caps \in InCaps \cup {None}
        /\ task.frame = 0 => codec.state = "draining"
        /\ srcpad \in {"ok", "flushing", "error"}
    BY <1>1 DEF VidInv, FieldsOK, TaskInv
  <1>14. ASSUME NEW no \in BOOLEAN, NEW w \in {"error", "copy"},
                DropPicture(p, r.dec, no, w)
         PROVE  /\ Ends
                /\ \E a : hist' = [leaked |-> hist.leaked, out |-> "none", adopted |-> a,
                                   why |-> IF task.frame = 0 THEN w ELSE hist.why]
    <2>1. \E a : hist' = [leaked |-> hist.leaked, out |-> "none", adopted |-> a,
                          why |-> IF Draining THEN w ELSE hist.why]
      BY <1>14, DropHistory
    <2>2. Ends
      BY <1>14 DEF DropPicture
    <2>3. QED
      BY <2>1, <2>2 DEF Draining
  <1>6. /\ \/ task' = task /\ lock' = lock
           \/ Ends /\ (task.frame = 0 => hist'.why \in {"error", "flushing", "copy"})
        /\ hist' = [leaked |-> hist'.leaked,
                    out |-> hist'.out, adopted |-> hist'.adopted, why |-> hist'.why]
    <2> USE DEF Draining
    <2>1. CASE \E no \in BOOLEAN, w \in {"error", "copy"} : DropPicture(p, r.dec, no, w)
      <3>1. PICK no \in BOOLEAN, w \in {"error", "copy"} : DropPicture(p, r.dec, no, w)
        BY <2>1
      <3>2. Ends /\ \E a : hist' = [leaked |-> hist.leaked, out |-> "none", adopted |-> a,
                                    why |-> IF task.frame = 0 THEN w ELSE hist.why]
        BY <1>14, <3>1
      <3>3. QED
        BY <3>2
    <2>2. CASE \E copy \in BOOLEAN : Push(p, r.dec, copy)
      <3>1. PICK a, o : hist' = [[hist EXCEPT !.adopted = a] EXCEPT
                !.out = o, !.why = IF task.frame = 0 /\ srcpad # "ok" THEN srcpad ELSE @]
        BY <2>2 DEF Push, Adopting
      <3>2. hist' = [leaked |-> hist.leaked, out |-> o, adopted |-> a,
                     why |-> IF task.frame = 0 /\ srcpad # "ok" THEN srcpad ELSE hist.why]
        <4>1. [[hist EXCEPT !.adopted = a] EXCEPT !.out = o].why = hist.why
          BY DEF VidInv, FieldsOK
        <4>2. QED
          BY <3>1, <4>1, HistoryOf
      <3>3. srcpad = "ok" => task' = task /\ lock' = lock
        BY <2>2 DEF Push, PushNext
      <3>4. (task' = task /\ lock' = lock) \/ Ends
        BY <2>2 DEF Push, PushNext
      <3>5. QED
        BY <1>5, <3>2, <3>3, <3>4
    <2>3. QED
      BY <1>2, <2>1, <2>2
  <1>7. /\ task' = [at |-> task'.at, frame |-> task.frame, caps |-> task.caps]
        /\ task' = task \/ task'.at = (IF task.frame = 0 THEN "drained" ELSE "idle")
        /\ task'.at \in {"receive", "drained"} => lock'
    BY <1>1, <1>5, <1>6 DEF Ends, Draining, Go
  <1>8. /\ status' \in {"ok", "null frame"}
        /\ status' # "ok" => \/ srcpad # "ok" \/ (r.ok /\ r.dec.output_state = None)
                             \/ hist'.why = "copy"
    <2>1. CASE DropPicture(p, r.dec, TRUE, "copy")
      <3>1. \E a : hist' = [leaked |-> hist.leaked, out |-> "none", adopted |-> a,
                            why |-> IF task.frame = 0 THEN "copy" ELSE hist.why]
        <4>1. TRUE \in BOOLEAN /\ "copy" \in {"error", "copy"}
          OBVIOUS
        <4>2. QED
          BY <1>14, <2>1, <4>1
      <3>2. status' = IF task.frame = 0 THEN "null frame" ELSE "ok"
        BY <2>1 DEF DropPicture, Draining
      <3>3. hist'.why = IF task.frame = 0 THEN "copy" ELSE hist.why
        BY <3>1
      <3>4. QED
        BY <3>2, <3>3
    <2>2. CASE ~DropPicture(p, r.dec, TRUE, "copy")
      BY <1>1, <1>2, <2>2 DEF DropPicture, Push
    <2>3. QED
      BY <2>1, <2>2
  <1>9. FieldsOK'
    BY <1>1, <1>4, <1>5, <1>6, <1>7, <1>8 DEF VidInv, FieldsOK
  <1>10. NullFrameAtDrain'
    BY <1>1, <1>3, <1>4, <1>8 DEF NullFrameAtDrain
  <1>11. TaskInv'
    BY <1>1, <1>5, <1>7 DEF TaskInv
  <1>12. DrainComplete'
    BY <1>1, <1>6, <1>7 DEF DrainComplete
  <1>13. QED
    BY <1>4, <1>9, <1>10, <1>11, <1>12 DEF VidInv

LEMMA InvStep == VidInv /\ [Next]_vars => VidInv'
  <1> SUFFICES ASSUME VidInv, [Next]_vars PROVE VidInv'
    OBVIOUS
  <1>1. CASE UNCHANGED vars
    <2>1. UNCHANGED <<settings, dec, codec, task, lock, srcpad, hist, status, count>>
      BY <1>1 DEF vars
    <2>2. FieldsOK'
      BY <2>1 DEF VidInv, FieldsOK
    <2>3. CapsInv' /\ PictureInv' /\ TaskInv'
      BY <2>1 DEF VidInv, CapsInv, PictureInv, TaskInv
    <2>4. DrainComplete' /\ NullFrameAtDrain'
      BY <2>1 DEF VidInv, DrainComplete, NullFrameAtDrain
    <2>5. QED
      BY <2>2, <2>3, <2>4 DEF VidInv
  <1>2. QED
    BY <1>1, OutsideStep, ConfigureStep, SendStep, DrainStep, NothingStep, PictureStep
    DEF Next, Work

(* Caps, pictures and task go together (gstavviddec.c).                    *)
THEOREM InvHolds == Spec => []VidInv
  BY InvInit, InvStep, PTL DEF Spec

(* Accepted caps have an open codec, but for NAL-aligned caps that were    *)
(* refused for frame threading and sent again (gst_ffmpegviddec_set_format *)
(* and open).                                                              *)
THEOREM AcceptsOpen == Spec => []AcceptedIsOpen
  <1>1. VidInv => AcceptedIsOpen
    BY DEF VidInv, CapsInv, AcceptedIsOpen
  <1>2. QED
    BY <1>1, InvHolds, PTL

(* A drain leaves pictures behind only when downstream stopped taking      *)
(* them, after one that could not be copied or decoded, or when the null   *)
(* packet was refused (gst_ffmpegviddec_drain and _finish).                *)
THEOREM DrainsAll == Spec => []DrainComplete
  <1>1. VidInv => DrainComplete
    BY DEF VidInv
  <1>2. QED
    BY <1>1, InvHolds, PTL

(* The frame that is not there in a drain is touched only when downstream  *)
(* is gone, with a format GStreamer has not, or for a copy that failed     *)
(* (no_output in gst_ffmpegviddec_video_frame).                            *)
THEOREM NullFrameOnlyThen == Spec => []NullFrameAtDrain
  <1>1. VidInv => NullFrameAtDrain
    BY DEF VidInv
  <1>2. QED
    BY <1>1, InvHolds, PTL

-----------------------------------------------------------------------------
(* What is pushed, and the frames of the pictures                          *)

PoolT == [format : Formats, peer : BOOLEAN] \cup {None}
PictureT == [frame : Nat, format : Formats, buffer : PoolT]

(* Unless downstream's pool was adopted under another format, the internal *)
(* pool is of the format it was made for, and a picture of the format that *)
(* was negotiated last is copied to a pool of that format.                 *)
OutputInv ==
  /\ pool \in [internal : PoolT, used : PoolT, format : Formats \cup {None}]
  /\ codec.ready \in Seq(PictureT)
  /\ ~hist.adopted =>
       /\ pool.internal # None => pool.internal.format = pool.format
       /\ dec.pic \in Supported => pool.used.format = dec.pic
  /\ OutputMatches

(* Only an open codec takes packets and has pictures; a new one has none,  *)
(* and its thread has nothing in hand when it drains or is closed.         *)
CodecInv ==
  /\ codec.state = "open" => dec.opened
  /\ task.at \in {"ask", "wait", "receive", "drain", "drained"} => dec.opened
  /\ ~dec.opened \/ task.at = "configure" => codec.ready = <<>>
  /\ asking # 0 =>
       codec.state = "open" /\ task.at \notin {"ask", "drained", "configure"}

Fresh(n) == n \in 1..count.frames /\ n \notin PictureFrames \cup hist.leaked

(* Every picture is of a frame of its own, that was handed in and is not   *)
(* lost; a frame has no picture until its buffer was given.                *)
FrameInv ==
  /\ DOMAIN frames \cup PictureFrames \cup hist.leaked \subseteq 1..count.frames
  /\ \A i, j \in DOMAIN codec.ready :
       codec.ready[i].frame = codec.ready[j].frame => i = j
  /\ PictureFrames \cap hist.leaked = {}
  /\ asking # 0 => Fresh(asking)
  /\ task.at \in {"send", "ask"} => Fresh(task.frame) /\ task.frame # asking
  /\ RealFrames

LEMMA ReadyTail ==
  ASSUME NEW r \in Seq(PictureT), r # <<>>
  PROVE  /\ Head(r) \in PictureT /\ Head(r) = r[1] /\ Tail(r) \in Seq(PictureT)
         /\ DOMAIN r = 1..Len(r) /\ Len(r) \in Nat \ {0}
         /\ DOMAIN Tail(r) = 1..(Len(r) - 1)
         /\ \A i \in DOMAIN Tail(r) : Tail(r)[i] = r[i + 1]
  OBVIOUS

(* Without its first picture, a codec has the frames of all but that one.  *)
LEMMA TailFrames ==
  ASSUME NEW r \in Seq(PictureT), r # <<>>,
         \A i, j \in DOMAIN r : r[i].frame = r[j].frame => i = j
  PROVE  /\ {Tail(r)[i].frame : i \in DOMAIN Tail(r)}
            = {r[i].frame : i \in DOMAIN r} \ {Head(r).frame}
         /\ Head(r).frame \in {r[i].frame : i \in DOMAIN r}
         /\ \A i, j \in DOMAIN Tail(r) : Tail(r)[i].frame = Tail(r)[j].frame => i = j
  <1> DEFINE n == Len(r)
  <1>1. /\ Head(r) = r[1] /\ DOMAIN r = 1..n /\ n \in Nat \ {0}
        /\ DOMAIN Tail(r) = 1..(n - 1)
        /\ \A i \in DOMAIN Tail(r) : Tail(r)[i] = r[i + 1]
    BY ReadyTail
  <1> HIDE DEF n
  <1>2. 1 \in DOMAIN r
    BY <1>1
  <1>3. \A i \in DOMAIN Tail(r) : i + 1 \in DOMAIN r /\ i + 1 # 1
    BY <1>1
  <1>4. \A i \in DOMAIN r : i # 1 => i - 1 \in DOMAIN Tail(r) /\ (i - 1) + 1 = i
    BY <1>1
  <1>5. ASSUME NEW x \in {Tail(r)[i].frame : i \in DOMAIN Tail(r)}
        PROVE  x \in {r[i].frame : i \in DOMAIN r} \ {Head(r).frame}
    <2>1. PICK i \in DOMAIN Tail(r) : x = r[i + 1].frame
      BY <1>1
    <2>2. QED
      BY <1>1, <1>2, <1>3, <2>1
  <1>6. ASSUME NEW x \in {r[i].frame : i \in DOMAIN r} \ {Head(r).frame}
        PROVE  x \in {Tail(r)[i].frame : i \in DOMAIN Tail(r)}
    <2>1. PICK i \in DOMAIN r : x = r[i].frame
      OBVIOUS
    <2>2. i # 1
      BY <1>1, <2>1
    <2>3. i - 1 \in DOMAIN Tail(r) /\ Tail(r)[i - 1] = r[i]
      BY <1>1, <1>4, <2>2
    <2>4. QED
      BY <2>1, <2>3
  <1>7. \A i, j \in DOMAIN Tail(r) : Tail(r)[i].frame = Tail(r)[j].frame => i = j
    <2> SUFFICES ASSUME NEW i \in DOMAIN Tail(r), NEW j \in DOMAIN Tail(r),
                        Tail(r)[i].frame = Tail(r)[j].frame
                 PROVE  i = j
      OBVIOUS
    <2>1. i + 1 = j + 1
      BY <1>1, <1>3
    <2>2. QED
      BY <1>1, <2>1
  <1>8. QED
    BY <1>1, <1>2, <1>5, <1>6, <1>7

LEMMA AppendFrames ==
  ASSUME NEW r \in Seq(PictureT), NEW p \in PictureT,
         \A i, j \in DOMAIN r : r[i].frame = r[j].frame => i = j,
         p.frame \notin {r[i].frame : i \in DOMAIN r}
  PROVE  /\ Append(r, p) \in Seq(PictureT)
         /\ {Append(r, p)[i].frame : i \in DOMAIN Append(r, p)}
            = {r[i].frame : i \in DOMAIN r} \cup {p.frame}
         /\ \A i, j \in DOMAIN Append(r, p) :
              Append(r, p)[i].frame = Append(r, p)[j].frame => i = j
  <1> DEFINE n == Len(r)
             q == Append(r, p)
  <1>1. /\ q \in Seq(PictureT) /\ n \in Nat
        /\ DOMAIN r = 1..n /\ DOMAIN q = 1..(n + 1)
        /\ q[n + 1] = p /\ \A i \in 1..n : q[i] = r[i]
    OBVIOUS
  <1> HIDE DEF n, q
  <1>2. DOMAIN q = DOMAIN r \cup {n + 1} /\ n + 1 \notin DOMAIN r
    BY <1>1
  <1>3. {q[i].frame : i \in DOMAIN q} = {r[i].frame : i \in DOMAIN r} \cup {p.frame}
    BY <1>1, <1>2
  <1>4. \A i, j \in DOMAIN q : q[i].frame = q[j].frame => i = j
    <2> SUFFICES ASSUME NEW i \in DOMAIN q, NEW j \in DOMAIN q, q[i].frame = q[j].frame
                 PROVE  i = j
      OBVIOUS
    <2>1. CASE i \in DOMAIN r /\ j \in DOMAIN r
      BY <1>1, <2>1
    <2>2. CASE i = n + 1 /\ j \in DOMAIN r
      BY <1>1, <2>2
    <2>3. CASE i \in DOMAIN r /\ j = n + 1
      BY <1>1, <2>3
    <2>4. QED
      BY <1>2, <2>1, <2>2, <2>3
  <1>5. QED
    BY <1>1, <1>3, <1>4 DEF q

(* The frames of the base class that are not void. *)
Real(fs) == {n \in DOMAIN fs : ~fs[n]}

LEMMA RealWithout ==
  ASSUME NEW fs, NEW gone
  PROVE  /\ Real(Without(fs, gone)) = Real(fs) \ gone
         /\ DOMAIN Without(fs, gone) = DOMAIN fs \ gone
  BY DEF Real, Without

FlowInv == OutputInv /\ CodecInv /\ FrameInv

LEMMA FlowInit == Init => FlowInv
  <1> SUFFICES ASSUME Init PROVE FlowInv
    OBVIOUS
  <1> USE DEF Init
  <1>1. pool \in [internal : PoolT, used : PoolT, format : Formats \cup {None}]
        /\ pool.internal = None
    BY DEF NoPools, PoolT
  <1>2. codec.ready = <<>> /\ codec.ready \in Seq(PictureT) /\ codec.state = "closed"
    OBVIOUS
  <1>3. dec.pic \notin Supported /\ ~dec.opened
    BY NoneIsNothing DEF Closed
  <1>4. OutputInv /\ CodecInv
    BY <1>1, <1>2, <1>3 DEF OutputInv, OutputMatches, CodecInv
  <1>5. DOMAIN frames = {} /\ PictureFrames = {} /\ hist.leaked = {}
    BY <1>2 DEF NoFrames, PictureFrames
  <1>6. FrameInv
    BY <1>2, <1>5 DEF FrameInv, RealFrames
  <1>7. QED
    BY <1>4, <1>6 DEF FlowInv

(* Steps that neither push nor negotiate.                                  *)
LEMMA OutputKept ==
  ASSUME OutputInv, dec'.pic \in {dec.pic, None}, codec'.ready \in Seq(PictureT),
         pool' = pool, hist'.adopted = hist.adopted, hist'.out \in {hist.out, "none"}
  PROVE  OutputInv'
  BY NoneIsNothing DEF OutputInv, OutputMatches

(* Steps that neither give nor take pictures, and take no frame in hand.   *)
LEMMA FramesKept ==
  ASSUME FrameInv, UNCHANGED <<codec, frames, count>>, hist'.leaked = hist.leaked,
         status = "ok",
         asking' # 0 => asking' = asking \/ (task.at = "send" /\ asking' = task.frame),
         task'.at \in {"send", "ask"} =>
           /\ task.at \in {"send", "ask"} /\ task'.frame = task.frame
           /\ asking' \in {0, asking}
  PROVE  FrameInv'
  BY DEF FrameInv, RealFrames, PictureFrames, Fresh

(* The codec drops all its pictures.                                       *)
LEMMA FramesDropped ==
  ASSUME VidInv, FrameInv, codec'.ready = <<>>, count' = count, asking' = 0,
         task'.at \notin {"send", "ask"},
         \/ frames' = NoFrames /\ hist'.leaked = {}
         \/ status = "ok" /\ frames' = Without(frames, PictureFrames)
            /\ hist'.leaked = hist.leaked
  PROVE  FrameInv'
  <1>1. PictureFrames' = {} /\ DOMAIN codec'.ready = {}
    BY DEF PictureFrames
  <1>2. CASE frames' = NoFrames /\ hist'.leaked = {}
    BY <1>1, <1>2 DEF FrameInv, RealFrames, NoFrames, Fresh
  <1>3. CASE /\ status = "ok" /\ frames' = Without(frames, PictureFrames)
             /\ hist'.leaked = hist.leaked
    <2>1. Real(frames') = Real(frames) \ PictureFrames
          /\ DOMAIN frames' = DOMAIN frames \ PictureFrames
      BY <1>3, RealWithout
    <2>2. Real(frames) \ hist.leaked = PictureFrames
      BY <1>3 DEF FrameInv, RealFrames, Real
    <2>3. Real(frames') \ hist'.leaked = {}
      BY <1>3, <2>1, <2>2
    <2>4. QED
      BY <1>1, <1>3, <2>1, <2>3 DEF FrameInv, RealFrames, Real, Fresh
  <1>4. QED
    BY <1>2, <1>3

(* The codec gives its first picture, whose frame goes, or had gone, with  *)
(* others that no buffer was wanted for.                                   *)
LEMMA FrameGiven ==
  ASSUME VidInv, OutputInv, FrameInv, codec.ready # <<>>,
         codec' = [codec EXCEPT !.ready = Tail(codec.ready)],
         NEW ghosts, \A n \in ghosts \cap DOMAIN frames : frames[n],
         frames' = Without(frames, ghosts \cup {Head(codec.ready).frame}),
         hist'.leaked = hist.leaked, UNCHANGED <<count, asking>>,
         task'.at \notin {"send", "ask"}, status = "ok"
  PROVE  FrameInv' /\ codec'.ready \in Seq(PictureT)
  <1> DEFINE x == Head(codec.ready).frame
  <1>1. codec.ready \in Seq(PictureT) /\ codec'.ready = Tail(codec.ready)
    BY DEF OutputInv, VidInv, FieldsOK
  <1>2. \A i, j \in DOMAIN codec.ready :
          codec.ready[i].frame = codec.ready[j].frame => i = j
    BY DEF FrameInv
  <1>3. /\ PictureFrames' = PictureFrames \ {x} /\ x \in PictureFrames
        /\ \A i, j \in DOMAIN codec'.ready :
             codec'.ready[i].frame = codec'.ready[j].frame => i = j
    <2> DEFINE r == codec.ready
    <2>1. /\ r \in Seq(PictureT) /\ r # <<>>
          /\ \A i, j \in DOMAIN r : r[i].frame = r[j].frame => i = j
      BY <1>1, <1>2
    <2>2. /\ PictureFrames = {r[i].frame : i \in DOMAIN r} /\ x = Head(r).frame
          /\ PictureFrames' = {Tail(r)[i].frame : i \in DOMAIN Tail(r)}
          /\ codec'.ready = Tail(r)
      BY <1>1 DEF PictureFrames
    <2> HIDE DEF r, x
    <2>3. /\ {Tail(r)[i].frame : i \in DOMAIN Tail(r)}
             = {r[i].frame : i \in DOMAIN r} \ {Head(r).frame}
          /\ Head(r).frame \in {r[i].frame : i \in DOMAIN r}
          /\ \A i, j \in DOMAIN Tail(r) : Tail(r)[i].frame = Tail(r)[j].frame => i = j
      BY <2>1, TailFrames
    <2>4. QED
      BY <2>2, <2>3
  <1>4. codec'.ready \in Seq(PictureT)
    BY <1>1, ReadyTail
  <1>5. /\ Real(frames') = Real(frames) \ (ghosts \cup {x})
        /\ DOMAIN frames' = DOMAIN frames \ (ghosts \cup {x})
    BY RealWithout
  <1>6. ghosts \cap Real(frames) = {}
    BY DEF Real
  <1>7. Real(frames) \ hist.leaked = PictureFrames
    BY DEF FrameInv, RealFrames, Real
  <1>8. Real(frames') \ hist.leaked = PictureFrames'
    BY <1>3, <1>5, <1>6, <1>7 DEF FrameInv
  <1>9. QED
    BY <1>3, <1>4, <1>5, <1>8 DEF FrameInv, RealFrames, Real, Fresh

(* A buffer is given to the picture of a frame, or fails to be: the frame  *)
(* is real in either case.                                                 *)
LEMMA BufferStep ==
  ASSUME VidInv, OutputInv, FrameInv, NEW n, GetBuffer(n), Fresh(n),
         asking' = 0, status = "ok", UNCHANGED <<settings, dec, count>>,
         task'.at \in {"send", "ask"} =>
           task.at \in {"send", "ask"} /\ task'.frame = task.frame /\ n # task.frame
  PROVE  OutputInv' /\ FrameInv'
  <1>1. /\ n \in 1..count.frames /\ n \notin PictureFrames /\ n \notin hist.leaked
        /\ count.frames \in Nat /\ n \in Nat
    BY DEF Fresh, VidInv, FieldsOK
  <1>2. Real(frames) \ hist.leaked = PictureFrames
    BY DEF FrameInv, RealFrames, Real
  <1>3. Real(frames') = Real(frames) \cup {n} /\ DOMAIN frames' = DOMAIN frames
        /\ n \in DOMAIN frames
    BY DEF GetBuffer, Real
  <1>4. PICK f \in Formats :
          /\ pool' = IF settings.direct THEN InternalPool(f) ELSE pool
          /\ \/ /\ codec' = [codec EXCEPT !.ready = Append(@,
                               [frame |-> n, format |-> f,
                                buffer |-> IF settings.direct THEN pool'.internal
                                           ELSE None])]
                /\ UNCHANGED hist
             \/ /\ hist' = [hist EXCEPT !.leaked = @ \cup {n}]
                /\ UNCHANGED codec
    BY DEF GetBuffer
  <1>5. /\ pool \in [internal : PoolT, used : PoolT, format : Formats \cup {None}]
        /\ codec.ready \in Seq(PictureT)
    BY DEF OutputInv
  <1>6. Pool(f, FALSE) \in PoolT /\ Pool(f, FALSE).format = f
    BY DEF Pool, PoolT
  <1>7. /\ pool' \in [internal : PoolT, used : PoolT, format : Formats \cup {None}]
        /\ pool'.used = pool.used
        /\ \/ pool' = pool
           \/ pool'.internal.format = pool'.format
    <2>1. CASE pool' = pool
      BY <1>5, <2>1
    <2>2. CASE pool' = [pool EXCEPT !.internal = Pool(f, FALSE), !.format = f]
      BY <1>5, <1>6, <2>2
    <2>3. QED
      BY <1>4, <2>1, <2>2 DEF InternalPool
  <1>8. codec' = codec \/ \E r : codec' = [codec EXCEPT !.ready = r]
    BY <1>4
  <1>9. CASE /\ codec' = [codec EXCEPT !.ready = Append(@,
                            [frame |-> n, format |-> f,
                             buffer |-> IF settings.direct THEN pool'.internal ELSE None])]
             /\ UNCHANGED hist
    <2> DEFINE p == [frame |-> n, format |-> f,
                     buffer |-> IF settings.direct THEN pool'.internal ELSE None]
               r == codec.ready
    <2>1. p \in PictureT /\ p.frame = n
      BY <1>1, <1>7 DEF PictureT, PoolT
    <2>2. /\ r \in Seq(PictureT) /\ PictureFrames = {r[i].frame : i \in DOMAIN r}
          /\ \A i, j \in DOMAIN r : r[i].frame = r[j].frame => i = j
      BY <1>5 DEF PictureFrames, FrameInv
    <2>3. codec'.ready = Append(r, p)
      BY <1>9 DEF VidInv, FieldsOK
    <2>4. PictureFrames' = {Append(r, p)[i].frame : i \in DOMAIN Append(r, p)}
      BY <2>3 DEF PictureFrames
    <2> HIDE DEF p, r
    <2>5. /\ Append(r, p) \in Seq(PictureT)
          /\ {Append(r, p)[i].frame : i \in DOMAIN Append(r, p)}
             = {r[i].frame : i \in DOMAIN r} \cup {p.frame}
          /\ \A i, j \in DOMAIN Append(r, p) :
               Append(r, p)[i].frame = Append(r, p)[j].frame => i = j
      BY <1>1, <2>1, <2>2, AppendFrames
    <2>6. PictureFrames' = PictureFrames \cup {n}
      BY <2>1, <2>2, <2>4, <2>5
    <2>7. OutputInv'
      BY <1>7, <1>9, <2>3, <2>5 DEF OutputInv, OutputMatches
    <2>8. Real(frames') \ hist.leaked = PictureFrames'
      BY <1>1, <1>2, <1>3, <2>6
    <2>9. FrameInv'
      BY <1>1, <1>3, <1>9, <2>3, <2>5, <2>6, <2>8 DEF FrameInv, RealFrames, Real, Fresh
    <2>10. QED
      BY <2>7, <2>9
  <1>10. CASE hist' = [hist EXCEPT !.leaked = @ \cup {n}] /\ UNCHANGED codec
    <2>1. /\ hist'.leaked = hist.leaked \cup {n} /\ hist'.adopted = hist.adopted
          /\ hist'.out = hist.out
      BY <1>10 DEF VidInv, FieldsOK
    <2>2. PictureFrames' = PictureFrames
      BY <1>10 DEF PictureFrames
    <2>3. OutputInv'
      BY <1>5, <1>7, <1>10, <2>1 DEF OutputInv, OutputMatches
    <2>4. Real(frames') \ hist'.leaked = PictureFrames'
      BY <1>1, <1>2, <1>3, <2>1, <2>2
    <2>5. FrameInv'
      BY <1>1, <1>3, <1>10, <2>1, <2>2, <2>4 DEF FrameInv, RealFrames, Real, Fresh
    <2>6. QED
      BY <2>3, <2>5
  <1>11. QED
    BY <1>4, <1>9, <1>10

(* Only a frame that can be mapped goes to the codec.                      *)
LEMMA FrameHandled ==
  ASSUME VidInv, FrameInv, HandleFrame
  PROVE  FrameInv'
  <1> DEFINE n == count.frames + 1
  <1>1. /\ UNCHANGED <<codec, asking>> /\ task.at = "idle" /\ status = "ok"
        /\ count' = [count EXCEPT !.frames = n]
    BY DEF HandleFrame, Idle, At
  <1>2. count'.frames = n /\ count.frames \in Nat /\ n \notin 1..count.frames /\ n \in 1..n
        /\ 1..count.frames \subseteq 1..n
    BY <1>1 DEF VidInv, FieldsOK
  <1>3. PICK void \in BOOLEAN :
          /\ frames' = [k \in DOMAIN frames \cup {n} |-> IF k = n THEN void ELSE frames[k]]
          /\ IF void THEN /\ hist' = hist
                          /\ \/ task' = [at |-> "send", frame |-> n, caps |-> None]
                             \/ task' = task
                     ELSE /\ hist' = [hist EXCEPT !.leaked = @ \cup {n}]
                          /\ task' = task
    BY DEF HandleFrame
  <1> HIDE DEF n
  <1>4. PictureFrames' = PictureFrames /\ n \notin PictureFrames \cup hist.leaked
        /\ n \notin DOMAIN frames
    BY <1>1, <1>2 DEF FrameInv, PictureFrames
  <1>5. /\ hist'.leaked = IF void THEN hist.leaked ELSE hist.leaked \cup {n}
        /\ DOMAIN frames' = DOMAIN frames \cup {n}
        /\ Real(frames') = IF void THEN Real(frames) ELSE Real(frames) \cup {n}
    <2>1. hist'.leaked = IF void THEN hist.leaked ELSE hist.leaked \cup {n}
      BY <1>3 DEF VidInv, FieldsOK
    <2>2. QED
      BY <1>3, <1>4, <2>1 DEF Real
  <1>6. Real(frames) \ hist.leaked = PictureFrames
    BY <1>1 DEF FrameInv, RealFrames, Real
  <1>7. Real(frames') \ hist'.leaked = PictureFrames'
    BY <1>4, <1>5, <1>6
  <1>8. /\ task' = task \/ (task'.at = "send" /\ task'.frame = n)
        /\ task'.at = "send" => void
    BY <1>1, <1>3
  <1>9. QED
    BY <1>1, <1>2, <1>4, <1>5, <1>7, <1>8 DEF FrameInv, RealFrames, Real, Fresh

(* An open codec is behind every step from a packet to its pictures.       *)
LEMMA CodecStep == VidInv /\ OutputInv /\ CodecInv /\ [Next]_vars => CodecInv'
  <1> SUFFICES ASSUME VidInv, OutputInv, CodecInv, [Next]_vars PROVE CodecInv'
    OBVIOUS
  <1>1. /\ codec = [state |-> codec.state, ready |-> codec.ready]
        /\ task = [at |-> task.at, frame |-> task.frame, caps |-> task.caps]
        /\ dec = [started |-> dec.started, accepted |-> dec.accepted,
                  opened |-> dec.opened, last_caps |-> dec.last_caps,
                  input_state |-> dec.input_state, output_state |-> dec.output_state,
                  pic |-> dec.pic]
    BY DEF VidInv, FieldsOK
  <1>2. CASE Start \/ HandleFrame \/ DownstreamFails \/ Sent \/ UNCHANGED vars
    <2>1. codec' = codec /\ dec'.opened = dec.opened /\ asking' = asking
      BY <1>1, <1>2 DEF Start, HandleFrame, DownstreamFails, Sent, vars
    <2>2. \/ task'.at \in {task.at, "idle", "send"}
          \/ task.at = "wait" /\ task'.at = "receive"
      <3>1. CASE HandleFrame
        <4>1. \/ task' = task
              \/ task' = [at |-> "send", frame |-> count.frames + 1, caps |-> None]
          BY <3>1 DEF HandleFrame
        <4>2. QED
          BY <4>1
      <3>2. CASE Sent
        BY <1>1, <3>2 DEF Sent, At, Go
      <3>3. CASE Start \/ DownstreamFails \/ UNCHANGED vars
        BY <3>3 DEF Start, DownstreamFails, vars
      <3>4. QED
        BY <1>2, <3>1, <3>2, <3>3
    <2>3. QED
      BY <2>1, <2>2 DEF CodecInv
  <1>3. CASE Stop
    <2>1. codec'.ready = <<>> /\ codec'.state = "closed" /\ task' = task /\ task.at = "idle"
          /\ asking' = 0
      BY <1>3 DEF Stop, Idle, At
    <2>2. QED
      BY <2>1 DEF CodecInv
  <1>4. CASE SetFormat
    <2>1. /\ codec' = codec /\ dec'.opened = dec.opened /\ asking' = asking
          /\ task' = task \/ task'.at = IF dec.opened THEN "drain" ELSE "configure"
      BY <1>1, <1>4 DEF SetFormat
    <2>2. QED
      BY <2>1 DEF CodecInv
  <1>5. CASE Drain
    <2>1. codec' = codec /\ dec' = dec /\ dec.opened /\ task'.at = "drain"
          /\ asking' = asking
      BY <1>5 DEF Drain
    <2>2. QED
      BY <2>1 DEF CodecInv
  <1>6. CASE Flush
    <2>1. /\ dec' = dec /\ task'.at = "idle" /\ asking' = 0
          /\ codec' = codec \/ (dec.opened /\ codec' = Flushed)
      BY <1>1, <1>6 DEF Flush, Go
    <2>2. QED
      BY <2>1 DEF CodecInv, Flushed
  <1>7. CASE Configure
    <2>1. /\ codec.ready = <<>> /\ asking' = 0
          /\ codec' = [codec EXCEPT !.state = IF dec'.opened THEN "open" ELSE "closed"]
          /\ task' = [task EXCEPT !.at = "idle"]
      BY <1>7 DEF Configure, At, Go, CodecInv
    <2>2. codec'.ready = <<>> /\ (codec'.state = "open" => dec'.opened) /\ task'.at = "idle"
      BY <1>1, <2>1
    <2>3. QED
      BY <2>1, <2>2 DEF CodecInv
  <1>8. CASE SendPacket
    <2>1. /\ UNCHANGED <<codec, dec>> /\ task.at = "send"
          /\ \/ task' = [task EXCEPT !.at = "idle"] /\ asking' = asking
             \/ codec.state = "open" /\ task' = [task EXCEPT !.at = "wait"]
             \/ /\ codec.state = "open" /\ task' = [task EXCEPT !.at = "ask"]
                /\ asking' = 0
      BY <1>8 DEF SendPacket, At, Go, Refuses
    <2>2. \/ task'.at = "idle" /\ asking' = asking
          \/ codec.state = "open" /\ task'.at = "wait"
          \/ codec.state = "open" /\ task'.at = "ask" /\ asking' = 0
      BY <1>1, <2>1
    <2>3. QED
      BY <2>1, <2>2 DEF CodecInv
  <1>9. CASE AskHere \/ AskElsewhere
    <2>1. /\ dec' = dec /\ (task.at = "ask" \/ asking # 0)
          /\ codec' = codec \/ \E r : codec' = [codec EXCEPT !.ready = r]
      BY <1>9 DEF AskHere, AskElsewhere, At, GetBuffer
    <2>2. /\ task' = task \/ (task.at = "ask" /\ task'.at = "receive")
          /\ dec.opened /\ task.at # "configure" /\ asking' = 0
      BY <1>1, <1>9, <2>1 DEF AskHere, AskElsewhere, Go, At, CodecInv
    <2>3. codec'.state = codec.state
      BY <1>1, <2>1
    <2>4. QED
      BY <2>1, <2>2, <2>3 DEF CodecInv
  <1>10. CASE ReceivePicture \/ ReceiveNothing
    <2>1. /\ task.at = "receive" /\ (task' = task \/ Ends)
          /\ codec'.state = codec.state /\ asking' = asking
      BY <1>1, <1>10
      DEF ReceivePicture, ReceiveNothing, At, DropPicture, Push, PushNext
    <2>2. /\ task'.at \in {"receive", "drained", "idle"}
          /\ task'.at = "drained" => codec.state = "draining"
      BY <1>1, <2>1 DEF Ends, Go, Draining, VidInv, TaskInv
    <2>3. dec'.opened = dec.opened
      <3>1. CASE ReceiveNothing
        BY <3>1 DEF ReceiveNothing
      <3>2. CASE ReceivePicture
        <4>1. dec' = Negotiated(Head(codec.ready)).dec
          BY <3>2 DEF ReceivePicture, DropPicture, Push
        <4>2. QED
          BY <1>1, <4>1 DEF Negotiated, RefusedNegotiation
      <3>3. QED
        BY <1>10, <3>1, <3>2
    <2>4. QED
      BY <2>1, <2>2, <2>3 DEF CodecInv
  <1>11. CASE DrainBegin
    <2>1. dec' = dec /\ task.at = "drain" /\ task'.at = "receive" /\ codec'.state = "draining"
          /\ asking' = 0
      BY <1>1, <1>11 DEF DrainBegin, At, Go
    <2>2. QED
      BY <2>1 DEF CodecInv
  <1>12. CASE DrainEnd
    <2>1. dec' = dec /\ task.at = "drained" /\ task'.at \in {"idle", "configure"}
          /\ codec'.ready = <<>> /\ asking' = asking
      BY <1>1, <1>12 DEF DrainEnd, At, Go, Flushed
    <2>2. QED
      BY <2>1 DEF CodecInv
  <1>13. CASE FlushBegin
    <2>1. /\ UNCHANGED <<codec, dec, asking>> /\ task'.at = "flush"
      BY <1>1, <1>13 DEF FlushBegin, Go
    <2>2. QED
      BY <2>1 DEF CodecInv
  <1>14. CASE DrainRefused
    <2>1. PICK state \in {codec.state, "draining"} : codec' = [codec EXCEPT !.state = state]
      BY <1>14 DEF DrainRefused
    <2>2. codec'.state = state /\ codec'.ready = codec.ready
      BY <1>1, <2>1
    <2>3. dec' = dec /\ task.at = "drain" /\ task'.at \in {"idle", "drained"} /\ asking' = 0
      BY <1>1, <1>14 DEF DrainRefused, At, Go
    <2>4. QED
      BY <2>1, <2>2, <2>3 DEF CodecInv
  <1>15. QED
    BY <1>2, <1>3, <1>4, <1>5, <1>6, <1>7, <1>8, <1>9, <1>10, <1>11, <1>12, <1>13, <1>14
    DEF Next, Work

(* A negotiation that succeeds leaves a pool of the picture's format, or   *)
(* one that was adopted under another.                                     *)
LEMMA PushMatches ==
  ASSUME VidInv, OutputInv, ReceivePicture, codec'.ready \in Seq(PictureT),
         Head(codec.ready) \in PictureT
  PROVE  OutputInv'
  <1> DEFINE p == Head(codec.ready)
             r == Negotiated(p)
             a == hist.adopted \/ (pool'.internal # pool.internal /\ pool.format # p.format)
  <1>1. p.format \in Formats
    BY DEF PictureT
  <1>2. pool' \in r.pools
    BY DEF ReceivePicture
  <1>3. \/ \E no \in BOOLEAN, w \in {"error", "copy"} : DropPicture(p, r.dec, no, w)
        \/ \E copy \in BOOLEAN : r.ok /\ Push(p, r.dec, copy)
    BY DEF ReceivePicture, Copies
  <1>4. /\ pool \in [internal : PoolT, used : PoolT, format : Formats \cup {None}]
        /\ ~hist.adopted =>
             /\ pool.internal # None => pool.internal.format = pool.format
             /\ dec.pic \in Supported => pool.used.format = dec.pic
        /\ hist.out = "mismatch" => dec.pic \notin Supported \/ hist.adopted
    BY DEF OutputInv, OutputMatches
  <1>5. dec' = r.dec
    BY <1>3 DEF DropPicture, Push
  <1>6. dec.pic \in Supported => dec.output_state = dec.pic
    BY DEF VidInv, PictureInv
  <1> HIDE DEF p
  <1>7. /\ hist'.adopted <=> a
        /\ \/ hist'.out = "none"
           \/ /\ r.ok
              /\ \E copy \in BOOLEAN :
                   hist'.out = IF p.format = r.dec.output_state
                                  /\ (copy => pool'.used.format = r.dec.output_state)
                               THEN "match" ELSE "mismatch"
    <2>1. CASE \E no \in BOOLEAN, w \in {"error", "copy"} : DropPicture(p, r.dec, no, w)
      <3>1. PICK no, w : DropPicture(p, r.dec, no, w)
        BY <2>1
      <3>2. \E v : hist' = [leaked |-> hist.leaked, out |-> "none", adopted |-> a, why |-> v]
        BY <3>1, DropHistory
      <3>3. hist'.adopted = a /\ hist'.out = "none"
        BY <3>2
      <3>4. QED
        BY <2>1, <3>3
    <2>2. CASE r.ok /\ \E copy \in BOOLEAN : Push(p, r.dec, copy)
      <3>1. PICK copy \in BOOLEAN : Push(p, r.dec, copy)
        BY <2>2
      <3> DEFINE o == IF p.format = r.dec.output_state
                         /\ (copy => pool'.used.format = r.dec.output_state)
                      THEN "match" ELSE "mismatch"
                 w == IF Draining /\ srcpad # "ok" THEN srcpad
                      ELSE [[hist EXCEPT !.adopted = a] EXCEPT !.out = o].why
      <3>2. hist' = [[hist EXCEPT !.adopted = a] EXCEPT !.out = o, !.why = w]
        BY <3>1 DEF Push, Adopting
      <3>3. hist' = [leaked |-> hist.leaked, out |-> o,
                     adopted |-> a, why |-> w]
        <4> HIDE DEF a, o, w
        <4> QED
          BY <3>2, HistoryOf
      <3>4. hist'.adopted = a /\ hist'.out = o
        BY <3>3
      <3>5. QED
        BY <2>2, <3>4
    <2>3. QED
      BY <1>3, <2>1, <2>2
  <1>8. \/ /\ r.dec = dec /\ pool' = pool /\ (r.ok <=> p.format = dec.pic)
           /\ p.format = dec.pic
        \/ /\ ~r.ok /\ pool' = pool /\ r.dec.pic \notin Supported
        \/ /\ r.ok /\ srcpad = "ok" /\ p.format \in Supported
           /\ r.dec.output_state = p.format /\ r.dec.pic = p.format
           /\ pool' \in UsedPools(p.format)
    <2>1. CASE ~PictureChanged(p)
      BY <1>2, <2>1 DEF Negotiated, PictureChanged
    <2>2. CASE PictureChanged(p) /\ p.format \notin Supported
      <3>1. r.ok = FALSE /\ r.dec = [dec EXCEPT !.pic = p.format] /\ pool' = pool
        BY <1>2, <2>2 DEF Negotiated
      <3>2. r.dec.pic = p.format
        BY <3>1 DEF VidInv, FieldsOK
      <3>3. QED
        BY <2>2, <3>1, <3>2
    <2>3. CASE PictureChanged(p) /\ p.format \in Supported /\ srcpad # "ok"
      <3>1. r.ok = FALSE /\ pool' = pool
            /\ r.dec = [dec EXCEPT !.output_state = p.format, !.pic = None]
        BY <1>2, <2>3 DEF Negotiated, RefusedNegotiation
      <3>2. r.dec.pic = None
        BY <3>1 DEF VidInv, FieldsOK
      <3>3. QED
        BY <3>1, <3>2, NoneIsNothing
    <2>4. CASE PictureChanged(p) /\ p.format \in Supported /\ srcpad = "ok"
      <3>1. r.ok = TRUE /\ pool' \in UsedPools(p.format)
            /\ r.dec = [dec EXCEPT !.output_state = p.format, !.pic = p.format]
        BY <1>2, <2>4 DEF Negotiated
      <3>2. r.dec.pic = p.format /\ r.dec.output_state = p.format
        BY <3>1 DEF VidInv, FieldsOK
      <3>3. QED
        BY <2>4, <3>1, <3>2
    <2>5. QED
      BY <2>1, <2>2, <2>3, <2>4
  <1> HIDE DEF r
  <1>9. CASE r.dec = dec /\ pool' = pool /\ p.format = dec.pic /\ (r.ok <=> p.format = dec.pic)
    <2>1. hist'.adopted <=> hist.adopted
      BY <1>7, <1>9
    <2>2. hist'.out = "mismatch" => dec.pic \notin Supported \/ hist.adopted
      BY <1>4, <1>6, <1>7, <1>9
    <2>3. QED
      BY <1>4, <1>5, <1>9, <2>1, <2>2 DEF OutputInv, OutputMatches
  <1>10. CASE ~r.ok /\ pool' = pool /\ r.dec.pic \notin Supported
    <2>1. hist'.adopted <=> hist.adopted
      BY <1>7, <1>10
    <2>2. QED
      BY <1>4, <1>5, <1>10, <2>1 DEF OutputInv, OutputMatches
  <1>11. CASE /\ r.ok /\ srcpad = "ok" /\ p.format \in Supported
              /\ r.dec.output_state = p.format /\ r.dec.pic = p.format
              /\ pool' \in UsedPools(p.format)
    <2> DEFINE new == Pool(p.format, TRUE)
    <2>1. new \in PoolT /\ new.format = p.format
      BY <1>1 DEF Pool, PoolT
    <2>2. \/ /\ pool.internal # None
             /\ pool' = [pool EXCEPT !.internal = new, !.used = new]
          \/ pool' = [pool EXCEPT !.used = new]
          \/ /\ pool.internal # None /\ pool.format = p.format
             /\ pool' = [pool EXCEPT !.used = pool.internal]
      BY <1>11 DEF UsedPools
    <2> HIDE DEF new
    <2>3. /\ pool' \in [internal : PoolT, used : PoolT, format : Formats \cup {None}]
          /\ pool'.format = pool.format
          /\ pool'.internal = pool.internal \/ pool'.internal.format = p.format
          /\ ~hist.adopted => pool'.used.format = p.format
      <3>1. CASE /\ pool.internal # None
                 /\ pool' = [pool EXCEPT !.internal = new, !.used = new]
        BY <1>4, <2>1, <3>1
      <3>2. CASE pool' = [pool EXCEPT !.used = new]
        BY <1>4, <2>1, <3>2
      <3>3. CASE /\ pool.internal # None /\ pool.format = p.format
                 /\ pool' = [pool EXCEPT !.used = pool.internal]
        BY <1>4, <3>3
      <3>4. QED
        BY <2>2, <3>1, <3>2, <3>3
    <2>4. ~hist'.adopted => ~hist.adopted
          /\ (pool'.internal = pool.internal \/ pool.format = p.format)
      BY <1>7
    <2>5. ~hist'.adopted => /\ pool'.internal # None => pool'.internal.format = pool'.format
                            /\ pool'.used.format = p.format
      BY <1>4, <2>3, <2>4
    <2>6. r.dec.output_state # None
      BY <1>11, NoneIsNothing
    <2>7. hist'.out = "mismatch" => hist'.adopted
      BY <1>7, <1>11, <2>5, <2>6
    <2>8. QED
      BY <1>5, <1>11, <2>3, <2>5, <2>7 DEF OutputInv, OutputMatches
  <1>12. QED
    BY <1>8, <1>9, <1>10, <1>11

LEMMA ReceiveFlow ==
  ASSUME VidInv, FlowInv, ReceivePicture \/ ReceiveNothing
  PROVE  OutputInv' /\ FrameInv'
  <1>1. /\ status = "ok" /\ task.at = "receive" /\ UNCHANGED <<count, asking>>
    BY DEF ReceivePicture, ReceiveNothing, At
  <1>2. OutputInv /\ FrameInv
    BY DEF FlowInv
  <1>3. codec.ready \in Seq(PictureT)
    BY <1>2 DEF OutputInv
  <1>4. task' = task \/ Ends
    BY DEF ReceivePicture, ReceiveNothing, DropPicture, Push, PushNext
  <1>5. task'.at \notin {"send", "ask"}
    BY <1>1, <1>4 DEF Ends, Go, VidInv, FieldsOK
  <1>6. CASE ReceivePicture
    <2> DEFINE p == Head(codec.ready)
               r == Negotiated(p)
    <2>1. /\ codec.ready # <<>> /\ codec' = [codec EXCEPT !.ready = Tail(codec.ready)]
          /\ \/ \E no \in BOOLEAN, w \in {"error", "copy"} : DropPicture(p, r.dec, no, w)
             \/ \E copy \in BOOLEAN : Push(p, r.dec, copy)
      BY <1>6 DEF ReceivePicture, Copies
    <2>2. PICK ghosts \in {{}, Ghosts} : frames' = Without(frames, ghosts \cup {p.frame})
      BY <2>1 DEF DropPicture, Push
    <2>3. \A n \in ghosts \cap DOMAIN frames : frames[n]
      BY <2>2 DEF Ghosts
    <2>4. hist'.leaked = hist.leaked
      <3>1. CASE \E no \in BOOLEAN, w \in {"error", "copy"} : DropPicture(p, r.dec, no, w)
        <4>1. PICK no, w : DropPicture(p, r.dec, no, w)
          BY <3>1
        <4> DEFINE a == hist.adopted
                          \/ (pool'.internal # pool.internal /\ pool.format # p.format)
                   v == IF Draining THEN w ELSE hist.why
        <4>2. hist' = [leaked |-> hist.leaked, out |-> "none", adopted |-> a, why |-> v]
          BY <4>1, DropHistory
        <4> HIDE DEF a, v
        <4>3. QED
          BY <4>2
      <3>2. CASE \E copy \in BOOLEAN : Push(p, r.dec, copy)
        <4>1. PICK copy \in BOOLEAN : Push(p, r.dec, copy)
          BY <3>2
        <4> DEFINE a == hist.adopted
                          \/ (pool'.internal # pool.internal /\ pool.format # p.format)
                   o == IF p.format = r.dec.output_state
                           /\ (copy => pool'.used.format = r.dec.output_state)
                        THEN "match" ELSE "mismatch"
                   w == IF Draining /\ srcpad # "ok" THEN srcpad
                        ELSE [[hist EXCEPT !.adopted = a] EXCEPT !.out = o].why
        <4>4. hist' = [[hist EXCEPT !.adopted = a] EXCEPT !.out = o, !.why = w]
          BY <4>1 DEF Push, Adopting
        <4> HIDE DEF a, o, w
        <4>2. hist' = [leaked |-> hist.leaked, out |-> o,
                       adopted |-> a, why |-> w]
          BY <4>4, HistoryOf
        <4>3. QED
          BY <4>2
      <3>3. QED
        BY <2>1, <3>1, <3>2
    <2>5. FrameInv' /\ codec'.ready \in Seq(PictureT)
      BY <1>1, <1>2, <1>5, <2>1, <2>2, <2>3, <2>4, FrameGiven
    <2>6. p \in PictureT
      BY <1>3, <2>1, ReadyTail
    <2>7. OutputInv'
      BY <1>2, <1>6, <2>5, <2>6, PushMatches
    <2>8. QED
      BY <2>5, <2>7
  <1>7. CASE ReceiveNothing
    <2>1. dec' = dec /\ pool' = pool
      BY <1>7 DEF ReceiveNothing
    <2>2. CASE UNCHANGED <<codec, frames, hist>>
      <3>1. OutputInv'
        BY <1>2, <1>3, <2>1, <2>2, OutputKept
      <3>2. FrameInv'
        BY <1>1, <1>2, <1>5, <2>2, FramesKept
      <3>3. QED
        BY <3>1, <3>2
    <2>3. CASE /\ codec.ready # <<>>
               /\ codec' = [codec EXCEPT !.ready = Tail(@)]
               /\ frames' = Without(frames, {Head(codec.ready).frame})
               /\ hist' = [hist EXCEPT !.why = IF Draining THEN "bad" ELSE @]
      <3>1. hist'.leaked = hist.leaked /\ hist'.adopted = hist.adopted
            /\ hist'.out = hist.out
        BY <2>3 DEF VidInv, FieldsOK
      <3>2. PICK ghosts : ghosts = {}
        OBVIOUS
      <3>3. FrameInv' /\ codec'.ready \in Seq(PictureT)
        <4>1. ghosts \cup {Head(codec.ready).frame} = {Head(codec.ready).frame}
          BY <3>2
        <4>2. frames' = Without(frames, ghosts \cup {Head(codec.ready).frame})
              /\ codec' = [codec EXCEPT !.ready = Tail(codec.ready)]
          BY <2>3, <4>1
        <4>3. \A n \in ghosts \cap DOMAIN frames : frames[n]
          BY <3>2
        <4>4. QED
          BY <1>1, <1>2, <1>5, <2>3, <3>1, <4>2, <4>3, FrameGiven
      <3>4. OutputInv'
        BY <1>2, <2>1, <3>1, <3>3, OutputKept
      <3>5. QED
        BY <3>3, <3>4
    <2>4. QED
      BY <1>7, <2>2, <2>3 DEF ReceiveNothing
  <1>8. QED
    BY <1>6, <1>7

LEMMA FlowStep == VidInv /\ FlowInv /\ [Next]_vars => FlowInv'
  <1> SUFFICES ASSUME VidInv, FlowInv, [Next]_vars
               PROVE  OutputInv' /\ FrameInv'
    BY CodecStep DEF FlowInv
  <1>1. OutputInv /\ CodecInv /\ FrameInv /\ codec.ready \in Seq(PictureT)
    BY DEF FlowInv, OutputInv
  <1>2. /\ codec = [state |-> codec.state, ready |-> codec.ready]
        /\ task = [at |-> task.at, frame |-> task.frame, caps |-> task.caps]
        /\ hist = [leaked |-> hist.leaked, out |-> hist.out,
                   adopted |-> hist.adopted, why |-> hist.why]
        /\ dec = [started |-> dec.started, accepted |-> dec.accepted,
                  opened |-> dec.opened, last_caps |-> dec.last_caps,
                  input_state |-> dec.input_state, output_state |-> dec.output_state,
                  pic |-> dec.pic]
        /\ count = [frames |-> count.frames, formats |-> count.formats]
    BY DEF VidInv, FieldsOK
  <1>3. CASE ReceivePicture \/ ReceiveNothing
    BY <1>3, ReceiveFlow
  <1>4. CASE AskHere \/ AskElsewhere
    <2>1. /\ UNCHANGED <<settings, dec, count>> /\ asking' = 0 /\ status = "ok"
          /\ \/ AskHere /\ Fresh(task.frame) /\ task'.at = "receive"
             \/ /\ AskElsewhere /\ Fresh(asking) /\ task' = task
                /\ task.at = "send" => asking # task.frame
                /\ task.at # "ask"
      <3>1. CASE AskHere
        BY <1>1, <1>2, <3>1 DEF AskHere, At, Go, CodecInv, FrameInv
      <3>2. CASE AskElsewhere
        BY <1>1, <3>2 DEF AskElsewhere, CodecInv, FrameInv
      <3>3. QED
        BY <1>4, <3>1, <3>2
    <2>2. CASE AskHere /\ Fresh(task.frame) /\ task'.at = "receive" /\ GetBuffer(task.frame)
      BY <1>1, <2>1, <2>2, BufferStep
    <2>5. CASE AskElsewhere /\ Fresh(asking) /\ task' = task
      <3>1. GetBuffer(asking)
        BY <2>5 DEF AskElsewhere
      <3>2. task.at \in {"send", "ask"} => asking # task.frame
        BY <1>1, <2>5 DEF AskElsewhere, CodecInv, FrameInv
      <3>3. QED
        BY <1>1, <2>1, <2>5, <3>1, <3>2, BufferStep
    <2>3. CASE AskHere /\ UNCHANGED <<codec, frames, pool, hist>>
      <3>1. OutputInv'
        BY <1>1, <2>1, <2>3, OutputKept
      <3>2. FrameInv'
        <4>1. task'.at = "receive"
          BY <1>2, <2>3 DEF AskHere, Go
        <4>2. QED
          BY <1>1, <2>1, <2>3, <4>1, FramesKept
      <3>3. QED
        BY <3>1, <3>2
    <2>4. QED
      BY <2>1, <2>2, <2>3, <2>5 DEF AskHere
  <1>5. CASE Stop \/ Flush \/ DrainEnd
    <2>1. /\ status = "ok" /\ count' = count /\ asking' = 0
          /\ hist'.adopted \in {hist.adopted} \/ Stop
      <3>1. status = "ok" /\ UNCHANGED <<count, asking>> /\ (asking = 0 \/ task.at = "drained")
        BY <1>5 DEF Stop, Flush, DrainEnd, Idle, At
      <3>2. Flush \/ DrainEnd => hist'.adopted = hist.adopted
        BY <1>2 DEF Flush, DrainEnd
      <3>3. QED
        BY <1>1, <1>5, <3>1, <3>2 DEF CodecInv
    <2>2. task'.at \notin {"send", "ask"}
      BY <1>2, <1>5 DEF Stop, Flush, DrainEnd, Idle, At, Go
    <2>3. codec'.ready = <<>> /\ codec'.ready \in Seq(PictureT)
      <3>1. CASE ~dec.opened /\ codec' = codec
        BY <1>1, <3>1 DEF CodecInv
      <3>2. CASE codec' = [state |-> "closed", ready |-> <<>>]
        BY <3>2
      <3>3. CASE codec' = [state |-> "open", ready |-> <<>>]
        BY <3>3
      <3>4. QED
        BY <1>5, <3>1, <3>2, <3>3 DEF Stop, Flush, DrainEnd, Flushed
    <2>4. \/ frames' = NoFrames /\ hist'.leaked = {}
          \/ status = "ok" /\ frames' = Without(frames, PictureFrames)
             /\ hist'.leaked = hist.leaked
      BY <1>2, <1>5, <2>1 DEF Stop, Flush, DrainEnd
    <2>5. FrameInv'
      BY <1>1, <2>1, <2>2, <2>3, <2>4, FramesDropped
    <2>6. OutputInv'
      <3>1. CASE Stop
        <4>1. pool' = NoPools /\ dec'.pic = None /\ hist'.out = "none"
          BY <1>2, <3>1 DEF Stop, Closed
        <4>2. pool' \in [internal : PoolT, used : PoolT, format : Formats \cup {None}]
              /\ pool'.internal = None
          BY <4>1 DEF NoPools, PoolT
        <4>3. QED
          BY <2>3, <4>1, <4>2, NoneIsNothing DEF OutputInv, OutputMatches
      <3>2. CASE Flush \/ DrainEnd
        <4>1. pool' = pool /\ dec' = dec /\ hist'.out = hist.out
              /\ hist'.adopted = hist.adopted
          BY <1>2, <3>2 DEF Flush, DrainEnd
        <4>2. QED
          BY <1>1, <2>3, <4>1, OutputKept
      <3>3. QED
        BY <1>5, <3>1, <3>2
    <2>7. QED
      BY <2>5, <2>6
  <1>6. CASE HandleFrame
    <2>1. UNCHANGED <<pool, codec, dec>> /\ hist'.out = hist.out
          /\ hist'.adopted = hist.adopted
      BY <1>2, <1>6 DEF HandleFrame
    <2>2. OutputInv'
      BY <1>1, <2>1, OutputKept
    <2>3. QED
      BY <1>1, <1>6, <2>2, FrameHandled
  <1>7. CASE Start \/ SetFormat \/ Drain \/ DownstreamFails \/ Configure \/ SendPacket
             \/ Sent \/ DrainBegin \/ DrainRefused \/ FlushBegin
    <2>1. pool' = pool /\ frames' = frames /\ count'.frames = count.frames
      BY <1>2, <1>7
      DEF Start, SetFormat, Drain, DownstreamFails, Configure, SendPacket, Sent,
          DrainBegin, DrainRefused, FlushBegin
    <2>2. codec'.ready = codec.ready
      BY <1>2, <1>7
      DEF Start, SetFormat, Drain, DownstreamFails, Configure, SendPacket, Sent,
          DrainBegin, DrainRefused, FlushBegin
    <2>3. hist'.out = hist.out /\ hist'.adopted = hist.adopted
          /\ hist'.leaked = hist.leaked
      BY <1>2, <1>7
      DEF Start, SetFormat, Drain, DownstreamFails, Configure, SendPacket, Sent,
          DrainBegin, DrainRefused, FlushBegin
    <2>4. dec'.pic \in {dec.pic, None}
      <3>1. CASE Configure
        <4>1. dec' = Configured(task.caps)
          BY <3>1 DEF Configure
        <4> DEFINE x == IF dec.opened THEN None ELSE dec.pic
                   base == [dec EXCEPT !.pic = x, !.accepted = FALSE, !.opened = FALSE,
                                       !.last_caps = task.caps]
        <4>2. base = [started |-> dec.started, accepted |-> FALSE, opened |-> FALSE,
                      last_caps |-> task.caps, input_state |-> dec.input_state,
                      output_state |-> dec.output_state, pic |-> x]
          <5> DEFINE d1 == [dec EXCEPT !.pic = x]
                     d2 == [d1 EXCEPT !.accepted = FALSE]
                     d3 == [d2 EXCEPT !.opened = FALSE]
          <5>1. d1 = [dec EXCEPT !.pic = x] /\ d2 = [d1 EXCEPT !.accepted = FALSE]
                /\ d3 = [d2 EXCEPT !.opened = FALSE]
                /\ base = [d3 EXCEPT !.last_caps = task.caps]
            OBVIOUS
          <5> HIDE DEF x, d1, d2, d3, base
          <5>2. QED
            BY <1>2, <5>1
        <4>3. \/ dec' = base
              \/ dec' = [base EXCEPT !.last_caps = None]
              \/ dec' = [base EXCEPT !.accepted = TRUE, !.opened = TRUE,
                                     !.input_state = task.caps]
          BY <4>1 DEF Configured
        <4> HIDE DEF base
        <4>4. dec'.pic = x
          <5> HIDE DEF x
          <5>1. CASE dec' = base
            BY <4>2, <5>1
          <5>2. CASE dec' = [base EXCEPT !.last_caps = None]
            BY <4>2, <5>2
          <5>3. CASE dec' = [base EXCEPT !.accepted = TRUE, !.opened = TRUE,
                                         !.input_state = task.caps]
            BY <4>2, <5>3
          <5>4. QED
            BY <4>3, <5>1, <5>2, <5>3
        <4>5. QED
          BY <4>4
      <3>2. CASE ~Configure
        BY <1>2, <1>7, <3>2
        DEF Start, SetFormat, Drain, DownstreamFails, SendPacket, Sent, DrainBegin,
            DrainRefused, FlushBegin
      <3>3. QED
        BY <3>1, <3>2
    <2>5. OutputInv'
      BY <1>1, <2>1, <2>2, <2>3, <2>4, OutputKept
    <2>6. status = "ok"
      BY <1>7
      DEF Start, SetFormat, Drain, DownstreamFails, Configure, SendPacket, Sent,
          DrainBegin, DrainRefused, FlushBegin, Idle, At
    <2>7. /\ asking' # 0 => asking' = asking \/ (task.at = "send" /\ asking' = task.frame)
          /\ task'.at \in {"send", "ask"} =>
               /\ task.at \in {"send", "ask"} /\ task'.frame = task.frame
               /\ asking' \in {0, asking}
      <3>1. CASE Start \/ DownstreamFails
        BY <3>1 DEF Start, DownstreamFails
      <3>2. CASE Configure \/ DrainBegin \/ DrainRefused \/ FlushBegin \/ Sent
        BY <1>2, <3>2 DEF Configure, DrainBegin, DrainRefused, FlushBegin, Sent, At, Go
      <3>3. CASE Drain
        BY <3>3 DEF Drain, Idle, At
      <3>4. CASE SetFormat
        BY <3>4 DEF SetFormat, Idle, At
      <3>5. CASE SendPacket
        <4>1. /\ task.at = "send"
              /\ \/ task' = [task EXCEPT !.at = "idle"] /\ asking' = asking
                 \/ task' = [task EXCEPT !.at = "wait"] /\ asking' = task.frame
                 \/ task' = [task EXCEPT !.at = "ask"] /\ asking' = asking
          BY <3>5 DEF SendPacket, At, Go
        <4>2. QED
          BY <1>2, <4>1
      <3>6. QED
        BY <1>7, <3>1, <3>2, <3>3, <3>4, <3>5
    <2>8. FrameInv'
      BY <1>1, <2>1, <2>2, <2>3, <2>6, <2>7
      DEF FrameInv, RealFrames, PictureFrames, Fresh
    <2>9. QED
      BY <2>5, <2>8
  <1>8. CASE UNCHANGED vars
    <2>1. UNCHANGED <<dec, pool, codec, frames, task, asking, hist, status, count>>
      BY <1>8 DEF vars
    <2>2. QED
      BY <1>1, <2>1
      DEF OutputInv, OutputMatches, FrameInv, RealFrames, PictureFrames, Fresh
  <1>9. QED
    BY <1>3, <1>4, <1>5, <1>6, <1>7, <1>8 DEF Next, Work

(* So do frames, pictures and buffers.                                     *)
THEOREM FlowHolds == Spec => [](VidInv /\ FlowInv)
  BY InvInit, InvStep, FlowInit, FlowStep, PTL DEF Spec

(* What is pushed has the format of the output state, and is copied to a   *)
(* buffer of that format, but for the two cases that OutputMatches names   *)
(* (gst_ffmpegviddec_negotiate, decide_allocation, ensure_internal_pool).  *)
THEOREM OutputIsNegotiated == Spec => []OutputMatches
  <1>1. FlowInv => OutputMatches
    BY DEF FlowInv, OutputInv
  <1>2. QED
    BY <1>1, FlowHolds, PTL

(* The base class keeps a frame exactly as long as the codec has a picture *)
(* of it, or because its buffer or its map failed                          *)
(* (gst_ffmpegviddec_video_frame and get_buffer2).                         *)
THEOREM FramesAreReal == Spec => []RealFrames
  <1>1. FlowInv => RealFrames
    BY DEF FlowInv, FrameInv
  <1>2. QED
    BY <1>1, FlowHolds, PTL
=============================================================================
