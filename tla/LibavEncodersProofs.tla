------------------------ MODULE LibavEncodersProofs ------------------------
(***************************************************************************)
(* Theorems about LibavEncoders, for all caps, delays and bounds: when the *)
(* codec is open, for which caps, in which order an audio encoder puts its *)
(* channels, and which frames the packets go out with.                     *)
(***************************************************************************)
EXTENDS LibavEncoders, SequenceTheorems, TLAPS

EncT   == [started : BOOLEAN, accepted : BOOLEAN, opened : BOOLEAN,
           need_reopen : BOOLEAN, input_state : InCaps \cup {None},
           reorder : InCaps \cup {None}]
CodecT == [state : {"closed", "open", "draining"}, caps : InCaps \cup {None},
           delayed : Seq(Nat), unsent : BOOLEAN]
TaskT  == [at : {"idle", "receive", "drained", "done"}, why : {"none", "frame", "finish", "stop"}]
Causes == {"format", "reopen", "refused", "error", "drain", "flush"}
Results == {"settings", "codec", "peer", "ok"}
HistT  == [skew : SUBSET Causes, out : {"none", "own", "other"},
           peer : BOOLEAN, reopen : Results]
CountT == [frames : Nat, formats : Nat]

(* The type of the variables that the theorems are about. *)
EncTypeOK ==
  /\ media \in {"video", "audio"} /\ enc \in EncT /\ codec \in CodecT
  /\ task \in TaskT /\ hist \in HistT /\ count \in CountT

(* Which states of the element, the codec and the task go together: a      *)
(* codec is drained only for an opened element, which takes its packets    *)
(* for that drain, is to open it again, or has forgotten that it drains;   *)
(* and it is open behind an element's back only since downstream has       *)
(* refused caps.                                                           *)
Forgotten(cd) == media = "video" /\ canFlush /\ cd.unsent

BeingDrained(t) == canFlush /\ t.at \in {"receive", "drained"} /\ t.why # "frame"

CodecState ==
  /\ enc.opened => enc.input_state \in InCaps
  /\ enc.need_reopen => enc.opened
  /\ codec.state = "draining" =>
       /\ enc.opened
       /\ enc.need_reopen \/ Forgotten(codec) \/ BeingDrained(task)
  /\ ~enc.opened /\ codec.state # "closed" => hist.peer
  /\ media = "video" => enc.reorder = None

EncInv ==
  /\ EncTypeOK /\ CodecState
  /\ AcceptedIsOpen /\ CodecFitsFormat /\ OwnLayout

-----------------------------------------------------------------------------
LEMMA InitInv == Init => EncInv
  <1> SUFFICES ASSUME Init PROVE EncInv
    OBVIOUS
  <1> USE DEF Init, Stopped, NoCodec, NoHistory
  <1>1. EncTypeOK
    <2>1. enc \in EncT /\ codec \in CodecT
      BY DEF EncT, CodecT
    <2>2. task \in TaskT /\ hist \in HistT /\ count \in CountT
      BY DEF TaskT, HistT, CountT, Results
    <2>3. QED
      BY <2>1, <2>2 DEF EncTypeOK
  <1>2. CodecState /\ AcceptedIsOpen
    BY DEF CodecState, AcceptedIsOpen
  <1>3. CodecFitsFormat /\ OwnLayout
    BY DEF CodecFitsFormat, OwnLayout
  <1>4. QED
    BY <1>1, <1>2, <1>3 DEF EncInv

(* A cause added to the history leaves the rest of it alone.               *)
LEMMA SkewedKeeps ==
  ASSUME NEW h \in HistT, NEW cause \in Causes, NEW really
  PROVE  /\ Skewed(h, cause, really) \in HistT
         /\ Skewed(h, cause, really).peer = h.peer
         /\ Skewed(h, cause, really).reopen = h.reopen
  <1>1. [h EXCEPT !.skew = @ \cup {cause}] \in HistT
    <2>1. h.skew \cup {cause} \in SUBSET Causes
      BY DEF HistT
    <2>2. QED
      BY <2>1 DEF HistT
  <1>2. /\ [h EXCEPT !.skew = @ \cup {cause}].peer = h.peer
        /\ [h EXCEPT !.skew = @ \cup {cause}].reopen = h.reopen
    BY DEF HistT
  <1>3. QED
    BY <1>1, <1>2 DEF Skewed

-----------------------------------------------------------------------------
(* What closing, laying out and opening do to the element.                 *)
LEMMA FieldsKeep ==
  ASSUME NEW e \in EncT, NEW c \in InCaps
  PROVE  /\ Closed(e) \in EncT /\ ~Closed(e).opened /\ ~Closed(e).need_reopen
         /\ Closed(e).accepted = e.accepted /\ Closed(e).reorder = e.reorder
         /\ Layout(e, c) \in EncT /\ Layout(e, c).opened = e.opened
         /\ Layout(e, c).need_reopen = e.need_reopen
         /\ Layout(e, c).accepted = e.accepted
         /\ c \in Unpositioned \/ Layout(e, c).reorder \in {c, None}
         /\ Opened(e, c) \in EncT /\ Opened(e, c).opened
         /\ Opened(e, c).need_reopen = e.need_reopen
         /\ Opened(e, c).accepted = e.accepted
         /\ Opened(e, c).input_state = c /\ Opened(e, c).reorder = e.reorder
  <1>1. /\ Closed(e) \in EncT /\ ~Closed(e).opened /\ ~Closed(e).need_reopen
        /\ Closed(e).accepted = e.accepted /\ Closed(e).reorder = e.reorder
    BY DEF Closed, EncT
  <1>2. /\ Layout(e, c) \in EncT /\ Layout(e, c).opened = e.opened
        /\ Layout(e, c).need_reopen = e.need_reopen
        /\ Layout(e, c).accepted = e.accepted
        /\ c \in Unpositioned \/ Layout(e, c).reorder \in {c, None}
    BY DEF Layout, EncT
  <1>3. /\ Opened(e, c) \in EncT /\ Opened(e, c).opened
        /\ Opened(e, c).need_reopen = e.need_reopen
        /\ Opened(e, c).accepted = e.accepted
        /\ Opened(e, c).input_state = c /\ Opened(e, c).reorder = e.reorder
    BY DEF Opened, EncT
  <1>4. QED
    BY <1>1, <1>2, <1>3

(* What set_format makes of the codec: it is the one that was open only    *)
(* behind the element's back.                                              *)
LEMMA CodecAfter ==
  ASSUME EncInv, NEW c \in InCaps
  PROVE  /\ NoCodec \in CodecT /\ NoCodec.state = "closed"
         /\ FreshContext(enc, codec) \in CodecT
         /\ FreshContext(enc, codec).state # "draining"
         /\ FreshContext(enc, codec).state # "closed" => hist.peer
         /\ OpenCodec(FreshContext(enc, codec), c) \in CodecT
         /\ OpenCodec(FreshContext(enc, codec), c).state = "open"
         /\ OpenCodec(FreshContext(enc, codec), c).caps = c \/ hist.peer
  <1>1. NoCodec \in CodecT /\ NoCodec.state = "closed"
    BY DEF NoCodec, CodecT
  <1>2. /\ FreshContext(enc, codec) \in CodecT
        /\ FreshContext(enc, codec).state # "draining"
        /\ FreshContext(enc, codec).state # "closed" => hist.peer
    BY <1>1 DEF FreshContext, EncInv, EncTypeOK, CodecState
  <1>3. ASSUME NEW cd \in CodecT, cd.state # "draining"
        PROVE  /\ OpenCodec(cd, c) \in CodecT /\ OpenCodec(cd, c).state = "open"
               /\ OpenCodec(cd, c).caps = c \/ cd.state # "closed"
    <2>1. /\ [NoCodec EXCEPT !.state = "open", !.caps = c] \in CodecT
          /\ [NoCodec EXCEPT !.state = "open", !.caps = c].state = "open"
          /\ [NoCodec EXCEPT !.state = "open", !.caps = c].caps = c
      BY <1>1 DEF CodecT
    <2>2. CASE cd.state = "closed"
      BY <2>1, <2>2 DEF OpenCodec
    <2>3. CASE cd.state = "open"
      BY <1>3, <2>3 DEF OpenCodec
    <2>4. QED
      BY <1>3, <2>2, <2>3 DEF CodecT
  <1>4. QED
    BY <1>1, <1>2, <1>3

(* Every outcome of set_format for caps c. *)
Outcome(r, c) ==
  /\ r.enc \in EncT /\ r.codec \in CodecT /\ r.result \in Results
  /\ r.enc.accepted = enc.accepted /\ ~r.enc.need_reopen
  /\ r.enc.opened <=> r.result = "ok"
  /\ r.codec.state # "draining"
  /\ r.enc.opened => /\ r.codec.state = "open" /\ r.enc.input_state = c
                     /\ r.codec.caps = c \/ hist.peer
                     /\ r.enc.reorder \in {c, None} \/ c \in Unpositioned
  /\ ~r.enc.opened /\ r.codec.state # "closed" => hist.peer \/ r.result = "peer"
  /\ media = "video" => r.enc.reorder = None

LEMMA Outcomes ==
  ASSUME EncInv, NEW c \in InCaps, NEW r \in Format(enc, codec, c)
  PROVE  Outcome(r, c)
  <1>1. enc \in EncT /\ media \in {"video", "audio"}
    BY DEF EncInv, EncTypeOK
  <1>2. /\ NoCodec \in CodecT /\ NoCodec.state = "closed"
        /\ FreshContext(enc, codec) \in CodecT
        /\ FreshContext(enc, codec).state # "draining"
        /\ FreshContext(enc, codec).state # "closed" => hist.peer
        /\ OpenCodec(FreshContext(enc, codec), c) \in CodecT
        /\ OpenCodec(FreshContext(enc, codec), c).state = "open"
        /\ OpenCodec(FreshContext(enc, codec), c).caps = c \/ hist.peer
    BY CodecAfter
  <1>3. CASE media = "video"
    <2>1. r \in VideoFormat(enc, codec, c) /\ enc.reorder = None
      BY <1>3 DEF Format, EncInv, CodecState
    <2>2. /\ Closed(enc) \in EncT /\ ~Closed(enc).opened /\ ~Closed(enc).need_reopen
          /\ Closed(enc).accepted = enc.accepted /\ Closed(enc).reorder = None
      BY <1>1, <2>1, FieldsKeep
    <2>3. CASE r = [result |-> "settings", enc |-> Closed(enc),
                    codec |-> FreshContext(enc, codec)]
      BY <1>2, <2>2, <2>3 DEF Outcome, Results
    <2>4. CASE r = [result |-> "codec", enc |-> Closed(enc), codec |-> NoCodec]
      BY <1>2, <2>2, <2>4 DEF Outcome, Results
    <2>5. CASE r = [result |-> "peer", enc |-> Closed(enc),
                    codec |-> OpenCodec(FreshContext(enc, codec), c)]
      BY <1>2, <2>2, <2>5 DEF Outcome, Results
    <2>6. CASE r = [result |-> "ok", enc |-> Opened(Closed(enc), c),
                    codec |-> OpenCodec(FreshContext(enc, codec), c)]
      <3>1. /\ Opened(Closed(enc), c) \in EncT /\ Opened(Closed(enc), c).opened
            /\ ~Opened(Closed(enc), c).need_reopen
            /\ Opened(Closed(enc), c).accepted = enc.accepted
            /\ Opened(Closed(enc), c).input_state = c
            /\ Opened(Closed(enc), c).reorder = None
        BY <2>2, FieldsKeep
      <3>2. QED
        BY <1>2, <2>6, <3>1 DEF Outcome, Results
    <2>7. QED
      BY <2>1, <2>3, <2>4, <2>5, <2>6 DEF VideoFormat
  <1>4. CASE media = "audio"
    <2> DEFINE shut == Layout(Closed(enc), c)
    <2>1. r \in AudioFormat(enc, codec, c)
      BY <1>4 DEF Format
    <2>2. /\ Closed(enc) \in EncT /\ ~Closed(enc).opened /\ ~Closed(enc).need_reopen
          /\ Closed(enc).accepted = enc.accepted
      BY <1>1, FieldsKeep
    <2>3. /\ shut \in EncT /\ ~shut.opened /\ ~shut.need_reopen
          /\ shut.accepted = enc.accepted
          /\ c \in Unpositioned \/ shut.reorder \in {c, None}
      BY <2>2, FieldsKeep
    <2>4. CASE r = [result |-> "codec", enc |-> shut, codec |-> NoCodec]
      BY <1>2, <1>4, <2>3, <2>4 DEF Outcome, Results
    <2>5. CASE r = [result |-> "peer", enc |-> shut,
                    codec |-> OpenCodec(FreshContext(enc, codec), c)]
      BY <1>2, <1>4, <2>3, <2>5 DEF Outcome, Results
    <2>6. CASE r = [result |-> "ok", enc |-> Opened(shut, c),
                    codec |-> OpenCodec(FreshContext(enc, codec), c)]
      <3>1. /\ Opened(shut, c) \in EncT /\ Opened(shut, c).opened
            /\ ~Opened(shut, c).need_reopen
            /\ Opened(shut, c).accepted = enc.accepted
            /\ Opened(shut, c).input_state = c
            /\ Opened(shut, c).reorder = shut.reorder
        BY <2>3, FieldsKeep
      <3>2. QED
        BY <1>2, <1>4, <2>3, <2>6, <3>1 DEF Outcome, Results
    <2>7. QED
      BY <2>1, <2>4, <2>5, <2>6 DEF AudioFormat
  <1>5. QED
    BY <1>1, <1>3, <1>4

(* The history after set_format: downstream's refusal is remembered.       *)
LEMMA FormattedKeeps ==
  ASSUME EncInv, NEW r
  PROVE  /\ Formatted(r) \in HistT
         /\ hist.peer => Formatted(r).peer
         /\ r.result = "peer" => Formatted(r).peer
  <1> DEFINE h == [hist EXCEPT !.peer = @ \/ r.result = "peer"]
  <1>1. hist \in HistT
    BY DEF EncInv, EncTypeOK
  <1>2. (hist.peer \/ r.result = "peer") \in BOOLEAN
    OBVIOUS
  <1>3. h \in HistT /\ h.peer = (hist.peer \/ r.result = "peer")
    BY <1>1, <1>2 DEF HistT
  <1>4. "format" \in Causes
    BY DEF Causes
  <1>5. /\ Skewed(h, "format", codec.delayed # <<>> /\ r.codec.delayed = <<>>) \in HistT
        /\ Skewed(h, "format", codec.delayed # <<>> /\ r.codec.delayed = <<>>).peer = h.peer
    <2> HIDE DEF h
    <2>1. h \in HistT
      BY <1>3
    <2>2. QED
      BY <2>1, <1>4, SkewedKeeps
  <1>6. QED
    BY <1>3, <1>5 DEF Formatted

LEMMA SetsFormat == EncInv /\ SetFormat => EncInv'
  <1> SUFFICES ASSUME EncInv, SetFormat PROVE EncInv'
    OBVIOUS
  <1>1. media' = media /\ canFlush' = canFlush /\ task' = task /\ count' \in CountT /\ task.at = "idle"
    BY DEF SetFormat, Idle, EncInv, EncTypeOK, CountT
  <1>0. PICK c \in InCaps :
          \E r \in Format(enc, codec, c) :
            /\ enc' = [r.enc EXCEPT !.accepted = Accepts(r.result)]
            /\ codec' = r.codec
            /\ hist' = [Formatted(r) EXCEPT !.reopen = "ok"]
    BY DEF SetFormat
  <1>2. PICK r \in Format(enc, codec, c) :
          /\ enc' = [r.enc EXCEPT !.accepted = Accepts(r.result)]
          /\ codec' = r.codec
          /\ hist' = [Formatted(r) EXCEPT !.reopen = "ok"]
    BY <1>0
  <1>3. Outcome(r, c)
    BY Outcomes
  <1>4. /\ enc' \in EncT /\ enc'.accepted = (r.result = "ok")
        /\ enc'.opened = r.enc.opened /\ enc'.need_reopen = r.enc.need_reopen
        /\ enc'.input_state = r.enc.input_state /\ enc'.reorder = r.enc.reorder
    <2>1. (r.result = "ok") \in BOOLEAN
      OBVIOUS
    <2>2. QED
      BY <1>2, <1>3, <2>1 DEF Outcome, EncT, Accepts
  <1>5. /\ hist' \in HistT
        /\ hist.peer => hist'.peer
        /\ r.result = "peer" => hist'.peer
    <2>1. /\ Formatted(r) \in HistT
          /\ hist.peer => Formatted(r).peer
          /\ r.result = "peer" => Formatted(r).peer
      BY FormattedKeeps
    <2>2. QED
      BY <1>2, <2>1 DEF HistT, Results
  <1>6. EncTypeOK'
    BY <1>1, <1>2, <1>3, <1>4, <1>5 DEF EncInv, EncTypeOK, Outcome
  <1>7. CodecState'
    BY <1>1, <1>2, <1>3, <1>4, <1>5 DEF CodecState, Outcome
  <1>8. AcceptedIsOpen'
    BY <1>3, <1>4 DEF AcceptedIsOpen, Outcome
  <1>9. CodecFitsFormat'
    BY <1>2, <1>3, <1>4, <1>5 DEF EncInv, CodecFitsFormat, Outcome
  <1>10. OwnLayout'
    BY <1>3, <1>4 DEF OwnLayout, Outcome
  <1>11. QED
    BY <1>6, <1>7, <1>8, <1>9, <1>10 DEF EncInv

(* Start and both kinds of stop leave a closed codec and a blank element.  *)
LEMMA Restarts ==
  ASSUME EncInv, media' = media, canFlush' = canFlush, task' \in TaskT, count' = count,
         codec' = NoCodec, hist' = NoHistory,
         enc' \in EncT, ~enc'.accepted, ~enc'.opened, ~enc'.need_reopen,
         media = "video" => enc'.reorder = None
  PROVE  EncInv'
  <1>1. NoCodec \in CodecT /\ NoHistory \in HistT /\ NoCodec.state = "closed"
    BY DEF NoCodec, NoHistory, CodecT, HistT, Results
  <1>2. EncTypeOK'
    BY <1>1 DEF EncInv, EncTypeOK
  <1>3. CodecState'
    BY <1>1 DEF CodecState
  <1>4. AcceptedIsOpen' /\ CodecFitsFormat' /\ OwnLayout'
    BY <1>1 DEF AcceptedIsOpen, CodecFitsFormat, OwnLayout
  <1>5. QED
    BY <1>2, <1>3, <1>4 DEF EncInv

LEMMA StartsAndStops == EncInv /\ (Start \/ AudioStop) => EncInv'
  <1> SUFFICES ASSUME EncInv, Start \/ AudioStop PROVE EncInv'
    OBVIOUS
  <1>1. /\ media' = media /\ canFlush' = canFlush /\ task' = task /\ count' = count
        /\ codec' = NoCodec /\ hist' = NoHistory
    BY DEF Start, AudioStop
  <1>2. task \in TaskT /\ enc \in EncT
    BY DEF EncInv, EncTypeOK
  <1>3. /\ enc' \in EncT /\ ~enc'.accepted /\ ~enc'.opened /\ ~enc'.need_reopen
        /\ enc'.reorder = enc.reorder
    BY <1>2 DEF Start, AudioStop, Stopped, EncT
  <1>4. QED
    BY <1>1, <1>2, <1>3, Restarts DEF EncInv, CodecState

-----------------------------------------------------------------------------
(* Steps that leave the element alone, and the codec but for its packets.  *)
LEMMA SameCodec ==
  ASSUME EncInv, media' = media, canFlush' = canFlush, enc' = enc, count' \in CountT, task' \in TaskT,
         codec' \in CodecT, codec'.state = codec.state, codec'.caps = codec.caps,
         codec'.unsent = codec.unsent,
         hist' \in HistT, hist'.peer = hist.peer, hist'.reopen = hist.reopen,
         codec.state = "draining" =>
           enc.need_reopen \/ Forgotten(codec) \/ BeingDrained(task')
  PROVE  EncInv'
  <1>1. EncTypeOK'
    BY DEF EncInv, EncTypeOK
  <1>2. CodecState'
    BY DEF EncInv, CodecState, Forgotten, BeingDrained
  <1>3. AcceptedIsOpen' /\ CodecFitsFormat' /\ OwnLayout'
    BY DEF EncInv, AcceptedIsOpen, CodecFitsFormat, OwnLayout
  <1>4. QED
    BY <1>1, <1>2, <1>3 DEF EncInv

LEMMA TakesPackets == EncInv /\ (ReceivePacket \/ ReceiveNothing) => EncInv'
  <1> SUFFICES ASSUME EncInv, ReceivePacket \/ ReceiveNothing PROVE EncInv'
    OBVIOUS
  <1>1. codec \in CodecT /\ task \in TaskT /\ hist \in HistT
    BY DEF EncInv, EncTypeOK
  <1>2. media' = media /\ canFlush' = canFlush /\ enc' = enc /\ count' = count /\ task.at = "receive"
    BY DEF ReceivePacket, ReceiveNothing, Receiving
  <1>3. /\ codec' \in CodecT /\ codec'.state = codec.state /\ codec'.caps = codec.caps
        /\ codec'.unsent = codec.unsent
    <2>1. codec.delayed # <<>> => Tail(codec.delayed) \in Seq(Nat)
      BY <1>1 DEF CodecT
    <2>2. \/ codec' = codec
          \/ codec.delayed # <<>> /\ codec' = [codec EXCEPT !.delayed = Tail(@)]
      BY DEF ReceivePacket, ReceiveNothing
    <2>3. QED
      BY <1>1, <2>1, <2>2 DEF CodecT
  <1>4. /\ hist' \in HistT
        /\ hist'.peer = hist.peer /\ hist'.reopen = hist.reopen
    <2>1. "error" \in Causes
      BY DEF Causes
    <2>2. CASE ReceivePacket
      <3>1. hist' = hist \/ \E out \in {"own", "other"} : hist' = [hist EXCEPT !.out = out]
        BY <2>2 DEF ReceivePacket
      <3>2. QED
        BY <1>1, <3>1 DEF HistT
    <2>3. CASE ReceiveNothing
      <3>1. hist' = hist \/ hist' = Skewed(hist, "error", TRUE)
        BY <2>3 DEF ReceiveNothing
      <3>2. /\ Skewed(hist, "error", TRUE) \in HistT
            /\ Skewed(hist, "error", TRUE).peer = hist.peer
            /\ Skewed(hist, "error", TRUE).reopen = hist.reopen
        BY <1>1, <2>1, SkewedKeeps
      <3>3. QED
        BY <1>1, <3>1, <3>2
    <2>4. QED
      BY <2>2, <2>3
  <1>5. /\ task' \in TaskT
        /\ task.why # "frame" => task'.at \in {"receive", "drained"} /\ task'.why # "frame"
    <2>1. task' = task \/ Ends
      BY DEF ReceivePacket, ReceiveNothing
    <2>2. QED
      BY <1>1, <1>2, <2>1 DEF Ends, TaskT
  <1>7. codec.state = "draining" =>
          enc.need_reopen \/ Forgotten(codec) \/ BeingDrained(task')
    BY <1>5 DEF EncInv, CodecState, BeingDrained
  <1>8. count' \in CountT
    BY <1>2 DEF EncInv, EncTypeOK
  <1>9. QED
    BY <1>2, <1>3, <1>4, <1>5, <1>7, <1>8, SameCodec

-----------------------------------------------------------------------------
(* What handle_frame starts from, when the codec may have to be opened     *)
(* again.                                                                  *)
Ready(r) ==
  /\ r.enc \in EncT /\ r.codec \in CodecT /\ r.result \in Results
  /\ r.enc.accepted = enc.accepted /\ ~r.enc.need_reopen
  /\ r.codec.state = "draining" => r.enc.opened /\ Forgotten(r.codec)
  /\ IF enc.need_reopen THEN r.enc.opened <=> r.result = "ok"
     ELSE r.result = "ok" /\ r.enc.opened = enc.opened
  /\ r.enc.opened => /\ r.enc.input_state \in InCaps
                     /\ r.codec.caps = r.enc.input_state \/ hist.peer
                     /\ \/ r.enc.reorder \in {r.enc.input_state, None}
                        \/ r.enc.input_state \in Unpositioned
  /\ ~r.enc.opened /\ r.codec.state # "closed" => hist.peer \/ r.result = "peer"
  /\ media = "video" => r.enc.reorder = None

LEMMA IsReady == ASSUME EncInv, task.at = "idle", NEW r \in Reopened PROVE Ready(r)
  <1>1. enc \in EncT /\ codec \in CodecT
    BY DEF EncInv, EncTypeOK
  <1>2. CASE enc.need_reopen
    <2>1. enc.input_state \in InCaps /\ r \in Format(enc, codec, enc.input_state)
      BY <1>2 DEF EncInv, CodecState, Reopened
    <2>2. Outcome(r, enc.input_state)
      BY <2>1, Outcomes
    <2>3. QED
      BY <1>2, <2>1, <2>2 DEF Ready, Outcome
  <1>3. CASE ~enc.need_reopen
    <2>1. r = [result |-> "ok", enc |-> enc, codec |-> codec]
      BY <1>3 DEF Reopened
    <2>2. codec.state = "draining" => enc.opened /\ Forgotten(codec)
      BY <1>3 DEF EncInv, CodecState, BeingDrained
    <2>3. QED
      BY <1>1, <1>3, <2>1, <2>2
      DEF Ready, Results, EncInv, CodecState, CodecFitsFormat, OwnLayout
  <1>4. QED
    BY <1>2, <1>3

LEMMA ReopenHistKeeps ==
  ASSUME EncInv, NEW r, Ready(r)
  PROVE  /\ ReopenHist(r) \in HistT
         /\ hist.peer \/ r.result = "peer" => ReopenHist(r).peer
         /\ ReopenHist(r).reopen = IF enc.need_reopen THEN r.result ELSE hist.reopen
  <1>1. /\ Formatted(r) \in HistT
        /\ hist.peer \/ r.result = "peer" => Formatted(r).peer
    BY FormattedKeeps
  <1>2. Formatted(r).reopen = hist.reopen
    <2> DEFINE h == [hist EXCEPT !.peer = @ \/ r.result = "peer"]
    <2>1. h \in HistT /\ h.reopen = hist.reopen
      <3>1. (hist.peer \/ r.result = "peer") \in BOOLEAN /\ hist \in HistT
        BY DEF EncInv, EncTypeOK
      <3>2. QED
        BY <3>1 DEF HistT
    <2>2. "format" \in Causes
      BY DEF Causes
    <2>3. Skewed(h, "format", codec.delayed # <<>> /\ r.codec.delayed = <<>>).reopen = h.reopen
      <3> HIDE DEF h
      <3>1. h \in HistT
        BY <2>1
      <3>2. QED
        BY <3>1, <2>2, SkewedKeeps
    <2>4. QED
      BY <2>1, <2>3 DEF Formatted
  <1>3. r.result \in Results
    BY DEF Ready
  <1>4. QED
    BY <1>1, <1>2, <1>3 DEF ReopenHist, HistT

(* A frame that was sent, refused or dropped after a codec was made ready. *)
LEMMA FrameKeeps ==
  ASSUME EncInv, NEW r, Ready(r), media' = media, canFlush' = canFlush, count' \in CountT, task' \in TaskT,
         enc' = r.enc, codec' \in CodecT,
         codec'.state = r.codec.state, codec'.caps = r.codec.caps,
         codec'.unsent = r.codec.unsent,
         hist' \in HistT,
         hist.peer \/ r.result = "peer" => hist'.peer,
         hist'.reopen = IF enc.need_reopen THEN r.result ELSE hist.reopen
  PROVE  EncInv'
  <1>1. EncTypeOK'
    BY DEF EncInv, EncTypeOK, Ready
  <1>2. CodecState'
    BY DEF CodecState, Ready, Forgotten
  <1>3. AcceptedIsOpen'
    BY DEF EncInv, AcceptedIsOpen, Ready
  <1>4. CodecFitsFormat'
    BY DEF CodecFitsFormat, Ready
  <1>5. OwnLayout'
    BY DEF OwnLayout, Ready
  <1>6. QED
    BY <1>1, <1>2, <1>3, <1>4, <1>5 DEF EncInv

LEMMA HandlesFrame == EncInv /\ HandleFrame => EncInv'
  <1> SUFFICES ASSUME EncInv, HandleFrame PROVE EncInv'
    OBVIOUS
  <1>1. media' = media /\ canFlush' = canFlush /\ task.at = "idle" /\ count.frames + 1 \in Nat /\ count' \in CountT
    BY DEF HandleFrame, Idle, EncInv, EncTypeOK, CountT
  <1>2. task \in TaskT /\ [at |-> "receive", why |-> "frame"] \in TaskT
    BY DEF EncInv, EncTypeOK, TaskT
  <1>3. CASE UNCHANGED <<enc, codec, hist, task>>
    BY <1>1, <1>3, SameCodec DEF EncInv, EncTypeOK, CodecState
  <1>4. ASSUME NEW r \in Reopened
        PROVE  /\ Ready(r) /\ r.codec \in CodecT
               /\ ReopenHist(r) \in HistT
               /\ hist.peer \/ r.result = "peer" => ReopenHist(r).peer
               /\ ReopenHist(r).reopen = IF enc.need_reopen THEN r.result ELSE hist.reopen
    <2>1. Ready(r)
      BY <1>1, IsReady
    <2>2. r.codec \in CodecT
      BY <2>1 DEF Ready
    <2>3. QED
      BY <2>1, <2>2, ReopenHistKeeps
  <1>5. CASE ReopenFails
    <2>1. PICK r \in Reopened :
            /\ enc' = r.enc /\ codec' = r.codec /\ task' = task
            /\ hist' = Skewed(ReopenHist(r), "reopen", TRUE)
      BY <1>5 DEF ReopenFails
    <2>2. "reopen" \in Causes
      BY DEF Causes
    <2>3. /\ hist' \in HistT
          /\ hist'.peer = ReopenHist(r).peer /\ hist'.reopen = ReopenHist(r).reopen
      BY <1>4, <2>1, <2>2, SkewedKeeps
    <2>4. QED
      BY <1>1, <1>2, <1>4, <2>1, <2>3, FrameKeeps
  <1>6. CASE SendFrame
    <2>1. PICK r \in Reopened :
            /\ enc' = r.enc /\ codec' = Sent(r.codec)
            /\ task' = [at |-> "receive", why |-> "frame"]
            /\ hist' = ReopenHist(r)
      BY <1>6 DEF SendFrame
    <2>2. /\ Sent(r.codec) \in CodecT /\ Sent(r.codec).state = r.codec.state
          /\ Sent(r.codec).caps = r.codec.caps /\ Sent(r.codec).unsent = r.codec.unsent
      <3>1. r.codec \in CodecT
        BY <1>4
      <3>2. Append(r.codec.delayed, count.frames + 1) \in Seq(Nat)
        BY <1>1, <3>1 DEF CodecT
      <3>3. QED
        BY <3>1, <3>2 DEF Sent, CodecT
    <2>3. QED
      BY <1>1, <1>2, <1>4, <2>1, <2>2, FrameKeeps
  <1>8. CASE \E r \in Reopened : /\ enc' = r.enc /\ codec' = r.codec
                                 /\ hist' = ReopenHist(r) /\ task' = task
    BY <1>1, <1>2, <1>4, <1>8, FrameKeeps
  <1>9. CASE \E r \in Reopened : /\ enc' = r.enc /\ codec' = r.codec
                                 /\ hist' = Skewed(ReopenHist(r), "refused", TRUE)
                                 /\ task' \in {task, [at |-> "receive", why |-> "frame"]}
    <2>1. PICK r \in Reopened : /\ enc' = r.enc /\ codec' = r.codec
                                /\ hist' = Skewed(ReopenHist(r), "refused", TRUE)
                                /\ task' \in {task, [at |-> "receive", why |-> "frame"]}
      BY <1>9
    <2>2. "refused" \in Causes
      BY DEF Causes
    <2>3. /\ hist' \in HistT /\ hist'.peer = ReopenHist(r).peer
          /\ hist'.reopen = ReopenHist(r).reopen
      BY <1>4, <2>1, <2>2, SkewedKeeps
    <2>4. QED
      BY <1>1, <1>2, <1>4, <2>1, <2>3, FrameKeeps
  <1>11. CASE AudioFrame
    BY <1>3, <1>5, <1>6, <1>9, <1>11 DEF AudioFrame
  <1>10. QED
    BY <1>5, <1>6, <1>8, <1>11 DEF HandleFrame, VideoFrame

-----------------------------------------------------------------------------
(* What comes of sending NULL: a codec that was not draining does so now   *)
(* only if NULL was sent, or if it is remembered that it was not.          *)
LEMMA SentSays ==
  ASSUME codec \in CodecT, NEW sent \in SentNull
  PROVE  /\ sent.result \in {"ok", "eof", "error"} /\ sent.codec \in CodecT
         /\ sent.codec.caps = codec.caps /\ sent.codec.delayed = codec.delayed
         /\ sent.codec.state \in {codec.state, "draining"}
         /\ sent.codec.state = "draining" =>
              \/ sent.codec = codec /\ codec.state = "draining"
              \/ sent.result = "ok" \/ sent.codec.unsent
  <1> DEFINE draining == [codec EXCEPT !.state = "draining"]
             stuck == [draining EXCEPT !.unsent = TRUE]
  <1>1. /\ draining \in CodecT /\ draining.caps = codec.caps
        /\ draining.delayed = codec.delayed /\ draining.state = "draining"
    BY DEF CodecT
  <1>2. /\ stuck \in CodecT /\ stuck.caps = codec.caps
        /\ stuck.delayed = codec.delayed /\ stuck.state = "draining" /\ stuck.unsent
    BY <1>1 DEF CodecT
  <1>3. IF codec.state = "draining" THEN sent = [result |-> "eof", codec |-> codec]
        ELSE sent \in {[result |-> "ok", codec |-> draining],
                       [result |-> "error", codec |-> codec],
                       [result |-> "error", codec |-> stuck]}
    BY DEF SentNull
  <1> HIDE DEF draining, stuck
  <1>4. QED
    BY <1>1, <1>2, <1>3

LEMMA BeginsDrain ==
  ASSUME EncInv, NEW why \in {"finish", "stop"}, DrainFor(why)
  PROVE  EncInv'
  <1>1. /\ media' = media /\ canFlush' = canFlush /\ hist' = hist /\ count' = count /\ task.at = "idle"
        /\ enc \in EncT /\ codec \in CodecT
    BY DEF DrainFor, Idle, EncInv, EncTypeOK
  <1>2. task' \in TaskT /\ task'.at # "idle" /\ task'.why # "frame"
    BY DEF DrainFor, TaskT, AfterNull
  <1>3. CASE ~enc.opened
    <2>1. enc' = enc /\ codec' = codec /\ codec.state # "draining"
      BY <1>3 DEF DrainFor, EncInv, CodecState
    <2>2. QED
      BY <1>1, <1>2, <2>1, SameCodec DEF EncInv, EncTypeOK
  <1>4. CASE enc.opened
    <2>1. /\ enc' \in EncT /\ enc'.accepted = enc.accepted /\ enc'.opened
          /\ enc'.input_state = enc.input_state /\ enc'.reorder = enc.reorder
          /\ enc'.need_reopen \/ canFlush
          /\ enc.need_reopen => enc'.need_reopen
      <3>1. enc' = [enc EXCEPT !.need_reopen = Reopen] /\ Reopen \in BOOLEAN
        BY <1>4 DEF DrainFor, Reopen
      <3>2. (Reopen \/ canFlush) /\ (enc.need_reopen => Reopen)
        BY DEF Reopen
      <3>3. QED
        BY <1>1, <1>4, <3>1, <3>2 DEF EncT
    <2>2. PICK sent \in SentNull : /\ codec' = sent.codec
                                  /\ task' = [at |-> AfterNull(sent.result), why |-> why]
      BY <1>4 DEF DrainFor
    <2>3. /\ codec' \in CodecT /\ codec'.caps = codec.caps
          /\ codec'.state = "draining" =>
               \/ codec' = codec /\ codec.state = "draining"
               \/ sent.result = "ok" \/ codec'.unsent
      BY <1>1, <2>2, SentSays
    <2>4. sent.result \in {"ok", "eof", "error"} /\ media \in {"video", "audio"}
      BY <1>1, <2>2, SentSays DEF EncInv, EncTypeOK
    <2>5. EncTypeOK'
      BY <1>1, <1>2, <2>1, <2>3 DEF EncInv, EncTypeOK
    <2>6. codec'.state = "draining" =>
             enc'.need_reopen \/ Forgotten(codec') \/ BeingDrained(task')
      <3> SUFFICES ASSUME codec'.state = "draining", ~enc'.need_reopen
                   PROVE  Forgotten(codec') \/ BeingDrained(task')
        OBVIOUS
      <3>1. canFlush /\ task'.why # "frame" /\ task'.at = AfterNull(sent.result)
        BY <1>2, <2>1, <2>2
      <3>2. CASE task'.at \in {"receive", "drained"}
        BY <1>1, <3>1, <3>2 DEF BeingDrained
      <3>3. CASE task'.at \notin {"receive", "drained"}
        <4>1. media = "video" /\ sent.result # "ok"
          BY <2>4, <3>1, <3>3 DEF AfterNull
        <4>2. codec.state = "draining" => enc.need_reopen \/ codec.unsent
          BY <1>1 DEF EncInv, CodecState, Forgotten, BeingDrained
        <4>3. ~enc.need_reopen
          BY <2>1
        <4>4. codec'.unsent
          BY <2>3, <4>1, <4>2, <4>3
        <4>5. QED
          BY <3>1, <4>1, <4>4 DEF Forgotten
      <3>4. QED
        BY <3>2, <3>3
    <2>7. CodecState'
      BY <1>1, <1>2, <1>4, <2>1, <2>6 DEF EncInv, CodecState, Forgotten, BeingDrained
    <2>8. AcceptedIsOpen' /\ CodecFitsFormat' /\ OwnLayout'
      BY <1>1, <1>4, <2>1, <2>3
      DEF EncInv, AcceptedIsOpen, CodecFitsFormat, OwnLayout
    <2>9. QED
      BY <2>5, <2>7, <2>8 DEF EncInv
  <1>5. QED
    BY <1>3, <1>4

(* Flushing empties and opens the codec that can be flushed, only.         *)
LEMMA FlushKeeps ==
  ASSUME EncInv
  PROVE  /\ Flushed(codec) \in CodecT /\ Flushed(codec).caps = codec.caps
         /\ Flushed(codec).state \in {codec.state, "open"}
         /\ codec.state = "closed" => Flushed(codec).state = "closed"
  <1>1. codec \in CodecT /\ <<>> \in Seq(Nat)
    BY DEF EncInv, EncTypeOK
  <1>2. QED
    BY <1>1 DEF Flushed, CodecT

LEMMA EndsDrain == EncInv /\ DrainEnd => EncInv'
  <1> SUFFICES ASSUME EncInv, DrainEnd PROVE EncInv'
    OBVIOUS
  <1>1. media' = media /\ canFlush' = canFlush /\ count' = count
        /\ task' = [at |-> "idle", why |-> "none"] /\ task' \in TaskT
    BY DEF DrainEnd, TaskT
  <1>2. enc \in EncT /\ codec \in CodecT /\ hist \in HistT
    BY DEF EncInv, EncTypeOK
  <1>3. CASE task.why = "stop"
    <2>1. enc' = Stopped /\ codec' = NoCodec /\ hist' = NoHistory
      BY <1>3 DEF DrainEnd
    <2>2. Stopped \in EncT /\ ~Stopped.accepted /\ ~Stopped.opened
          /\ ~Stopped.need_reopen /\ Stopped.reorder = None
      BY DEF Stopped, EncT
    <2>3. QED
      BY <1>1, <2>1, <2>2, Restarts
  <1>4. CASE task.why # "stop"
    <2>1. /\ enc' = enc
          /\ IF task.at = "done" THEN codec' = codec /\ hist' = hist
             ELSE /\ codec' = Flushed(codec)
                  /\ hist' = Skewed(hist, "drain", codec.delayed # <<>>)
      BY <1>4 DEF DrainEnd
    <2>2. hist' \in HistT /\ hist'.peer = hist.peer /\ hist'.reopen = hist.reopen
      <3>1. "drain" \in Causes
        BY DEF Causes
      <3>2. QED
        BY <1>2, <2>1, <3>1, SkewedKeeps
    <2>3. /\ codec' \in CodecT /\ codec'.caps = codec.caps
          /\ codec'.state \in {codec.state, "open"}
          /\ codec.state = "closed" => codec'.state = codec.state
          /\ codec'.state = "draining" => enc.need_reopen \/ Forgotten(codec')
      <3>1. codec.state = "draining" => enc.need_reopen \/ Forgotten(codec) \/ BeingDrained(task)
        BY DEF EncInv, CodecState
      <3>2. CASE task.at = "done"
        BY <1>2, <2>1, <3>1, <3>2 DEF BeingDrained
      <3>3. CASE task.at # "done"
        <4>1. canFlush /\ codec.state = "draining" => Flushed(codec).state = "open"
          BY <1>2 DEF Flushed, CodecT
        <4>2. Flushed(codec).state = "draining" => codec.state = "draining"
          BY FlushKeeps
        <4>3. codec'.state = "draining" => enc.need_reopen
          BY <2>1, <3>1, <3>3, <4>1, <4>2 DEF Forgotten, BeingDrained
        <4>4. QED
          BY <2>1, <3>3, <4>3, FlushKeeps
      <3>4. QED
        BY <3>2, <3>3
    <2>4. EncTypeOK'
      BY <1>1, <2>1, <2>2, <2>3 DEF EncInv, EncTypeOK
    <2>5. CodecState'
      BY <1>1, <2>1, <2>2, <2>3 DEF EncInv, CodecState, Forgotten
    <2>6. AcceptedIsOpen' /\ CodecFitsFormat' /\ OwnLayout'
      BY <2>1, <2>2, <2>3
      DEF EncInv, AcceptedIsOpen, CodecFitsFormat, OwnLayout
    <2>7. QED
      BY <2>4, <2>5, <2>6 DEF EncInv
  <1>5. QED
    BY <1>3, <1>4

LEMMA Flushes == EncInv /\ Flush => EncInv'
  <1> SUFFICES ASSUME EncInv, Flush PROVE EncInv'
    OBVIOUS
  <1>1. /\ media' = media /\ canFlush' = canFlush /\ count' = count /\ task' = task
        /\ enc' = enc /\ codec' = IF enc.opened THEN Flushed(codec) ELSE codec
    BY DEF Flush
  <1>2. codec \in CodecT /\ hist \in HistT
    BY DEF EncInv, EncTypeOK
  <1>3. /\ hist' \in HistT
        /\ hist'.peer = hist.peer /\ hist'.reopen = hist.reopen
    <2> DEFINE h == [hist EXCEPT !.skew = {}, !.out = "none"]
    <2>1. /\ h \in HistT
          /\ h.peer = hist.peer /\ h.reopen = hist.reopen
      BY <1>2 DEF HistT
    <2>2. hist' = Skewed(h, "flush", codec'.delayed # <<>>)
      BY DEF Flush
    <2>3. "flush" \in Causes
      BY DEF Causes
    <2> HIDE DEF h
    <2>4. QED
      BY <2>1, <2>2, <2>3, SkewedKeeps
  <1>4. /\ codec' \in CodecT /\ codec'.caps = codec.caps
        /\ codec'.state \in {codec.state, "open"}
        /\ ~enc.opened \/ codec.state = "closed" => codec'.state = codec.state
        /\ codec'.state = "draining" => enc.need_reopen
    <2>1. codec.state = "draining" =>
            enc.opened /\ (enc.need_reopen \/ Forgotten(codec) \/ BeingDrained(task))
      BY DEF EncInv, CodecState
    <2>2. canFlush /\ codec.state = "draining" => Flushed(codec).state = "open"
      BY <1>2 DEF Flushed, CodecT
    <2>3. Flushed(codec).state = "draining" => codec.state = "draining"
      BY FlushKeeps
    <2>4. codec'.state = "draining" => enc.need_reopen
      BY <1>1, <2>1, <2>2, <2>3 DEF Forgotten, BeingDrained
    <2>5. QED
      BY <1>1, <1>2, <2>4, FlushKeeps
  <1>5. EncTypeOK'
    BY <1>1, <1>3, <1>4 DEF EncInv, EncTypeOK
  <1>6. CodecState'
    BY <1>1, <1>3, <1>4 DEF EncInv, CodecState
  <1>7. AcceptedIsOpen' /\ CodecFitsFormat' /\ OwnLayout'
    BY <1>1, <1>3, <1>4
    DEF EncInv, AcceptedIsOpen, CodecFitsFormat, OwnLayout
  <1>8. QED
    BY <1>5, <1>6, <1>7 DEF EncInv

-----------------------------------------------------------------------------
LEMMA Inductive == EncInv /\ [Next]_vars => EncInv'
  <1> SUFFICES ASSUME EncInv, [Next]_vars PROVE EncInv'
    OBVIOUS
  <1>1. CASE DownstreamFails \/ UNCHANGED vars
    <2>1. /\ media' = media /\ canFlush' = canFlush /\ enc' = enc /\ codec' = codec
          /\ task' = task /\ hist' = hist /\ count' = count
      BY <1>1 DEF DownstreamFails, vars
    <2>2. QED
      BY <2>1, SameCodec DEF EncInv, EncTypeOK, CodecState
  <1>2. CASE Finish \/ VideoStop
    BY <1>2, BeginsDrain DEF Finish, VideoStop
  <1>3. QED
    BY <1>1, <1>2, StartsAndStops, SetsFormat, HandlesFrame, TakesPackets,
       EndsDrain, Flushes
    DEF Next

(* Element, codec and caps go together (gstavvidenc.c, gstavaudenc.c).     *)
THEOREM InvHolds == Spec => []EncInv
  BY InitInv, Inductive, PTL DEF Spec

(* Frames reach an element that has its codec open, or whose one attempt   *)
(* to open it again has failed (gstavvidenc.c, gstavaudenc.c).             *)
THEOREM AcceptsWhenOpen == Spec => []AcceptedIsOpen
  <1>1. EncInv => AcceptedIsOpen
    BY DEF EncInv
  <1>2. QED
    BY <1>1, InvHolds, PTL

(* The codec of an opened element was made for its caps, as long as        *)
(* downstream has not refused what a codec makes.                          *)
THEOREM OpensOwnCaps == Spec => []CodecFitsFormat
  <1>1. EncInv => CodecFitsFormat
    BY DEF EncInv
  <1>2. QED
    BY <1>1, InvHolds, PTL

(* No frame meets a codec that is still drained: it has been flushed or is *)
(* opened again first, but for a video encoder's whose NULL failed.        *)
THEOREM DrainsStartAnew == Spec => []DrainedStartsAnew
  <1>1. EncInv => DrainedStartsAnew
    BY DEF EncInv, CodecState, DrainedStartsAnew, Idle, Forgotten, BeingDrained
  <1>2. QED
    BY <1>1, InvHolds, PTL

(* Channels are reordered for the caps of the session, unless they have no *)
(* layout and the one before them is still in force.                       *)
THEOREM ReordersOwnCaps == Spec => []OwnLayout
  <1>1. EncInv => OwnLayout
    BY DEF EncInv
  <1>2. QED
    BY <1>1, InvHolds, PTL

-----------------------------------------------------------------------------
(* Whose frames the packets are.  As long as nothing was lost the base     *)
(* class holds the frames of exactly the packets to come.  A codec that    *)
(* can be flushed is never opened again by handle_frame, and it holds no   *)
(* packets behind the element's back: it never has more of them than there *)
(* are frames.                                                             *)
FrameInv ==
  /\ FrameForEveryPacket /\ OwnFrame
  /\ frames \in Seq(Nat)
  /\ hist.skew = {} => frames = codec.delayed
  /\ ~enc.started => ~enc.accepted /\ frames = <<>>
  /\ codec.state = "closed" => codec.delayed = <<>>
  /\ canFlush => /\ ~enc.need_reopen /\ hist.reopen = "ok"
                 /\ ~enc.opened => codec.delayed = <<>>

(* A cause added to the history leaves the last packet alone.              *)
LEMMA SkewedSays ==
  ASSUME NEW h \in HistT, NEW cause \in Causes, NEW really
  PROVE  Skewed(h, cause, really).out = h.out
  <1>1. [h EXCEPT !.skew = @ \cup {cause}].out = h.out
    BY DEF HistT
  <1>2. QED
    BY <1>1 DEF Skewed

(* A history that still has no cause to mismatch had none before.          *)
LEMMA SkewedEmpty ==
  ASSUME NEW h \in HistT, NEW cause \in Causes, NEW really \in BOOLEAN,
         Skewed(h, cause, really).skew = {}
  PROVE  h.skew = {} /\ ~really
  BY DEF Skewed, HistT

(* What set_format makes of the packets: they are lost with a codec that   *)
(* was opened, and else stay what they were.                               *)
LEMMA FormatPackets ==
  ASSUME EncInv, codec.state = "closed" => codec.delayed = <<>>,
         NEW c \in InCaps, NEW r \in Format(enc, codec, c)
  PROVE  /\ r.codec.delayed \in {<<>>, codec.delayed}
         /\ r.codec.state = "closed" => r.codec.delayed = <<>>
         /\ enc.opened => r.codec.delayed = <<>>
         /\ r.enc.started = enc.started
  <1>1. enc \in EncT /\ codec \in CodecT
    BY DEF EncInv, EncTypeOK
  <1> DEFINE fresh == FreshContext(enc, codec)
             open == OpenCodec(fresh, c)
             shut == Layout(Closed(enc), c)
  <1>2. /\ fresh.delayed \in {<<>>, codec.delayed}
        /\ fresh.state = "closed" => fresh.delayed = <<>>
        /\ enc.opened => fresh.delayed = <<>>
    BY DEF FreshContext, NoCodec
  <1>3. /\ open.delayed \in {<<>>, codec.delayed}
        /\ open.state = "closed" => open.delayed = <<>>
        /\ enc.opened => open.delayed = <<>>
    <2>1. [NoCodec EXCEPT !.state = "open", !.caps = c].delayed = <<>>
      BY DEF NoCodec
    <2> HIDE DEF fresh
    <2>2. QED
      BY <1>2, <2>1 DEF OpenCodec
  <1>4. NoCodec.delayed = <<>>
    BY DEF NoCodec
  <1>5. r.codec \in {fresh, open, NoCodec}
    BY DEF Format, VideoFormat, AudioFormat
  <1>6. /\ Closed(enc).started = enc.started /\ shut.started = enc.started
        /\ Opened(Closed(enc), c).started = enc.started
        /\ Opened(shut, c).started = enc.started
    BY <1>1 DEF Closed, Opened, Layout, EncT
  <1>7. r.enc \in {Closed(enc), shut, Opened(Closed(enc), c), Opened(shut, c)}
    BY DEF Format, VideoFormat, AudioFormat
  <1> HIDE DEF fresh, open, shut
  <1>8. QED
    BY <1>2, <1>3, <1>4, <1>5, <1>6, <1>7

(* ... and of the history: only lost packets are a cause.                  *)
LEMMA FormattedPackets ==
  ASSUME EncInv, NEW r
  PROVE  /\ Formatted(r).out = hist.out
         /\ Formatted(r).skew = {} =>
              hist.skew = {} /\ (codec.delayed = <<>> \/ r.codec.delayed # <<>>)
  <1> DEFINE h == [hist EXCEPT !.peer = @ \/ r.result = "peer"]
             lost == codec.delayed # <<>> /\ r.codec.delayed = <<>>
  <1>1. hist \in HistT /\ (hist.peer \/ r.result = "peer") \in BOOLEAN
    BY DEF EncInv, EncTypeOK
  <1>2. h \in HistT /\ h.out = hist.out /\ h.skew = hist.skew
    BY <1>1 DEF HistT
  <1>3. lost \in BOOLEAN /\ "format" \in Causes
    BY DEF Causes
  <1>4. Formatted(r) = Skewed(h, "format", lost)
    BY DEF Formatted
  <1>5. /\ Skewed(h, "format", lost).out = h.out
        /\ Skewed(h, "format", lost).skew = {} => h.skew = {} /\ ~lost
    <2> HIDE DEF h, lost
    <2>1. h \in HistT
      BY <1>2
    <2>2. QED
      BY <2>1, <1>3, SkewedSays, SkewedEmpty
  <1>6. QED
    BY <1>2, <1>4, <1>5

(* The same at the start of handle_frame.  A codec that can be flushed is  *)
(* taken as it is.                                                         *)
LEMMA ReopenedPackets ==
  ASSUME EncInv, FrameInv, NEW r \in Reopened, Ready(r)
  PROVE  /\ r.codec.delayed \in {<<>>, codec.delayed}
         /\ r.codec.state = "closed" => r.codec.delayed = <<>>
         /\ r.enc.started = enc.started
         /\ canFlush => r.result = "ok" /\ r.enc = enc /\ r.codec = codec
         /\ ReopenHist(r).out = hist.out
         /\ ReopenHist(r).skew = {} => hist.skew = {} /\ r.codec.delayed = codec.delayed
  <1>1. /\ r.codec.delayed \in {<<>>, codec.delayed}
        /\ r.codec.state = "closed" => r.codec.delayed = <<>>
        /\ r.enc.started = enc.started
    <2>1. CASE enc.need_reopen
      <3>1. enc.input_state \in InCaps /\ r \in Format(enc, codec, enc.input_state)
        BY <2>1 DEF EncInv, CodecState, Reopened
      <3>2. codec.state = "closed" => codec.delayed = <<>>
        BY DEF FrameInv
      <3>3. QED
        BY <3>1, <3>2, FormatPackets
    <2>2. CASE ~enc.need_reopen
      BY <2>2 DEF Reopened, FrameInv
    <2>3. QED
      BY <2>1, <2>2
  <1>2. canFlush => r.result = "ok" /\ r.enc = enc /\ r.codec = codec
    BY DEF Reopened, FrameInv
  <1>3. Formatted(r) \in HistT
    BY FormattedKeeps
  <1>4. ReopenHist(r).out = Formatted(r).out /\ ReopenHist(r).skew = Formatted(r).skew
    BY <1>3 DEF ReopenHist, HistT
  <1>5. QED
    BY <1>1, <1>2, <1>4, FormattedPackets

(* A step that tells nothing of a packet and takes back no cause.          *)
LEMMA SameOut ==
  ASSUME OwnFrame, hist'.out = hist.out, hist'.skew = {} => hist.skew = {}
  PROVE  OwnFrame'
  BY DEF OwnFrame

(* What any step of a session has to keep.                                 *)
LEMMA KeepsFrames ==
  ASSUME FrameInv, canFlush' = canFlush, OwnFrame',
         hist'.skew = {} => frames' = codec'.delayed,
         frames' \in Seq(Nat),
         enc'.started = enc.started, enc'.accepted => enc.started,
         ~enc.started => frames' = <<>>,
         codec'.state = "closed" => codec'.delayed = <<>>,
         canFlush => /\ ~enc'.need_reopen /\ hist'.reopen = "ok"
                     /\ ~enc'.opened => codec'.delayed = <<>>
                     /\ Len(codec'.delayed) <= Len(frames') /\ status' # "no frame"
  PROVE  FrameInv'
  BY DEF FrameInv, FrameForEveryPacket, OwnFrame

LEMMA SameLength ==
  ASSUME NEW s \in Seq(Nat), NEW t, t = s
  PROVE  Len(t) <= Len(s)
  BY LenProperties

(* Steps that leave nothing behind: no frame and no packet.                *)
LEMMA FreshFrames ==
  ASSUME canFlush' = canFlush, hist' = NoHistory, frames' = <<>>, codec' = NoCodec,
         ~enc'.accepted, ~enc'.need_reopen, status' # "no frame"
  PROVE  FrameInv'
  <1>1. frames' \in Seq(Nat)
    <2>1. <<>> \in Seq(Nat)
      BY EmptySeq
    <2>2. QED
      BY <2>1
  <1>2. codec'.delayed = <<>> /\ hist'.out = "none" /\ hist'.reopen = "ok"
    BY DEF NoCodec, NoHistory
  <1>3. Len(codec'.delayed) <= Len(frames')
    <2>1. codec'.delayed = frames'
      BY <1>2
    <2>2. QED
      BY <1>1, <2>1, SameLength
  <1>4. FrameForEveryPacket' /\ OwnFrame'
    <2>1. FrameForEveryPacket'
      BY <1>3 DEF FrameForEveryPacket
    <2>2. OwnFrame'
      BY <1>2 DEF OwnFrame
    <2>3. QED
      BY <2>1, <2>2
  <1>5. QED
    BY <1>1, <1>2, <1>4 DEF FrameInv

LEMMA EmptyIsShortest ==
  ASSUME NEW s \in Seq(Nat)
  PROVE  <<>> \in Seq(Nat) /\ Len(<<>>) <= Len(s)
  BY EmptySeq, LenProperties

(* A sequence whose newest member is taken away again.                     *)
LEMMA NewestGone ==
  ASSUME NEW s \in Seq(Nat), NEW n \in Nat
  PROVE  SubSeq(Append(s, n), 1, Len(Append(s, n)) - 1) = s
  BY AppendProperties, LenProperties

LEMMA FramesFormat ==
  ASSUME EncInv, FrameInv, SetFormat
  PROVE  FrameInv'
  <1>1. /\ canFlush' = canFlush /\ frames' = frames /\ status' = status
        /\ enc.started /\ frames \in Seq(Nat)
    BY DEF SetFormat, FrameInv
  <1>2. PICK c \in InCaps :
          \E r \in Format(enc, codec, c) :
            /\ enc' = [r.enc EXCEPT !.accepted = Accepts(r.result)]
            /\ codec' = r.codec
            /\ hist' = [Formatted(r) EXCEPT !.reopen = "ok"]
    BY DEF SetFormat
  <1>3. PICK r \in Format(enc, codec, c) :
          /\ enc' = [r.enc EXCEPT !.accepted = Accepts(r.result)]
          /\ codec' = r.codec
          /\ hist' = [Formatted(r) EXCEPT !.reopen = "ok"]
    BY <1>2
  <1>4. r.enc \in EncT /\ ~r.enc.need_reopen
    BY Outcomes DEF Outcome
  <1>5. /\ r.codec.delayed \in {<<>>, codec.delayed}
        /\ r.codec.state = "closed" => r.codec.delayed = <<>>
        /\ enc.opened => r.codec.delayed = <<>>
        /\ r.enc.started = enc.started
    BY FormatPackets DEF FrameInv
  <1>6. enc'.started = enc.started /\ ~enc'.need_reopen
    BY <1>3, <1>4, <1>5 DEF EncT
  <1>7. Formatted(r) \in HistT
    BY FormattedKeeps
  <1>8. hist'.reopen = "ok" /\ hist'.out = Formatted(r).out /\ hist'.skew = Formatted(r).skew
    BY <1>3, <1>7 DEF HistT
  <1>9. /\ hist'.out = hist.out
        /\ hist'.skew = {} =>
             hist.skew = {} /\ (codec.delayed = <<>> \/ r.codec.delayed # <<>>)
    BY <1>8, FormattedPackets
  <1>10. hist'.skew = {} => frames' = codec'.delayed
    BY <1>1, <1>3, <1>5, <1>9 DEF FrameInv
  <1>11. canFlush => codec'.delayed = <<>>
    BY <1>3, <1>5 DEF FrameInv
  <1>12. canFlush => Len(codec'.delayed) <= Len(frames') /\ status' # "no frame"
    BY <1>1, <1>11, EmptyIsShortest DEF FrameInv, FrameForEveryPacket
  <1>13. OwnFrame'
    BY <1>9, SameOut DEF FrameInv
  <1>14. codec'.state = "closed" => codec'.delayed = <<>>
    BY <1>3, <1>5
  <1>15. QED
    BY <1>1, <1>6, <1>8, <1>10, <1>11, <1>12, <1>13, <1>14, KeepsFrames

LEMMA FramesHandle ==
  ASSUME EncInv, FrameInv, HandleFrame
  PROVE  FrameInv'
  <1> DEFINE n == count.frames + 1
  <1>1. /\ canFlush' = canFlush /\ task.at = "idle" /\ enc.accepted /\ enc.started
        /\ status = "ok" /\ n \in Nat /\ frames \in Seq(Nat) /\ codec.delayed \in Seq(Nat)
        /\ Numbered = Append(frames, n)
    BY DEF HandleFrame, Idle, EncInv, EncTypeOK, CountT, CodecT, FrameInv, Numbered
  <1>2. Numbered \in Seq(Nat) /\ Len(Numbered) = Len(frames) + 1
        /\ Len(frames) \in Nat /\ Len(codec.delayed) \in Nat
    BY <1>1, AppendProperties, LenProperties
  <1>3. canFlush => /\ enc.opened /\ ~enc.need_reopen /\ hist.reopen = "ok"
                    /\ Len(codec.delayed) <= Len(frames)
    BY <1>1 DEF EncInv, AcceptedIsOpen, FrameInv, FrameForEveryPacket
  <1>4. ASSUME NEW r \in Reopened
        PROVE  /\ Ready(r)
               /\ ReopenHist(r) \in HistT
               /\ ReopenHist(r).reopen = IF enc.need_reopen THEN r.result ELSE hist.reopen
               /\ r.codec.delayed \in {<<>>, codec.delayed}
               /\ r.codec.state = "closed" => r.codec.delayed = <<>>
               /\ r.enc.started = enc.started
               /\ canFlush => r.result = "ok" /\ r.enc = enc /\ r.codec = codec
               /\ ReopenHist(r).out = hist.out
               /\ ReopenHist(r).skew = {} => hist.skew = {} /\ r.codec.delayed = codec.delayed
    <2>1. Ready(r)
      BY <1>1, IsReady
    <2>2. QED
      BY <2>1, ReopenHistKeeps, ReopenedPackets
  <1>5. CASE UNCHANGED <<enc, codec, frames, hist>> /\ status' = "double unref"
    BY <1>1, <1>5 DEF FrameInv, FrameForEveryPacket, OwnFrame
  <1>6. CASE ReopenFails
    <2>1. PICK r \in Reopened :
            /\ r.result # "ok"
            /\ enc' = r.enc /\ codec' = r.codec /\ frames' = Numbered
            /\ hist' = Skewed(ReopenHist(r), "reopen", TRUE)
      BY <1>6 DEF ReopenFails
    <2>2. hist'.skew # {}
      BY <1>4, <2>1, SkewedEmpty DEF Causes
    <2>3. OwnFrame'
      BY <2>2 DEF OwnFrame
    <2>4. ~canFlush
      BY <1>4, <2>1
    <2>5. QED
      BY <1>1, <1>2, <1>4, <2>1, <2>2, <2>3, <2>4, KeepsFrames
  <1>7. CASE SendFrame
    <2>1. PICK r \in Reopened :
            /\ r.codec.state = "open" /\ enc' = r.enc /\ codec' = Sent(r.codec)
            /\ frames' = Numbered /\ hist' = ReopenHist(r) /\ status' = status
      BY <1>7 DEF SendFrame
    <2>2. codec'.delayed = Append(r.codec.delayed, n) /\ codec'.state = "open"
      BY <1>4, <2>1 DEF Sent, Ready, CodecT
    <2>3. hist'.skew = {} => frames' = codec'.delayed
      BY <1>1, <1>4, <2>1, <2>2 DEF FrameInv
    <2>4. OwnFrame'
      BY <1>4, <2>1, SameOut DEF FrameInv
    <2>5. canFlush => /\ ~enc'.need_reopen /\ hist'.reopen = "ok" /\ enc'.opened
                      /\ Len(codec'.delayed) <= Len(frames')
      <3> SUFFICES ASSUME canFlush
                   PROVE  /\ ~enc'.need_reopen /\ hist'.reopen = "ok" /\ enc'.opened
                          /\ Len(codec'.delayed) <= Len(frames')
        OBVIOUS
      <3>1. ~enc'.need_reopen /\ hist'.reopen = "ok" /\ enc'.opened
        BY <1>3, <1>4, <2>1
      <3>2. codec'.delayed = Append(codec.delayed, n)
        BY <1>4, <2>2
      <3>3. Len(codec'.delayed) = Len(codec.delayed) + 1
        BY <1>1, <3>2, AppendProperties
      <3>4. QED
        BY <1>2, <1>3, <2>1, <3>1, <3>3
    <2>6. QED
      BY <1>1, <1>2, <1>4, <2>1, <2>2, <2>3, <2>4, <2>5, KeepsFrames
  <1>9. CASE \E r \in Reopened : /\ enc' = r.enc /\ codec' = r.codec
                                 /\ frames' = FinishFailed(Numbered)
                                 /\ hist' = ReopenHist(r) /\ status' \in {"ok", "double unref"}
    <2>1. PICK r \in Reopened : /\ enc' = r.enc /\ codec' = r.codec
                                /\ frames' = FinishFailed(Numbered)
                                /\ hist' = ReopenHist(r) /\ status' \in {"ok", "double unref"}
      BY <1>9
    <2>2. frames' = frames
      BY <1>1, <2>1, NewestGone DEF FinishFailed
    <2>3. hist'.skew = {} => frames' = codec'.delayed
      BY <1>4, <2>1, <2>2 DEF FrameInv
    <2>4. OwnFrame'
      BY <1>4, <2>1, SameOut DEF FrameInv
    <2>5. canFlush => /\ ~enc'.need_reopen /\ hist'.reopen = "ok" /\ enc'.opened
                      /\ Len(codec'.delayed) <= Len(frames')
      BY <1>3, <1>4, <2>1, <2>2
    <2>6. QED
      BY <1>1, <1>2, <1>4, <2>1, <2>2, <2>3, <2>4, <2>5, KeepsFrames
  <1>10. CASE \E r \in Reopened : /\ enc' = r.enc /\ codec' = r.codec /\ frames' = Numbered
                                  /\ hist' = Skewed(ReopenHist(r), "refused", TRUE)
                                  /\ status' = status
    <2>1. PICK r \in Reopened : /\ enc' = r.enc /\ codec' = r.codec /\ frames' = Numbered
                                /\ hist' = Skewed(ReopenHist(r), "refused", TRUE)
                                /\ status' = status
      BY <1>10
    <2>2. hist'.skew # {} /\ hist'.reopen = ReopenHist(r).reopen
      BY <1>4, <2>1, SkewedEmpty, SkewedKeeps DEF Causes
    <2>3. OwnFrame'
      BY <2>2 DEF OwnFrame
    <2>4. canFlush => /\ ~enc'.need_reopen /\ hist'.reopen = "ok" /\ enc'.opened
                      /\ Len(codec'.delayed) <= Len(frames')
      <3> SUFFICES ASSUME canFlush
                   PROVE  /\ ~enc'.need_reopen /\ hist'.reopen = "ok" /\ enc'.opened
                          /\ Len(codec'.delayed) <= Len(frames')
        OBVIOUS
      <3>1. ~enc'.need_reopen /\ hist'.reopen = "ok" /\ enc'.opened /\ codec' = codec
        BY <1>3, <1>4, <2>1, <2>2
      <3>2. Len(codec'.delayed) <= Len(frames')
        BY <1>2, <1>3, <2>1, <3>1
      <3>3. QED
        BY <3>1, <3>2
    <2>5. QED
      BY <1>1, <1>2, <1>4, <2>1, <2>2, <2>3, <2>4, KeepsFrames
  <1>11. CASE VideoFrame
    BY <1>6, <1>7, <1>9, <1>11 DEF VideoFrame
  <1>12. CASE AudioFrame
    BY <1>5, <1>6, <1>7, <1>10, <1>12 DEF AudioFrame
  <1>13. QED
    BY <1>11, <1>12 DEF HandleFrame

(* A packet and its frame leave together; an error leaves the frame        *)
(* behind.                                                                 *)
LEMMA FramesPackets ==
  ASSUME EncInv, FrameInv, ReceivePacket \/ ReceiveNothing
  PROVE  FrameInv'
  <1>1. /\ canFlush' = canFlush /\ enc' = enc /\ codec \in CodecT /\ hist \in HistT
        /\ frames \in Seq(Nat) /\ codec.delayed \in Seq(Nat) /\ status = "ok"
        /\ codec'.state = codec.state
    BY DEF ReceivePacket, ReceiveNothing, Receiving, EncInv, EncTypeOK, FrameInv, CodecT
  <1>2. Len(frames) \in Nat /\ Len(codec.delayed) \in Nat
    BY <1>1, LenProperties
  <1>3. ASSUME codec.delayed # <<>>, codec' = [codec EXCEPT !.delayed = Tail(@)]
        PROVE  /\ codec'.delayed = Tail(codec.delayed) /\ codec.state # "closed"
               /\ Len(codec'.delayed) = Len(codec.delayed) - 1
               /\ canFlush => enc.opened
    <2>1. codec'.delayed = Tail(codec.delayed)
      BY <1>1, <1>3 DEF CodecT
    <2>2. Len(Tail(codec.delayed)) = Len(codec.delayed) - 1
      BY <1>1, <1>3, HeadTailProperties
    <2>3. QED
      BY <1>3, <2>1, <2>2 DEF FrameInv
  <1>4. CASE ReceivePacket
    <2>1. codec.delayed # <<>> /\ codec' = [codec EXCEPT !.delayed = Tail(@)]
      BY <1>4 DEF ReceivePacket
    <2>2. CASE frames = <<>>
      <3>1. frames' = frames /\ hist' = hist
        BY <1>4, <2>2 DEF ReceivePacket
      <3>2. ~canFlush
        <4>1. Len(frames) = 0
          BY <1>1, <2>2, EmptySeq
        <4>2. Len(codec.delayed) # 0
          BY <1>1, <2>1, EmptySeq
        <4>3. canFlush => Len(codec.delayed) <= Len(frames)
          BY DEF FrameInv, FrameForEveryPacket
        <4>4. QED
          BY <1>2, <4>1, <4>2, <4>3
      <3>3. hist'.skew # {}
        BY <2>1, <2>2, <3>1 DEF FrameInv
      <3>4. OwnFrame'
        BY <3>3 DEF OwnFrame
      <3>5. QED
        BY <1>1, <1>3, <2>1, <2>2, <3>1, <3>2, <3>3, <3>4, KeepsFrames DEF FrameInv
    <2>3. CASE frames # <<>>
      <3>1. /\ frames' = Tail(frames) /\ status' = status
            /\ hist' = [hist EXCEPT !.out = IF Head(frames) = Head(codec.delayed)
                                            THEN "own" ELSE "other"]
        BY <1>4, <2>3 DEF ReceivePacket
      <3>2. frames' \in Seq(Nat) /\ Len(frames') = Len(frames) - 1
        BY <1>1, <2>3, <3>1, HeadTailProperties
      <3>3. /\ hist'.skew = hist.skew /\ hist'.reopen = hist.reopen
            /\ Head(frames) = Head(codec.delayed) => hist'.out = "own"
        BY <1>1, <3>1 DEF HistT
      <3>4. OwnFrame'
        BY <3>3 DEF FrameInv, OwnFrame
      <3>5. hist'.skew = {} => frames' = codec'.delayed
        BY <1>3, <2>1, <3>1, <3>3 DEF FrameInv
      <3>6. enc.started /\ (canFlush => ~enc.need_reopen /\ hist.reopen = "ok")
        BY <2>3 DEF FrameInv
      <3>7. canFlush => Len(codec.delayed) <= Len(frames)
        BY DEF FrameInv, FrameForEveryPacket
      <3>8. canFlush => Len(codec'.delayed) <= Len(frames') /\ status' # "no frame"
        BY <1>1, <1>2, <1>3, <2>1, <3>1, <3>2, <3>7
      <3>9. QED
        BY <1>1, <1>3, <2>1, <3>2, <3>3, <3>4, <3>5, <3>6, <3>8, KeepsFrames
    <2>4. QED
      BY <2>2, <2>3
  <1>5. CASE ReceiveNothing
    <2>1. frames' = frames /\ status' = status
      BY <1>5 DEF ReceiveNothing
    <2>2. CASE UNCHANGED <<codec, hist>>
      BY <1>1, <2>1, <2>2 DEF FrameInv, FrameForEveryPacket, OwnFrame
    <2>3. CASE /\ codec.delayed # <<>> /\ codec' = [codec EXCEPT !.delayed = Tail(@)]
               /\ hist' = Skewed(hist, "error", TRUE)
      <3>1. hist'.skew # {} /\ hist'.reopen = hist.reopen
        BY <1>1, <2>3, SkewedEmpty, SkewedKeeps DEF Causes
      <3>2. OwnFrame'
        BY <3>1 DEF OwnFrame
      <3>3. canFlush => Len(codec.delayed) <= Len(frames)
        BY DEF FrameInv, FrameForEveryPacket
      <3>4. canFlush => Len(codec'.delayed) <= Len(frames') /\ status' # "no frame"
        BY <1>1, <1>2, <1>3, <2>1, <2>3, <3>3
      <3>5. /\ enc.accepted => enc.started
            /\ ~enc.started => frames' = <<>>
            /\ canFlush => ~enc.need_reopen /\ hist.reopen = "ok"
        BY <2>1 DEF FrameInv
      <3>6. QED
        BY <1>1, <1>3, <2>1, <2>3, <3>1, <3>2, <3>4, <3>5, KeepsFrames
    <2>4. QED
      BY <1>5, <2>2, <2>3 DEF ReceiveNothing
  <1>6. QED
    BY <1>4, <1>5

(* A drain begins: a codec that can be flushed is not to be opened again.  *)
LEMMA FramesDrain ==
  ASSUME EncInv, FrameInv, NEW why, DrainFor(why)
  PROVE  FrameInv'
  <1>1. /\ canFlush' = canFlush /\ hist' = hist /\ frames' = frames /\ status' = status
        /\ codec \in CodecT /\ enc \in EncT
    BY DEF DrainFor, EncInv, EncTypeOK
  <1>2. /\ codec'.delayed = codec.delayed
        /\ enc.opened \/ codec'.state = codec.state
        /\ codec'.state \in {codec.state, "draining"}
    BY <1>1, SentSays DEF DrainFor
  <1>3. codec'.state = "closed" => codec.state = "closed"
    BY <1>2
  <1>4. /\ enc'.started = enc.started /\ (enc'.accepted <=> enc.accepted)
        /\ (enc'.opened <=> enc.opened)
        /\ canFlush /\ ~enc.need_reopen => ~enc'.need_reopen
    <2>1. CASE ~enc.opened
      BY <2>1 DEF DrainFor
    <2>2. CASE enc.opened
      <3>1. enc' = [enc EXCEPT !.need_reopen = Reopen]
        BY <2>2 DEF DrainFor
      <3>2. Reopen \in BOOLEAN /\ (canFlush /\ ~enc.need_reopen => ~Reopen)
        BY DEF Reopen
      <3>3. QED
        BY <1>1, <3>1, <3>2 DEF EncT
    <2>3. QED
      BY <2>1, <2>2
  <1>5. QED
    BY <1>1, <1>2, <1>3, <1>4 DEF FrameInv, FrameForEveryPacket, OwnFrame

(* Flushing a codec loses all its packets or none.                         *)
LEMMA FlushPackets ==
  ASSUME codec \in CodecT
  PROVE  /\ Flushed(codec).delayed \in {<<>>, codec.delayed}
         /\ Flushed(codec).state = "closed" => codec.state = "closed"
         /\ canFlush /\ codec.state # "closed" => Flushed(codec).delayed = <<>>
  BY DEF Flushed, CodecT

LEMMA FramesDrained ==
  ASSUME EncInv, FrameInv, DrainEnd
  PROVE  FrameInv'
  <1>1. /\ canFlush' = canFlush /\ status' = status /\ status = "ok"
        /\ codec \in CodecT /\ hist \in HistT /\ frames \in Seq(Nat)
    BY DEF DrainEnd, EncInv, EncTypeOK, FrameInv
  <1>2. CASE task.why = "stop"
    <2>1. enc' = Stopped /\ codec' = NoCodec /\ frames' = <<>> /\ hist' = NoHistory
      BY <1>2 DEF DrainEnd
    <2>2. ~enc'.accepted /\ ~enc'.need_reopen
      BY <2>1 DEF Stopped
    <2>3. QED
      BY <1>1, <2>1, <2>2, FreshFrames
  <1>3. CASE task.why # "stop"
    <2> DEFINE lost == codec.delayed # <<>>
    <2>1. /\ enc' = enc /\ frames' = frames
          /\ IF task.at = "done" THEN codec' = codec /\ hist' = hist
             ELSE codec' = Flushed(codec) /\ hist' = Skewed(hist, "drain", lost)
      BY <1>3 DEF DrainEnd
    <2>2. lost \in BOOLEAN /\ "drain" \in Causes
      BY DEF Causes
    <2>3. /\ hist'.out = hist.out /\ hist'.reopen = hist.reopen
          /\ hist'.skew = {} => hist.skew = {} /\ (codec' = codec \/ ~lost)
      <3> HIDE DEF lost
      <3>1. QED
        BY <1>1, <2>1, <2>2, SkewedSays, SkewedKeeps, SkewedEmpty
    <2>4. /\ codec'.delayed \in {<<>>, codec.delayed}
          /\ codec'.state = "closed" => codec.state = "closed"
      BY <1>1, <2>1, FlushPackets
    <2>5. hist'.skew = {} => frames' = codec'.delayed
      BY <2>1, <2>3, <2>4 DEF FrameInv
    <2>6. OwnFrame'
      BY <2>3, SameOut DEF FrameInv
    <2>7. canFlush => Len(codec'.delayed) <= Len(frames') /\ status' # "no frame"
      BY <1>1, <2>1, <2>4, EmptyIsShortest DEF FrameInv, FrameForEveryPacket
    <2>8. codec'.state = "closed" => codec'.delayed = <<>>
      BY <2>4 DEF FrameInv
    <2>9. /\ enc.accepted => enc.started
          /\ ~enc.started => frames' = <<>>
          /\ canFlush => /\ ~enc.need_reopen /\ hist.reopen = "ok"
                         /\ ~enc.opened => codec'.delayed = <<>>
      BY <2>1, <2>4 DEF FrameInv
    <2>10. QED
      BY <1>1, <2>1, <2>3, <2>5, <2>6, <2>7, <2>8, <2>9, KeepsFrames
  <1>4. QED
    BY <1>2, <1>3

LEMMA FramesFlush ==
  ASSUME EncInv, FrameInv, Flush
  PROVE  FrameInv'
  <1> DEFINE h == [hist EXCEPT !.skew = {}, !.out = "none"]
             kept == codec'.delayed # <<>>
  <1>1. /\ canFlush' = canFlush /\ status' = status /\ enc' = enc /\ frames' = <<>>
        /\ codec' = IF enc.opened THEN Flushed(codec) ELSE codec
        /\ codec \in CodecT /\ hist \in HistT /\ <<>> \in Seq(Nat)
    BY DEF Flush, EncInv, EncTypeOK
  <1>2. hist' = Skewed(h, "flush", kept)
    BY DEF Flush
  <1>3. h \in HistT /\ h.out = "none" /\ h.reopen = hist.reopen
    BY <1>1 DEF HistT
  <1>4. kept \in BOOLEAN /\ "flush" \in Causes
    BY DEF Causes
  <1>5. hist'.out = "none" /\ hist'.reopen = hist.reopen /\ (hist'.skew = {} => ~kept)
    <2> HIDE DEF h, kept
    <2>1. QED
      BY <1>2, <1>3, <1>4, SkewedSays, SkewedKeeps, SkewedEmpty
  <1>6. codec'.state = "closed" => codec'.delayed = <<>>
    BY <1>1, FlushPackets DEF FrameInv
  <1>7. canFlush => codec'.delayed = <<>>
    <2>1. CASE enc.opened /\ codec.state # "closed"
      BY <1>1, <2>1, FlushPackets
    <2>2. CASE enc.opened /\ codec.state = "closed"
      BY <1>1, <2>2, FlushPackets DEF FrameInv
    <2>3. CASE ~enc.opened
      BY <1>1, <2>3 DEF FrameInv
    <2>4. QED
      BY <2>1, <2>2, <2>3
  <1>8. canFlush => Len(codec'.delayed) <= Len(frames') /\ status' # "no frame"
    <2>1. canFlush => codec'.delayed = frames' /\ frames' \in Seq(Nat)
      BY <1>1, <1>7
    <2>2. canFlush => Len(codec'.delayed) <= Len(frames')
      BY <2>1, SameLength
    <2>3. QED
      BY <1>1, <2>2 DEF FrameInv, FrameForEveryPacket
  <1>9. OwnFrame'
    BY <1>5 DEF OwnFrame
  <1>10. QED
    BY <1>1, <1>5, <1>6, <1>7, <1>8, <1>9, KeepsFrames DEF FrameInv

LEMMA FrameStep ==
  ASSUME EncInv, FrameInv, [Next]_vars
  PROVE  FrameInv'
  <1>1. CASE Start
    <2>1. /\ canFlush' = canFlush /\ hist' = NoHistory /\ frames' = <<>>
          /\ codec' = NoCodec /\ status' = "ok" /\ ~enc'.accepted /\ ~enc'.need_reopen
      BY <1>1 DEF Start, Idle, Stopped, FrameInv
    <2>2. QED
      BY <2>1, FreshFrames
  <1>2. CASE AudioStop
    <2>1. /\ canFlush' = canFlush /\ hist' = NoHistory /\ frames' = <<>>
          /\ codec' = NoCodec /\ status' = "ok" /\ ~enc'.accepted /\ ~enc'.need_reopen
      BY <1>2 DEF AudioStop, Idle, Stopped
    <2>2. QED
      BY <2>1, FreshFrames
  <1>3. CASE Finish \/ VideoStop
    BY <1>3, FramesDrain DEF Finish, VideoStop
  <1>4. CASE DownstreamFails \/ UNCHANGED vars
    <2>1. /\ canFlush' = canFlush /\ enc' = enc /\ codec' = codec /\ frames' = frames
          /\ hist' = hist /\ status' = status
      BY <1>4 DEF DownstreamFails, vars
    <2>2. QED
      BY <2>1 DEF FrameInv, FrameForEveryPacket, OwnFrame
  <1>5. QED
    BY <1>1, <1>2, <1>3, <1>4, FramesFormat, FramesHandle, FramesPackets,
       FramesDrained, FramesFlush
    DEF Next

LEMMA FrameHolds == Spec => []FrameInv
  <1>1. Init => FrameInv
    <2> SUFFICES ASSUME Init PROVE FrameInv
      OBVIOUS
    <2>1. frames \in Seq(Nat) /\ codec.delayed = frames
      BY EmptySeq DEF Init, NoCodec
    <2>2. FrameForEveryPacket /\ OwnFrame
      <3>1. Len(codec.delayed) <= Len(frames)
        BY <2>1, SameLength
      <3>2. QED
        BY <3>1 DEF Init, FrameForEveryPacket, OwnFrame, NoHistory
    <2>3. QED
      BY <2>1, <2>2 DEF Init, FrameInv, NoHistory, NoCodec, Stopped
  <1>2. EncInv /\ FrameInv /\ [Next]_vars => FrameInv'
    BY FrameStep
  <1>3. QED
    BY <1>1, <1>2, InvHolds, PTL DEF Spec

(* receive_packet asserts that the base class has a frame for the packet   *)
(* it takes: with a codec that can be flushed it always has, whatever was  *)
(* drained, reconfigured or failed in between.                             *)
THEOREM FramesSuffice == Spec => []FrameForEveryPacket
  <1>1. FrameInv => FrameForEveryPacket
    BY DEF FrameInv
  <1>2. QED
    BY <1>1, FrameHolds, PTL

(* Packets are told from frames by their order alone, and still each one   *)
(* goes out with the frame it was made from, until a frame is left behind. *)
THEOREM PacketsFindFrames == Spec => []OwnFrame
  <1>1. FrameInv => OwnFrame
    BY DEF FrameInv
  <1>2. QED
    BY <1>1, FrameHolds, PTL
=============================================================================
