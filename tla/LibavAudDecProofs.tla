------------------------- MODULE LibavAudDecProofs -------------------------
(***************************************************************************)
(* Theorems about LibavAudDec, for all caps, formats and bounds: the caps  *)
(* that are remembered, the subframes, the state of the codec, the format  *)
(* agreed with downstream and the packets that date the subframes.         *)
(***************************************************************************)
EXTENDS LibavAudDec, SequenceTheorems, TLAPS

DecT   == [started : BOOLEAN, accepted : BOOLEAN, opened : BOOLEAN,
           last_caps : InCaps \cup {None}, info : Formats \cup {None}]
CodecT == [state : {"closed", "open", "draining"}, caps : InCaps \cup {None},
           held : Seq(Nat)]
BaseT  == [pending : Seq(Nat), subframe : BOOLEAN, output : Formats \cup {None}]
TaskT  == [at : {"idle", "read", "read all", "unsent"},
           why : {"none", "packet", "header", "force", "drain", "format"},
           got : BOOLEAN, caps : InCaps \cup {None}]
Causes == {"empty", "header", "silent", "not negotiated", "burst", "error",
           "refused", "unsent", "format"}
HistT  == [skew : SUBSET Causes, out : {"none", "own", "other"},
           format : {"none", "right", "wrong"}]
CountT == [packets : Nat, formats : Nat]

(* The type of every variable of the audio decoder. *)
AudDecTypeOK ==
  /\ dec \in DecT /\ codec \in CodecT /\ base \in BaseT /\ task \in TaskT
  /\ hist \in HistT /\ srcpad \in {"ok", "error"} /\ count \in CountT

(* A subframe is open only while frames are read, by a task that has read  *)
(* one and so will finish it.                                              *)
OpenSubframe ==
  /\ base.subframe => ~Idle /\ task.got
  /\ task.at = "unsent" => ~task.got

(* The codec is open exactly when the element says so, and a packet is     *)
(* sent only to one that is not draining.                                  *)
CodecReady ==
  /\ dec.accepted => dec.opened
  /\ dec.opened => dec.started
  /\ dec.opened <=> codec.state # "closed"
  /\ ~Idle => dec.opened
  /\ ~Idle /\ codec.state = "draining" => task.why \notin {"packet", "header"}
  /\ task.why = "format" => task.caps \in InCaps

AudDecInv == AudDecTypeOK /\ LastCapsOpen /\ OpenSubframe /\ CodecReady

-----------------------------------------------------------------------------
LEMMA InitInv == Init => AudDecInv
  <1> SUFFICES ASSUME Init PROVE AudDecInv
    OBVIOUS
  <1> USE DEF Init, Stopped, NoCodec, NewBase, IdleTask, NoHistory
  <1>1. AudDecTypeOK
    <2>1. dec \in DecT /\ codec \in CodecT /\ base \in BaseT
      BY DEF DecT, CodecT, BaseT
    <2>2. task \in TaskT /\ hist \in HistT /\ count \in CountT
      BY DEF TaskT, HistT, CountT
    <2>3. QED
      BY <2>1, <2>2 DEF AudDecTypeOK
  <1>2. LastCapsOpen /\ OpenSubframe
    BY DEF LastCapsOpen, OpenSubframe
  <1>3. CodecReady
    BY DEF CodecReady, Idle
  <1>4. QED
    BY <1>1, <1>2, <1>3 DEF AudDecInv

(* A cause added to the history keeps it one. *)
LEMMA SkewedKeeps ==
  ASSUME NEW h \in HistT, NEW cause \in Causes, NEW really
  PROVE  Skewed(h, cause, really) \in HistT
  <1>1. h.skew \cup {cause} \in SUBSET Causes
    BY DEF HistT
  <1>2. QED
    BY <1>1 DEF Skewed, HistT

(* Opening a codec, or failing to, for caps c. *)
LEMMA ConfigureKeeps ==
  ASSUME dec \in DecT, dec.started, NEW c \in InCaps, Configure(c)
  PROVE  /\ dec' \in DecT /\ codec' \in CodecT
         /\ LastCapsOpen'
         /\ dec'.accepted => dec'.opened
         /\ dec'.started
         /\ dec'.opened <=> codec'.state # "closed"
         /\ codec'.state # "draining"
  <1>1. CASE dec' = OpenDone(dec, c) /\ codec' = [state |-> "open", caps |-> c, held |-> <<>>]
    <2>1. codec' \in CodecT /\ codec'.state = "open" /\ codec'.caps = c
      BY <1>1 DEF CodecT
    <2>2. dec' \in DecT /\ dec'.opened /\ dec'.last_caps \in {c, None} /\ dec'.started
      BY <1>1 DEF OpenDone, DecT
    <2>3. QED
      BY <2>1, <2>2 DEF LastCapsOpen
  <1>2. CASE dec' = OpenFailed(dec, c) /\ codec' = NoCodec
    <2>1. codec' \in CodecT /\ codec'.state = "closed"
      BY <1>2 DEF CodecT, NoCodec
    <2>2. dec' \in DecT /\ ~dec'.opened /\ ~dec'.accepted /\ dec'.last_caps = None
          /\ dec'.started
      BY <1>2 DEF OpenFailed, DecT
    <2>3. QED
      BY <2>1, <2>2 DEF LastCapsOpen
  <1>3. QED
    BY <1>1, <1>2 DEF Configure

LEMMA StartsAndStops == AudDecInv /\ (Start \/ Stop) => AudDecInv'
  <1> SUFFICES ASSUME AudDecInv, Start \/ Stop PROVE AudDecInv'
    OBVIOUS
  <1>1. /\ codec' = NoCodec /\ base' = NewBase /\ hist' = NoHistory
        /\ task' = task /\ srcpad' = srcpad /\ count' = count /\ Idle
    BY DEF Start, Stop
  <1>2. NoCodec \in CodecT /\ NewBase \in BaseT /\ NoHistory \in HistT
    BY DEF NoCodec, NewBase, NoHistory, CodecT, BaseT, HistT
  <1>3. dec' \in DecT /\ dec'.last_caps = None /\ ~dec'.accepted /\ ~dec'.opened
    <2>1. CASE Start
      BY <2>1 DEF Start, AudDecInv, AudDecTypeOK, DecT, LastCapsOpen, CodecReady
    <2>2. CASE Stop
      BY <2>2 DEF Stop, Stopped, DecT
    <2>3. QED
      BY <2>1, <2>2
  <1>4. AudDecTypeOK'
    BY <1>1, <1>2, <1>3 DEF AudDecInv, AudDecTypeOK
  <1>5. LastCapsOpen' /\ OpenSubframe'
    BY <1>1, <1>3 DEF LastCapsOpen, OpenSubframe, NewBase, Idle
  <1>6. CodecReady'
    BY <1>1, <1>3 DEF CodecReady, NoCodec, Idle, AudDecInv
  <1>7. QED
    BY <1>4, <1>5, <1>6 DEF AudDecInv

(* A drain for the caps c, started while the element is idle. *)
LEMMA DrainKeeps ==
  ASSUME AudDecInv, Idle, dec.opened, NEW c \in InCaps \cup {None},
         NEW why \in {"force", "drain", "format"}, why = "format" => c \in InCaps,
         DrainBegin(why, c), dec' = dec, base' \in BaseT, ~base'.subframe
  PROVE  /\ codec' \in CodecT /\ task' \in TaskT
         /\ LastCapsOpen' /\ OpenSubframe' /\ CodecReady'
  <1>1. codec' \in CodecT /\ codec'.caps = codec.caps /\ codec'.state # "closed"
    <2>1. codec \in CodecT /\ codec.state # "closed"
      BY DEF AudDecInv, AudDecTypeOK, CodecReady
    <2>2. codec' = codec \/ codec' = Draining
      BY DEF DrainBegin, NullFails
    <2>3. QED
      BY <2>1, <2>2 DEF Draining, CodecT
  <1>2. /\ task' \in TaskT /\ task'.at \in {"read", "unsent"} /\ ~task'.got
        /\ task'.why = why /\ task'.caps = c
    <2>1. PICK at \in {"read", "unsent"} :
            task' = [at |-> at, why |-> why, got |-> FALSE, caps |-> c]
      BY DEF DrainBegin
    <2>2. QED
      BY <2>1 DEF TaskT
  <1>3. LastCapsOpen' /\ OpenSubframe'
    BY <1>1, <1>2 DEF AudDecInv, LastCapsOpen, OpenSubframe
  <1>4. CodecReady'
    BY <1>1, <1>2 DEF AudDecInv, CodecReady, Idle
  <1>5. QED
    BY <1>1, <1>2, <1>3, <1>4

LEMMA SetsFormat == AudDecInv /\ SetFormat => AudDecInv'
  <1> SUFFICES ASSUME AudDecInv, SetFormat PROVE AudDecInv'
    OBVIOUS
  <1>1. base' = base /\ srcpad' = srcpad /\ hist' = hist /\ Idle /\ dec.started
    BY DEF SetFormat
  <1>2. count' \in CountT
    BY DEF SetFormat, AudDecInv, AudDecTypeOK, CountT
  <1>3. ~base.subframe /\ hist' \in HistT /\ base' \in BaseT
        /\ srcpad' \in {"ok", "error"} /\ dec \in DecT
    BY <1>1 DEF AudDecInv, AudDecTypeOK, OpenSubframe
  <1>4. PICK c \in InCaps :
          \/ /\ dec.last_caps = c
             /\ dec' = [dec EXCEPT !.accepted = TRUE]
             /\ UNCHANGED <<codec, task>>
          \/ /\ dec.last_caps # c /\ dec.opened
             /\ DrainBegin("format", c) /\ UNCHANGED dec
          \/ dec.last_caps # c /\ ~dec.opened /\ Configure(c) /\ UNCHANGED task
    BY DEF SetFormat
  <1>5. CASE dec.last_caps = c /\ dec' = [dec EXCEPT !.accepted = TRUE]
             /\ UNCHANGED <<codec, task>>
    <2>1. dec.opened
      BY <1>5, AudDecAssumption DEF AudDecInv, LastCapsOpen
    <2>2. /\ dec' \in DecT /\ dec'.last_caps = dec.last_caps
          /\ dec'.opened = dec.opened /\ dec'.started = dec.started
      BY <1>3, <1>5 DEF DecT
    <2>3. LastCapsOpen' /\ OpenSubframe'
      BY <1>1, <1>3, <1>5, <2>2 DEF AudDecInv, LastCapsOpen, OpenSubframe
    <2>4. CodecReady'
      BY <1>1, <1>5, <2>1, <2>2 DEF AudDecInv, CodecReady, Idle
    <2>5. QED
      BY <1>2, <1>3, <1>5, <2>2, <2>3, <2>4 DEF AudDecInv, AudDecTypeOK
  <1>6. CASE dec.last_caps # c /\ dec.opened /\ DrainBegin("format", c)
             /\ UNCHANGED dec
    <2>1. /\ codec' \in CodecT /\ task' \in TaskT
          /\ LastCapsOpen' /\ OpenSubframe' /\ CodecReady'
      BY <1>1, <1>3, <1>6, DrainKeeps
    <2>2. QED
      BY <1>2, <1>3, <1>6, <2>1 DEF AudDecInv, AudDecTypeOK
  <1>7. CASE dec.last_caps # c /\ ~dec.opened /\ Configure(c) /\ UNCHANGED task
    <2>1. /\ dec' \in DecT /\ codec' \in CodecT
          /\ LastCapsOpen'
          /\ dec'.accepted => dec'.opened
          /\ dec'.started
          /\ dec'.opened <=> codec'.state # "closed"
          /\ codec'.state # "draining"
      BY <1>1, <1>3, <1>7, ConfigureKeeps
    <2>2. CodecReady'
      BY <1>1, <1>7, <2>1 DEF AudDecInv, CodecReady, Idle
    <2>3. QED
      BY <1>1, <1>2, <1>3, <1>7, <2>1, <2>2 DEF AudDecInv, AudDecTypeOK, OpenSubframe
  <1>8. QED
    BY <1>4, <1>5, <1>6, <1>7

LEMMA HandlesFrame == AudDecInv /\ HandleFrame => AudDecInv'
  <1> SUFFICES ASSUME AudDecInv, HandleFrame PROVE AudDecInv'
    OBVIOUS
  <1>1. dec' = dec /\ srcpad' = srcpad /\ Idle /\ dec.opened
    BY DEF HandleFrame, AudDecInv, CodecReady
  <1>2. count' \in CountT /\ Number \in Nat
    BY DEF HandleFrame, Number, AudDecInv, AudDecTypeOK, CountT
  <1>3. dec \in DecT /\ codec \in CodecT /\ task \in TaskT /\ hist \in HistT
        /\ srcpad \in {"ok", "error"}
    BY DEF AudDecInv, AudDecTypeOK
  <1>4. base' \in BaseT /\ ~base'.subframe
    <2>1. base' = Provided
      BY DEF HandleFrame, EmptyPacket, SendPacket, RefusePacket
    <2>2. Append(base.pending, Number) \in Seq(Nat) /\ base \in BaseT /\ ~base.subframe
      BY <1>1, <1>2 DEF AudDecInv, AudDecTypeOK, BaseT, OpenSubframe
    <2>3. QED
      BY <2>1, <2>2 DEF Provided, BaseT
  <1>5. CASE EmptyPacket
    <2>1. hist' \in HistT
      BY <1>3, <1>5, SkewedKeeps DEF EmptyPacket, Causes
    <2>2. LastCapsOpen' /\ OpenSubframe'
      BY <1>1, <1>4, <1>5
      DEF EmptyPacket, AudDecInv, LastCapsOpen, OpenSubframe
    <2>3. CodecReady'
      BY <1>1, <1>5 DEF EmptyPacket, AudDecInv, CodecReady, Idle
    <2>4. QED
      BY <1>1, <1>2, <1>3, <1>4, <1>5, <2>1, <2>2, <2>3
      DEF EmptyPacket, AudDecInv, AudDecTypeOK
  <1>6. CASE SendPacket
    <2>1. codec' \in CodecT /\ codec'.caps = codec.caps /\ codec'.state = "open"
      <3>1. Append(codec.held, Number) \in Seq(Nat)
        BY <1>2, <1>3 DEF CodecT
      <3>2. QED
        BY <1>3, <1>6, <3>1 DEF SendPacket, CodecT
    <2>2. task' \in TaskT /\ task'.at = "read" /\ task'.why \in {"packet", "header"}
      <3>1. \E header \in BOOLEAN : task' = ReadFor(IF header THEN "header" ELSE "packet")
        BY <1>6, Zenon DEF SendPacket
      <3>2. PICK why \in {"packet", "header"} : task' = ReadFor(why)
        BY <3>1
      <3>3. QED
        BY <3>2 DEF ReadFor, TaskT
    <2>3. hist' \in HistT
      <3>1. "header" \in Causes /\ "silent" \in Causes
        BY DEF Causes
      <3>2. \/ hist' = hist
            \/ hist' = Skewed(hist, "header", codec.held # <<>>)
            \/ hist' = Skewed(hist, "silent", TRUE)
        BY <1>6 DEF SendPacket
      <3>3. QED
        BY <1>3, <3>1, <3>2, SkewedKeeps
    <2>4. LastCapsOpen' /\ OpenSubframe'
      BY <1>1, <1>4, <2>1, <2>2 DEF AudDecInv, LastCapsOpen, OpenSubframe
    <2>5. CodecReady'
      BY <1>1, <2>1, <2>2 DEF AudDecInv, CodecReady, Idle
    <2>6. QED
      BY <1>1, <1>2, <1>3, <1>4, <2>1, <2>2, <2>3, <2>4, <2>5
      DEF AudDecInv, AudDecTypeOK
  <1>7. CASE RefusePacket
    <2>1. DrainBegin("force", None)
      BY <1>1, <1>7 DEF RefusePacket
    <2>2. hist' \in HistT
      BY <1>3, <1>7 DEF RefusePacket
    <2>3. /\ codec' \in CodecT /\ task' \in TaskT
          /\ LastCapsOpen' /\ OpenSubframe' /\ CodecReady'
      <3>1. Idle /\ dec.opened /\ dec' = dec
        BY <1>1
      <3>2. QED
        BY <1>4, <2>1, <3>1, DrainKeeps
    <2>4. QED
      BY <1>1, <1>2, <1>3, <1>4, <2>2, <2>3 DEF AudDecInv, AudDecTypeOK
  <1>8. QED
    BY <1>5, <1>6, <1>7 DEF HandleFrame

LEMMA Drains == AudDecInv /\ Drain => AudDecInv'
  <1> SUFFICES ASSUME AudDecInv, Drain PROVE AudDecInv'
    OBVIOUS
  <1>1. /\ Idle /\ dec.opened /\ DrainBegin("drain", None) /\ dec' = dec
        /\ base' = base /\ srcpad' = srcpad /\ hist' = hist /\ count' = count
    BY DEF Drain
  <1>2. base' \in BaseT /\ ~base'.subframe
    BY <1>1 DEF AudDecInv, AudDecTypeOK, OpenSubframe
  <1>3. /\ codec' \in CodecT /\ task' \in TaskT
        /\ LastCapsOpen' /\ OpenSubframe' /\ CodecReady'
    BY <1>1, <1>2, DrainKeeps
  <1>4. QED
    BY <1>1, <1>3 DEF AudDecInv, AudDecTypeOK

(* Reading goes on or has ended: it stays the same task for the same codec. *)
LEMMA ReadsFrames == AudDecInv /\ (ReceiveFrame \/ ReceiveNothing) => AudDecInv'
  <1> SUFFICES ASSUME AudDecInv, ReceiveFrame \/ ReceiveNothing PROVE AudDecInv'
    OBVIOUS
  <1>1. dec \in DecT /\ codec \in CodecT /\ base \in BaseT /\ task \in TaskT /\ hist \in HistT
    BY DEF AudDecInv, AudDecTypeOK
  <1>2. srcpad' = srcpad /\ count' = count /\ task.at = "read"
    BY DEF ReceiveFrame, ReceiveNothing, Reading
  <1>3. codec' \in CodecT /\ codec'.caps = codec.caps /\ codec'.state = codec.state
    <2>1. codec.held # <<>> => Tail(codec.held) \in Seq(Nat)
      BY <1>1 DEF CodecT
    <2>2. \/ codec' = codec
          \/ codec.held # <<>> /\ codec' = [codec EXCEPT !.held = Tail(@)]
      BY DEF ReceiveFrame, ReceiveNothing
    <2>3. QED
      BY <1>1, <2>1, <2>2 DEF CodecT
  <1>4. /\ dec' \in DecT /\ dec'.started = dec.started /\ dec'.accepted = dec.accepted
        /\ dec'.opened = dec.opened /\ dec'.last_caps = dec.last_caps
    BY <1>1 DEF ReceiveFrame, ReceiveNothing, NotNegotiated, Subframe, ClearedInfo, DecT
  <1>5. /\ base' \in BaseT /\ task' \in TaskT /\ task'.at \in {"read", "read all"}
        /\ task'.why = task.why /\ task'.caps = task.caps
        /\ (base' = base /\ task'.got = task.got) \/ task'.got
    <2>1. CASE LoopEnds /\ base' = base
      BY <1>1, <2>1 DEF LoopEnds, TaskT
    <2>2. CASE \E f \in Formats : Subframe(f)
      BY <1>1, <1>2, <2>2 DEF Subframe, TaskT, BaseT
    <2>3. QED
      BY <2>1, <2>2 DEF ReceiveFrame, ReceiveNothing, NotNegotiated
  <1>6. hist' \in HistT
    <2>1. "not negotiated" \in Causes /\ "error" \in Causes /\ "burst" \in Causes
      BY DEF Causes
    <2>2. CASE \E f \in Formats : Subframe(f)
      <3>1. Skewed(hist, "burst", task.got) \in HistT
        BY <1>1, <2>1, SkewedKeeps
      <3>2. QED
        BY <2>2, <3>1 DEF Subframe, HistT
    <2>3. CASE hist' = hist \/ hist' = Skewed(hist, "not negotiated", TRUE)
               \/ hist' = Skewed(hist, "error", TRUE)
      BY <1>1, <2>1, <2>3, SkewedKeeps
    <2>4. QED
      BY <2>2, <2>3 DEF ReceiveFrame, ReceiveNothing, NotNegotiated
  <1>7. AudDecTypeOK'
    BY <1>2, <1>3, <1>4, <1>5, <1>6 DEF AudDecInv, AudDecTypeOK
  <1>8. LastCapsOpen'
    BY <1>3, <1>4 DEF AudDecInv, LastCapsOpen
  <1>9. OpenSubframe'
    BY <1>5 DEF AudDecInv, OpenSubframe, Idle
  <1>10. CodecReady'
    BY <1>2, <1>3, <1>4, <1>5 DEF AudDecInv, CodecReady, Idle
  <1>11. QED
    BY <1>7, <1>8, <1>9, <1>10 DEF AudDecInv

(* What is finished at the end of a task leaves no subframe open.          *)
LEMMA FinishedCloses ==
  ASSUME AudDecInv
  PROVE  Finished \in BaseT /\ ~Finished.subframe
  <1>1. base \in BaseT /\ (base.subframe => task.got)
    BY DEF AudDecInv, AudDecTypeOK, OpenSubframe
  <1>2. CASE ~Finishes(task)
    BY <1>1, <1>2 DEF Finished, Finishes, BaseT
  <1>3. CASE Finishes(task)
    <2>1. (IF base.pending = <<>> THEN base.pending ELSE Tail(base.pending)) \in Seq(Nat)
      BY <1>1 DEF BaseT
    <2>2. FinishOne(base) \in BaseT /\ ~FinishOne(base).subframe
      BY <1>1, <2>1 DEF FinishOne, BaseT
    <2>3. QED
      BY <1>3, <2>2 DEF Finished
  <1>4. QED
    BY <1>2, <1>3

LEMMA EndsTask == AudDecInv /\ (PacketEnd \/ DrainEnd \/ DrainFailed) => AudDecInv'
  <1> SUFFICES ASSUME AudDecInv, PacketEnd \/ DrainEnd \/ DrainFailed PROVE AudDecInv'
    OBVIOUS
  <1>1. dec \in DecT /\ codec \in CodecT /\ hist \in HistT
    BY DEF AudDecInv, AudDecTypeOK
  <1>2. /\ task' = IdleTask /\ srcpad' = srcpad /\ count' = count
        /\ base' \in BaseT
    BY FinishedCloses DEF PacketEnd, DrainEnd, DrainFailed, AudDecInv, AudDecTypeOK
  <1>3. IdleTask \in TaskT /\ IdleTask.why # "format" /\ IdleTask.at = "idle"
    BY DEF IdleTask, TaskT
  <1>4. hist' \in HistT
    <2>1. \/ hist' = hist
          \/ \E cause \in {"header", "refused", "unsent", "format"}, really \in BOOLEAN :
               hist' = Skewed(hist, cause, really)
      BY DEF PacketEnd, DrainEnd, DrainFailed
    <2>2. {"header", "refused", "unsent", "format"} \subseteq Causes
      BY DEF Causes
    <2>3. QED
      BY <1>1, <2>1, <2>2, SkewedKeeps
  <1>5. ~Idle /\ dec.opened /\ dec.started
    BY DEF PacketEnd, DrainEnd, DrainFailed, AudDecInv, CodecReady, Idle
  <1>6. /\ dec' \in DecT /\ codec' \in CodecT /\ LastCapsOpen'
        /\ dec'.accepted => dec'.opened
        /\ dec'.opened => dec'.started
        /\ dec'.opened <=> codec'.state # "closed"
    <2>1. CASE dec' = dec /\ codec' = codec
      BY <1>1, <1>5, <2>1 DEF AudDecInv, LastCapsOpen, CodecReady
    <2>2. CASE (DrainEnd \/ DrainFailed) /\ task.why = "format"
      <3>1. Configure(task.caps) /\ task.caps \in InCaps
        BY <2>2 DEF DrainEnd, DrainFailed, AudDecInv, CodecReady
      <3>2. QED
        BY <1>1, <1>5, <3>1, ConfigureKeeps
    <2>3. CASE DrainEnd /\ task.why # "format"
      <3>1. dec' = dec /\ codec' = Flushed(codec)
        BY <2>3 DEF DrainEnd
      <3>2. codec' = [codec EXCEPT !.state = "open", !.held = <<>>]
        BY <1>5, <3>1 DEF Flushed, AudDecInv, CodecReady
      <3>3. codec' \in CodecT /\ codec'.state = "open" /\ codec'.caps = codec.caps
        <4>1. <<>> \in Seq(Nat)
          OBVIOUS
        <4>2. QED
          BY <1>1, <3>2, <4>1 DEF CodecT
      <3>4. LastCapsOpen'
        BY <3>1, <3>3 DEF AudDecInv, LastCapsOpen
      <3>5. QED
        BY <1>1, <1>5, <3>1, <3>3, <3>4
    <2>4. QED
      BY <2>1, <2>2, <2>3 DEF PacketEnd, DrainFailed
  <1>7. AudDecTypeOK'
    BY <1>2, <1>3, <1>4, <1>6 DEF AudDecInv, AudDecTypeOK
  <1>8. OpenSubframe'
    <2>1. ~base'.subframe
      <3>1. CASE DrainFailed
        BY <3>1 DEF DrainFailed, AudDecInv, OpenSubframe
      <3>2. QED
        BY <3>1, FinishedCloses DEF PacketEnd, DrainEnd
    <2>2. QED
      BY <1>2, <1>3, <2>1 DEF OpenSubframe
  <1>9. CodecReady'
    BY <1>2, <1>3, <1>6 DEF CodecReady, Idle
  <1>10. QED
    BY <1>6, <1>7, <1>8, <1>9 DEF AudDecInv

LEMMA Flushes == AudDecInv /\ Flush => AudDecInv'
  <1> SUFFICES ASSUME AudDecInv, Flush PROVE AudDecInv'
    OBVIOUS
  <1>1. /\ dec' = dec /\ task' = task /\ count' = count /\ srcpad' = "ok" /\ Idle
        /\ codec' = IF dec.opened THEN Flushed(codec) ELSE codec
    BY DEF Flush
  <1>2. /\ base' \in BaseT /\ base'.subframe = base.subframe
        /\ hist' \in HistT
    <2>1. base \in BaseT /\ hist \in HistT
      BY DEF AudDecInv, AudDecTypeOK
    <2>2. base' \in BaseT /\ base'.subframe = base.subframe
      <3>1. <<>> \in Seq(Nat)
        OBVIOUS
      <3>2. QED
        BY <2>1, <3>1 DEF Flush, BaseT
    <2>3. hist' \in HistT
      BY <2>1 DEF Flush, HistT
    <2>4. QED
      BY <2>2, <2>3
  <1>3. /\ codec' \in CodecT /\ codec'.caps = codec.caps /\ codec'.state # "draining"
        /\ dec.opened <=> codec'.state # "closed"
    <2>1. CASE dec.opened
      <3>1. codec' = [codec EXCEPT !.state = "open", !.held = <<>>]
        BY <1>1, <2>1 DEF Flushed, AudDecInv, CodecReady
      <3>2. codec \in CodecT /\ <<>> \in Seq(Nat)
        BY DEF AudDecInv, AudDecTypeOK
      <3>3. QED
        BY <2>1, <3>1, <3>2 DEF CodecT
    <2>2. CASE ~dec.opened
      BY <1>1, <2>2 DEF AudDecInv, AudDecTypeOK, CodecReady
    <2>3. QED
      BY <2>1, <2>2
  <1>4. AudDecTypeOK'
    BY <1>1, <1>2, <1>3 DEF AudDecInv, AudDecTypeOK
  <1>5. LastCapsOpen' /\ OpenSubframe'
    BY <1>1, <1>2, <1>3 DEF AudDecInv, LastCapsOpen, OpenSubframe, Idle
  <1>6. CodecReady'
    BY <1>1, <1>3 DEF AudDecInv, CodecReady, Idle
  <1>7. QED
    BY <1>4, <1>5, <1>6 DEF AudDecInv

-----------------------------------------------------------------------------
LEMMA Inductive == AudDecInv /\ [Next]_vars => AudDecInv'
  <1> SUFFICES ASSUME AudDecInv, [Next]_vars PROVE AudDecInv'
    OBVIOUS
  <1>1. CASE DownstreamFails \/ UNCHANGED vars
    <2>1. /\ dec' = dec /\ codec' = codec /\ base' = base /\ task' = task
          /\ hist' = hist /\ count' = count /\ srcpad' \in {srcpad, "error"}
      BY <1>1 DEF DownstreamFails, vars
    <2>2. QED
      BY <2>1
      DEF AudDecInv, AudDecTypeOK, LastCapsOpen, OpenSubframe, CodecReady, Idle
  <1>2. QED
    BY <1>1, StartsAndStops, SetsFormat, HandlesFrame, Drains, ReadsFrames,
       EndsTask, Flushes
    DEF Next

(* Element, codec and task go together (gstavauddec.c).                    *)
THEOREM InvHolds == Spec => []AudDecInv
  BY InitInv, Inductive, PTL DEF Spec

(* Remembered caps are those the codec is open for: set_format may take    *)
(* them again without a look (gstavauddec.c).                              *)
THEOREM RemembersOpenCaps == Spec => []LastCapsOpen
  <1>1. AudDecInv => LastCapsOpen
    BY DEF AudDecInv
  <1>2. QED
    BY <1>1, InvHolds, PTL

(* However reading frames ends, the base class is left with no subframe    *)
(* that is not finished.                                                   *)
THEOREM FinishesSubframes == Spec => []SubframesFinished
  <1>1. AudDecInv => SubframesFinished
    BY DEF AudDecInv, OpenSubframe, SubframesFinished
  <1>2. QED
    BY <1>1, InvHolds, PTL

-----------------------------------------------------------------------------
(* The format of what goes out.                                            *)

(* What the element has in info is what was agreed with downstream last;   *)
(* an element that is not started has agreed on nothing.                   *)
FormatInv ==
  /\ OutputMatches
  /\ dec.info # None => base.output = dec.info
  /\ ~dec.started => dec.info = None

(* A cause added to the history leaves what was said of subframes alone.   *)
LEMMA SkewedSays ==
  ASSUME NEW h \in HistT, NEW cause \in Causes, NEW really
  PROVE  /\ Skewed(h, cause, really).out = h.out
         /\ Skewed(h, cause, really).format = h.format
  <1>1. /\ [h EXCEPT !.skew = @ \cup {cause}].out = h.out
        /\ [h EXCEPT !.skew = @ \cup {cause}].format = h.format
    BY DEF HistT
  <1>2. QED
    BY <1>1 DEF Skewed

(* A codec that opens anew has nothing agreed yet, one that does not open  *)
(* leaves what is.                                                         *)
LEMMA ConfigureInfo ==
  ASSUME dec \in DecT, NEW c, Configure(c)
  PROVE  dec'.started = dec.started /\ dec'.info \in {dec.info, None}
  BY DEF Configure, OpenDone, OpenFailed, DecT

(* What the end of a task finishes does not touch the output format.       *)
LEMMA FinishedOutput ==
  ASSUME base \in BaseT
  PROVE  Finished.output = base.output
  BY DEF Finished, FinishOne, BaseT

(* Steps after which info is what it was or cleared, and the formats too.  *)
LEMMA SameFormat ==
  ASSUME FormatInv, hist'.format = hist.format, base'.output = base.output,
         dec'.started = dec.started, dec'.info \in {dec.info, None}
  PROVE  FormatInv'
  BY DEF FormatInv, OutputMatches

LEMMA FormatSubframe ==
  ASSUME AudDecInv, FormatInv, Reading, NEW f \in Formats, Subframe(f)
  PROVE  FormatInv'
  <1>1. dec \in DecT /\ base \in BaseT /\ hist \in HistT
    BY DEF AudDecInv, AudDecTypeOK
  <1>2. dec'.info = f /\ dec'.started = dec.started
    BY <1>1 DEF Subframe, DecT
  <1>3. base'.output = f
    <2>1. base'.output = IF SettingsChanged(f) THEN f ELSE base.output
      BY <1>1 DEF Subframe, BaseT
    <2>2. f # None
      BY AudDecAssumption
    <2>3. QED
      BY <2>1, <2>2 DEF FormatInv, SettingsChanged
  <1>4. hist'.format = "right"
    <2>1. Skewed(hist, "burst", task.got) \in HistT
      BY <1>1, SkewedKeeps DEF Causes
    <2>2. QED
      BY <1>3, <2>1 DEF Subframe, HistT
  <1>5. dec.started
    BY DEF AudDecInv, CodecReady, Idle, Reading
  <1>6. QED
    BY <1>2, <1>3, <1>4, <1>5 DEF FormatInv, OutputMatches

LEMMA FormatStep ==
  ASSUME AudDecInv, FormatInv, [Next]_vars
  PROVE  FormatInv'
  <1>1. dec \in DecT /\ base \in BaseT /\ hist \in HistT
    BY DEF AudDecInv, AudDecTypeOK
  <1>2. CASE Start
    <2>1. dec'.info = None /\ dec'.started
      BY <1>1, <1>2 DEF Start, FormatInv, DecT
    <2>2. QED
      BY <1>2, <2>1 DEF Start, FormatInv, OutputMatches, NoHistory
  <1>3. CASE Stop
    BY <1>3 DEF Stop, FormatInv, OutputMatches, NoHistory, Stopped
  <1>4. CASE SetFormat
    <2>1. base' = base /\ hist' = hist
      BY <1>4 DEF SetFormat
    <2>2. PICK c \in InCaps : dec' = [dec EXCEPT !.accepted = TRUE] \/ dec' = dec \/ Configure(c)
      BY <1>4 DEF SetFormat
    <2>3. dec'.started = dec.started /\ dec'.info \in {dec.info, None}
      BY <1>1, <2>2, ConfigureInfo DEF DecT
    <2>4. QED
      BY <2>1, <2>3, SameFormat
  <1>5. CASE HandleFrame
    <2>1. dec' = dec /\ base' = Provided
      BY <1>5 DEF HandleFrame, EmptyPacket, SendPacket, RefusePacket
    <2>2. base'.output = base.output
      BY <1>1, <2>1 DEF Provided, BaseT
    <2>3. hist'.format = hist.format
      <3>1. "empty" \in Causes /\ "header" \in Causes /\ "silent" \in Causes
        BY DEF Causes
      <3>2. CASE RefusePacket
        BY <3>2 DEF RefusePacket
      <3>3. CASE EmptyPacket \/ SendPacket
        <4>1. \/ hist' = hist \/ hist' = Skewed(hist, "empty", TRUE)
              \/ hist' = Skewed(hist, "header", codec.held # <<>>)
              \/ hist' = Skewed(hist, "silent", TRUE)
          BY <3>3 DEF EmptyPacket, SendPacket
        <4>2. /\ Skewed(hist, "empty", TRUE).format = hist.format
              /\ Skewed(hist, "header", codec.held # <<>>).format = hist.format
              /\ Skewed(hist, "silent", TRUE).format = hist.format
          BY <1>1, <3>1, SkewedSays
        <4>3. QED
          BY <4>1, <4>2
      <3>4. QED
        BY <1>5, <3>2, <3>3 DEF HandleFrame
    <2>4. QED
      BY <2>1, <2>2, <2>3, SameFormat
  <1>6. CASE ReceiveFrame
    <2>0. Reading
      BY <1>6 DEF ReceiveFrame
    <2>1. PICK f \in Formats : NotNegotiated(f) \/ Subframe(f)
      BY <1>6 DEF ReceiveFrame
    <2>2. CASE NotNegotiated(f)
      <3>1. base' = base /\ hist' = Skewed(hist, "not negotiated", TRUE)
            /\ dec'.started = dec.started /\ dec'.info \in {dec.info, None}
        BY <1>1, <2>2 DEF NotNegotiated, ClearedInfo, DecT
      <3>2. hist'.format = hist.format
        BY <1>1, <3>1, SkewedSays DEF Causes
      <3>3. QED
        BY <3>1, <3>2, SameFormat
    <2>3. CASE Subframe(f)
      BY <2>0, <2>3, FormatSubframe
    <2>4. QED
      BY <2>1, <2>2, <2>3
  <1>7. CASE ReceiveNothing
    <2>1. base' = base /\ dec' = dec
          /\ (hist' = hist \/ hist' = Skewed(hist, "error", TRUE))
      BY <1>7 DEF ReceiveNothing
    <2>2. hist'.format = hist.format
      <3>1. Skewed(hist, "error", TRUE).format = hist.format
        BY <1>1, SkewedSays DEF Causes
      <3>2. QED
        BY <2>1, <3>1
    <2>3. QED
      BY <2>1, <2>2, SameFormat
  <1>8. CASE PacketEnd \/ DrainEnd \/ DrainFailed
    <2>1. base'.output = base.output
      BY <1>1, <1>8, FinishedOutput DEF PacketEnd, DrainEnd, DrainFailed
    <2>2. hist'.format = hist.format
      <3>1. \/ hist' = hist
            \/ \E cause \in {"header", "refused", "unsent", "format"}, really \in BOOLEAN :
                 hist' = Skewed(hist, cause, really)
        BY <1>8 DEF PacketEnd, DrainEnd, DrainFailed
      <3>2. {"header", "refused", "unsent", "format"} \subseteq Causes
        BY DEF Causes
      <3>3. QED
        BY <1>1, <3>1, <3>2, SkewedSays
    <2>3. dec' = dec \/ Configure(task.caps)
      BY <1>8 DEF PacketEnd, DrainEnd, DrainFailed
    <2>4. dec'.started = dec.started /\ dec'.info \in {dec.info, None}
      BY <1>1, <2>3, ConfigureInfo
    <2>5. QED
      BY <2>1, <2>2, <2>4, SameFormat
  <1>9. CASE Flush
    <2>1. dec' = dec /\ base'.output = base.output /\ hist'.format = hist.format
      BY <1>1, <1>9 DEF Flush, BaseT, HistT
    <2>2. QED
      BY <2>1, SameFormat
  <1>10. CASE Drain \/ DownstreamFails \/ UNCHANGED vars
    <2>1. dec' = dec /\ base' = base /\ hist' = hist
      BY <1>10 DEF Drain, DownstreamFails, vars
    <2>2. QED
      BY <2>1, SameFormat
  <1>11. QED
    BY <1>2, <1>3, <1>4, <1>5, <1>6, <1>7, <1>8, <1>9, <1>10 DEF Next

(* Every subframe has the format that downstream agreed to last: info is   *)
(* cleared when the agreement fails, so the next frame asks again.         *)
THEOREM OutputIsAgreed == Spec => []OutputMatches
  <1>1. Init => FormatInv
    BY DEF Init, FormatInv, OutputMatches, NoHistory, Stopped
  <1>2. AudDecInv /\ FormatInv /\ [Next]_vars => FormatInv'
    BY FormatStep
  <1>3. FormatInv => OutputMatches
    BY DEF FormatInv
  <1>4. QED
    BY <1>1, <1>2, <1>3, InvHolds, PTL DEF Spec

-----------------------------------------------------------------------------
(* The packets that date the subframes.                                    *)

(* An idle element has no task left.  One that reads for a drain has its   *)
(* codec in draining, one that could not start reads for no packet, and a  *)
(* closed codec holds nothing.                                             *)
TaskInv ==
  /\ Idle => task = IdleTask
  /\ ~Idle => task.why # "none"
  /\ task.at \in {"read", "read all"} /\ task.why \notin {"packet", "header"} =>
       codec.state = "draining"
  /\ codec.state = "closed" => codec.held = <<>>

(* The packets p not finished are those the codec holds, h; before them    *)
(* the one a task t has read a frame of, and after them the one it is to   *)
(* finish for a refusal or for a header without a frame.                   *)
Due(t, p) == IF t.got THEN Tail(p) ELSE p

Dated(t, p, h) ==
  /\ t.got => p # <<>>
  /\ t.why = "force" => \E n \in Nat : Due(t, p) = Append(h, n)
  /\ t.why = "header" =>
       \/ Due(t, p) = h
       \/ h = <<>> /\ ~t.got /\ \E n \in Nat : p = Append(h, n)
  /\ t.why \notin {"header", "force"} => Due(t, p) = h
  /\ t.at = "read all" /\ t.why \notin {"packet", "header"} => h = <<>>

DatesMatch == hist.skew = {} => Dated(task, base.pending, codec.held)

DateInv == OwnDate /\ TaskInv /\ DatesMatch

(* A history that still has no cause to mismatch had none before.          *)
LEMMA SkewedEmpty ==
  ASSUME NEW h \in HistT, NEW cause \in Causes, NEW really \in BOOLEAN,
         Skewed(h, cause, really).skew = {}
  PROVE  h.skew = {} /\ ~really
  BY DEF Skewed, HistT

(* A task that drains, for an element that was idle: nothing has changed.  *)
LEMMA DatedDrain ==
  ASSUME NEW p \in Seq(Nat), NEW c, NEW why \in {"drain", "format"}, DrainBegin(why, c)
  PROVE  Dated(task', p, p)
  <1>1. PICK at \in {"read", "unsent"} :
          task' = [at |-> at, why |-> why, got |-> FALSE, caps |-> c]
    BY DEF DrainBegin
  <1>2. QED
    BY <1>1 DEF Dated, Due

(* Starting a drain, or failing to, leaves what the codec holds.           *)
LEMMA DrainHolds ==
  ASSUME codec \in CodecT, NEW why, NEW c, DrainBegin(why, c)
  PROVE  codec'.held = codec.held
  <1>1. codec' = codec \/ codec' = Draining
    BY DEF DrainBegin, NullFails
  <1>2. QED
    BY <1>1 DEF Draining, CodecT

LEMMA DatedIdle ==
  ASSUME NEW p, NEW h
  PROVE  Dated(IdleTask, p, h) <=> p = h
  BY DEF Dated, Due, IdleTask

LEMMA TaskStep ==
  ASSUME AudDecInv, TaskInv, [Next]_vars
  PROVE  TaskInv'
  <1>1. dec \in DecT /\ codec \in CodecT /\ task \in TaskT
    BY DEF AudDecInv, AudDecTypeOK
  <1>2. ASSUME NEW why \in {"drain", "format", "force"}, NEW c, DrainBegin(why, c)
        PROVE  TaskInv'
    <2>1. \/ task'.at = "read" /\ codec'.state = "draining"
          \/ task'.at = "unsent" /\ (codec' = codec \/ codec'.state = "draining")
      BY <1>1, <1>2 DEF DrainBegin, NullFails, Draining, CodecT
    <2>2. task'.why = why
      BY <1>2 DEF DrainBegin
    <2>3. QED
      BY <2>1, <2>2 DEF TaskInv, Idle
  <1>3. CASE Start \/ Stop
    <2>1. task' = task /\ codec' = NoCodec /\ Idle
      BY <1>3 DEF Start, Stop
    <2>2. QED
      BY <2>1 DEF TaskInv, NoCodec, Idle
  <1>4. CASE SetFormat
    <2>1. PICK c \in InCaps :
            \/ UNCHANGED <<codec, task>> \/ DrainBegin("format", c)
            \/ Configure(c) /\ UNCHANGED task
      BY <1>4 DEF SetFormat
    <2>2. Idle
      BY <1>4 DEF SetFormat
    <2>3. CASE UNCHANGED <<codec, task>>
      BY <2>3 DEF TaskInv, Idle
    <2>4. CASE DrainBegin("format", c)
      BY <1>2, <2>4
    <2>5. CASE Configure(c) /\ UNCHANGED task
      <3>1. codec'.state = "closed" => codec'.held = <<>>
        BY <2>5 DEF Configure, NoCodec
      <3>2. QED
        BY <2>2, <2>5, <3>1 DEF TaskInv, Idle
    <2>6. QED
      BY <2>1, <2>3, <2>4, <2>5
  <1>5. CASE HandleFrame
    <2>1. Idle
      BY <1>5 DEF HandleFrame
    <2>2. CASE EmptyPacket
      BY <2>2 DEF EmptyPacket, TaskInv, Idle
    <2>3. CASE SendPacket
      <3>1. codec'.state = "open"
        BY <1>1, <2>3 DEF SendPacket, CodecT
      <3>2. PICK why \in {"packet", "header"} : task' = ReadFor(why)
        BY <2>3 DEF SendPacket
      <3>3. task'.at = "read" /\ task'.why \in {"packet", "header"}
        BY <3>2 DEF ReadFor
      <3>4. QED
        BY <3>1, <3>3 DEF TaskInv, Idle
    <2>4. CASE RefusePacket
      BY <1>2, <2>1, <2>4 DEF RefusePacket
    <2>5. QED
      BY <1>5, <2>2, <2>3, <2>4 DEF HandleFrame
  <1>6. CASE Drain
    BY <1>2, <1>6 DEF Drain
  <1>7. CASE ReceiveFrame \/ ReceiveNothing
    <2>1. task.at = "read" /\ codec.state # "closed"
      BY <1>7 DEF ReceiveFrame, ReceiveNothing, Reading, AudDecInv, CodecReady, Idle
    <2>2. codec'.state = codec.state
      BY <1>1, <1>7 DEF ReceiveFrame, ReceiveNothing, CodecT
    <2>3. task'.why = task.why /\ task'.at \in {"read", "read all"}
      <3>1. LoopEnds \/ \E f \in Formats : Subframe(f)
        BY <1>7 DEF ReceiveFrame, ReceiveNothing, NotNegotiated
      <3>2. CASE LoopEnds
        BY <1>1, <3>2 DEF LoopEnds, TaskT
      <3>3. CASE \E f \in Formats : Subframe(f)
        BY <1>1, <2>1, <3>3 DEF Subframe, TaskT
      <3>4. QED
        BY <3>1, <3>2, <3>3
    <2>4. QED
      BY <2>1, <2>2, <2>3 DEF TaskInv, Idle
  <1>8. CASE PacketEnd \/ DrainEnd \/ DrainFailed
    <2>1. task' = IdleTask /\ codec.state # "closed"
      BY <1>8 DEF PacketEnd, DrainEnd, DrainFailed, AudDecInv, CodecReady, Idle
    <2>2. codec' = codec \/ Configure(task.caps) \/ codec' = Flushed(codec)
      BY <1>8 DEF PacketEnd, DrainEnd, DrainFailed
    <2>3. codec'.state = "closed" => codec'.held = <<>>
      <3>1. Configure(task.caps) => codec'.held = <<>>
        BY DEF Configure, NoCodec
      <3>2. Flushed(codec).state = "open"
        BY <1>1, <2>1 DEF Flushed, CodecT
      <3>3. QED
        BY <2>1, <2>2, <3>1, <3>2
    <2>4. QED
      BY <2>1, <2>3 DEF TaskInv, Idle, IdleTask
  <1>9. CASE Flush
    <2>1. task' = task /\ Idle /\ (codec' = codec \/ codec' = Flushed(codec))
      BY <1>9 DEF Flush
    <2>2. codec'.state = "closed" => codec'.held = <<>>
      BY <1>1, <2>1 DEF Flushed, CodecT, TaskInv
    <2>3. QED
      BY <2>1, <2>2 DEF TaskInv, Idle
  <1>10. CASE DownstreamFails \/ UNCHANGED vars
    BY <1>10 DEF DownstreamFails, vars, TaskInv, Idle
  <1>11. QED
    BY <1>3, <1>4, <1>5, <1>6, <1>7, <1>8, <1>9, <1>10 DEF Next

(* The end of a task takes the packet it has read for, or the one it is to *)
(* finish, from those that are not finished.                               *)
LEMMA FinishedPending ==
  ASSUME base \in BaseT
  PROVE  /\ ~Finishes(task) => Finished.pending = base.pending
         /\ Finishes(task) /\ base.pending # <<>> => Finished.pending = Tail(base.pending)
  <1>1. ~Finishes(task) => Finished.pending = base.pending
    BY DEF Finished
  <1>2. Finishes(task) /\ base.pending # <<>> => Finished.pending = Tail(base.pending)
    BY DEF Finished, FinishOne, BaseT
  <1>3. QED
    BY <1>1, <1>2

LEMMA DatesFrame ==
  ASSUME AudDecInv, TaskInv, DatesMatch, HandleFrame
  PROVE  DatesMatch'
  <1> SUFFICES ASSUME hist'.skew = {} PROVE Dated(task', base'.pending, codec'.held)
    BY DEF DatesMatch
  <1>1. /\ codec \in CodecT /\ base \in BaseT /\ hist \in HistT
        /\ codec.held \in Seq(Nat) /\ task = IdleTask /\ Number \in Nat
    <2>1. codec \in CodecT /\ base \in BaseT /\ hist \in HistT /\ count \in CountT
      BY DEF AudDecInv, AudDecTypeOK
    <2>2. task = IdleTask
      BY DEF HandleFrame, TaskInv
    <2>3. QED
      BY <2>1, <2>2 DEF CodecT, CountT, Number
  <1>2. base'.pending = Append(base.pending, Number)
    BY <1>1 DEF HandleFrame, EmptyPacket, SendPacket, RefusePacket, Provided, BaseT
  <1>3. hist.skew = {} => base.pending = codec.held
    BY <1>1, DatedIdle DEF DatesMatch
  <1>4. "empty" \in Causes /\ "header" \in Causes /\ "silent" \in Causes
    BY DEF Causes
  <1>5. CASE EmptyPacket
    BY <1>1, <1>4, <1>5, SkewedEmpty DEF EmptyPacket
  <1>6. CASE /\ codec' = [codec EXCEPT !.held = Append(@, Number)]
             /\ task' \in {ReadFor("packet"), ReadFor("header")} /\ UNCHANGED hist
    <2>1. codec'.held = Append(codec.held, Number) /\ hist.skew = {}
      BY <1>1, <1>6 DEF CodecT
    <2>2. base'.pending = codec'.held
      BY <1>2, <1>3, <2>1
    <2>3. PICK why \in {"packet", "header"} :
            task' = [at |-> "read", why |-> why, got |-> FALSE, caps |-> None]
      BY <1>6 DEF ReadFor
    <2>4. QED
      BY <2>2, <2>3 DEF Dated, Due
  <1>7. CASE codec' = codec /\ hist' = Skewed(hist, "silent", TRUE)
    BY <1>1, <1>4, <1>7, SkewedEmpty
  <1>8. CASE /\ codec' = codec /\ task' = ReadFor("header")
             /\ hist' = Skewed(hist, "header", codec.held # <<>>)
    <2>1. (codec.held # <<>>) \in BOOLEAN
      OBVIOUS
    <2>2. hist.skew = {} /\ codec.held = <<>>
      BY <1>1, <1>4, <1>8, <2>1, SkewedEmpty
    <2>3. base'.pending = Append(codec'.held, Number)
      BY <1>2, <1>3, <1>8, <2>2
    <2>4. QED
      BY <1>1, <1>8, <2>2, <2>3 DEF Dated, Due, ReadFor
  <1>9. CASE RefusePacket
    <2>1. hist.skew = {} /\ DrainBegin("force", None)
      BY <1>1, <1>9 DEF RefusePacket, HistT
    <2>2. base'.pending = Append(codec'.held, Number)
      BY <1>1, <1>2, <1>3, <2>1, DrainHolds
    <2>3. PICK at \in {"read", "unsent"} :
            task' = [at |-> at, why |-> "force", got |-> FALSE, caps |-> None]
      BY <2>1 DEF DrainBegin
    <2>4. QED
      BY <1>1, <2>2, <2>3 DEF Dated, Due
  <1>10. QED
    <2>1. CASE SendPacket
      BY <1>6, <1>7, <1>8, <2>1 DEF SendPacket
    <2>2. QED
      BY <1>5, <1>9, <2>1 DEF HandleFrame

(* The first frame read for a task comes of the oldest packet, which the   *)
(* base class has at its head too.                                         *)
LEMMA DatesSubframe ==
  ASSUME AudDecInv, DatesMatch, Reading, codec.held # <<>>,
         codec' = [codec EXCEPT !.held = Tail(@)],
         NEW f \in Formats, Subframe(f), hist'.skew = {}
  PROVE  /\ Dated(task', base'.pending, codec'.held)
         /\ hist'.out = "own"
  <1>1. codec \in CodecT /\ base \in BaseT /\ hist \in HistT /\ task \in TaskT
        /\ codec.held \in Seq(Nat) /\ base.pending \in Seq(Nat)
    BY DEF AudDecInv, AudDecTypeOK, CodecT, BaseT
  <1> DEFINE h == Skewed(hist, "burst", task.got)
  <1>2. h \in HistT
    BY <1>1, SkewedKeeps DEF Causes
  <1>3. h.skew = {}
    <2>1. hist'.skew = h.skew
      <3>1. PICK out \in {"own", "other"}, format \in {"right", "wrong"} :
              hist' = [h EXCEPT !.out = out, !.format = format]
        BY DEF Subframe
      <3>2. QED
        BY <1>2, <3>1 DEF HistT
    <2>2. QED
      BY <2>1
  <1>4. hist.skew = {} /\ ~task.got
    <2>1. task.got \in BOOLEAN /\ "burst" \in Causes
      BY <1>1 DEF TaskT, Causes
    <2>2. QED
      BY <1>1, <1>3, <2>1, SkewedEmpty
  <1>5. Dated(task, base.pending, codec.held) /\ Due(task, base.pending) = base.pending
    BY <1>4 DEF DatesMatch, Due
  <1>6. task.why = "header" => base.pending = codec.held
    BY <1>5 DEF Dated
  <1>7. /\ base.pending # <<>> /\ Head(base.pending) = Head(codec.held)
        /\ IF task.why = "force"
           THEN \E n \in Nat : Tail(base.pending) = Append(Tail(codec.held), n)
           ELSE Tail(base.pending) = Tail(codec.held)
    <2>1. CASE task.why = "force"
      <3>1. PICK n \in Nat : base.pending = Append(codec.held, n)
        BY <1>5, <2>1 DEF Dated
      <3>2. /\ Head(base.pending) = Head(codec.held)
            /\ Tail(base.pending) = Append(Tail(codec.held), n)
        BY <1>1, <3>1, HeadTailAppend
      <3>3. base.pending # <<>>
        <4> DEFINE held == codec.held
        <4>1. held \in Seq(Nat)
          BY <1>1
        <4> HIDE DEF held
        <4>2. Append(held, n) # <<>>
          BY <4>1, AppendProperties
        <4>3. QED
          BY <3>1, <4>2 DEF held
      <3>4. QED
        BY <2>1, <3>2, <3>3
    <2>2. CASE task.why # "force"
      <3>1. base.pending = codec.held
        BY <1>5, <1>6, <2>2 DEF Dated
      <3>2. QED
        BY <2>2, <3>1
    <2>3. QED
      BY <2>1, <2>2
  <1>8. hist'.out = "own"
    <2>1. PICK format \in {"right", "wrong"} :
            hist' = [h EXCEPT !.out = IF base.pending # <<>> /\ Head(base.pending) = Head(codec.held)
                                      THEN "own" ELSE "other",
                              !.format = format]
      BY DEF Subframe
    <2>2. hist' = [h EXCEPT !.out = "own", !.format = format]
      BY <1>7, <2>1
    <2>3. QED
      BY <1>2, <2>2 DEF HistT
  <1>9. base'.pending = base.pending /\ codec'.held = Tail(codec.held)
    BY <1>1 DEF Subframe, BaseT, CodecT
  <1>10. /\ task'.got /\ task'.why = task.why
         /\ task'.at = "read all" => task.why \in {"packet", "header"}
         /\ task'.at \in {"read", "read all"}
    BY <1>1 DEF Subframe, Reading, TaskT
  <1>11. Due(task', base'.pending) = Tail(base.pending)
    BY <1>9, <1>10 DEF Due
  <1>12. Dated(task', base'.pending, codec'.held)
    BY <1>6, <1>7, <1>9, <1>10, <1>11 DEF Dated
  <1>13. QED
    BY <1>8, <1>12

(* Reading ends without a frame: a codec that is drained has none left.    *)
LEMMA DatesNothing ==
  ASSUME AudDecInv, TaskInv, DatesMatch, ReceiveNothing
  PROVE  DatesMatch'
  <1> SUFFICES ASSUME hist'.skew = {} PROVE Dated(task', base'.pending, codec'.held)
    BY DEF DatesMatch
  <1>1. hist \in HistT /\ task \in TaskT /\ "error" \in Causes
    BY DEF AudDecInv, AudDecTypeOK, Causes
  <1>2. ~Idle /\ base' = base /\ LoopEnds
    BY DEF ReceiveNothing, Reading, Idle
  <1>3. hist' # Skewed(hist, "error", TRUE)
    BY <1>1, SkewedEmpty
  <1>4. /\ codec' = codec /\ hist' = hist
        /\ codec.state = "draining" => codec.held = <<>>
    BY <1>3 DEF ReceiveNothing
  <1>5. task'.why = task.why /\ (task'.got <=> task.got) /\ task'.at = "read all"
    BY <1>1, <1>2 DEF LoopEnds, TaskT
  <1>6. task.why \notin {"packet", "header"} => codec.held = <<>>
    BY <1>4 DEF ReceiveNothing, Reading, TaskInv
  <1>7. Dated(task, base.pending, codec.held)
    BY <1>4 DEF DatesMatch
  <1>8. Due(task', base.pending) = Due(task, base.pending)
    BY <1>5 DEF Due
  <1>9. QED
    BY <1>2, <1>4, <1>5, <1>6, <1>7, <1>8 DEF Dated

(* The end of a task: what is not finished is what the codec holds.        *)
LEMMA DatesEnd ==
  ASSUME AudDecInv, TaskInv, DatesMatch, PacketEnd \/ DrainEnd
  PROVE  DatesMatch'
  <1> SUFFICES ASSUME hist'.skew = {} PROVE base'.pending = codec'.held
    BY DatedIdle DEF DatesMatch, PacketEnd, DrainEnd
  <1>1. codec \in CodecT /\ base \in BaseT /\ hist \in HistT /\ task \in TaskT
        /\ codec.held \in Seq(Nat) /\ base.pending \in Seq(Nat) /\ task.at = "read all"
    BY DEF AudDecInv, AudDecTypeOK, CodecT, BaseT, PacketEnd, DrainEnd
  <1>2. base' = Finished
    BY DEF PacketEnd, DrainEnd
  <1>3. /\ hist.skew = {}
        /\ DrainEnd => ~(task.why = "force" /\ task.got)
        /\ PacketEnd => ~(task.why = "header" /\ ~task.got /\ codec.held # <<>>)
    <2>0. {"header", "refused"} \subseteq Causes /\ task.got \in BOOLEAN
      BY <1>1 DEF Causes, TaskT
    <2>1. CASE PacketEnd
      <3> DEFINE lost == task.why = "header" /\ ~task.got /\ codec.held # <<>>
      <3>1. hist' = Skewed(hist, "header", lost) /\ lost \in BOOLEAN
        BY <2>1 DEF PacketEnd
      <3>2. hist.skew = {} /\ ~lost
        BY <1>1, <2>0, <3>1, SkewedEmpty
      <3>3. ~DrainEnd
        BY <2>1 DEF PacketEnd, DrainEnd
      <3>4. QED
        BY <3>2, <3>3
    <2>2. CASE DrainEnd
      <3> DEFINE lost == task.why = "force" /\ task.got
      <3>1. hist' = Skewed(hist, "refused", lost) /\ lost \in BOOLEAN
        BY <2>0, <2>2 DEF DrainEnd
      <3>2. hist.skew = {} /\ ~lost
        BY <1>1, <2>0, <3>1, SkewedEmpty
      <3>3. ~PacketEnd
        BY <2>2 DEF PacketEnd, DrainEnd
      <3>4. QED
        BY <3>2, <3>3
    <2>3. QED
      BY <2>1, <2>2
  <1>4. Dated(task, base.pending, codec.held)
    BY <1>3 DEF DatesMatch
  <1>5. CASE task.why = "force" \/ (task.why = "header" /\ ~task.got)
    <2>1. ~task.got /\ codec.held = <<>>
      BY <1>1, <1>3, <1>4, <1>5 DEF Dated, PacketEnd, DrainEnd
    <2>2. base.pending = <<>> \/ \E n \in Nat : base.pending = Append(<<>>, n)
      BY <1>4, <1>5, <2>1 DEF Dated, Due
    <2>3. base'.pending = <<>>
      <3>1. Finishes(task)
        BY <1>5 DEF Finishes
      <3>2. CASE base.pending = <<>>
        BY <1>1, <1>2, <3>1, <3>2 DEF Finished, FinishOne, BaseT
      <3>3. CASE \E n \in Nat : base.pending = Append(<<>>, n)
        <4>1. PICK n \in Nat : base.pending = Append(<<>>, n)
          BY <3>3
        <4>2. <<>> \in Seq(Nat)
          OBVIOUS
        <4>3. base.pending # <<>> /\ Tail(base.pending) = <<>>
          BY <4>1, <4>2, HeadTailAppend, AppendProperties
        <4>4. QED
          BY <1>1, <1>2, <3>1, <4>3, FinishedPending
      <3>4. QED
        BY <2>2, <3>2, <3>3
    <2>4. QED
      <3>1. CASE PacketEnd
        BY <2>1, <2>3, <3>1 DEF PacketEnd
      <3>2. CASE DrainEnd
        <4>1. task.why # "format" /\ codec' = Flushed(codec)
          BY <1>5, <3>2 DEF DrainEnd
        <4>2. codec'.held = <<>>
          BY <1>1, <2>1, <4>1 DEF Flushed, CodecT
        <4>3. QED
          BY <2>3, <4>2
      <3>3. QED
        BY <3>1, <3>2
  <1>6. CASE task.why \notin {"header", "force"} \/ (task.why = "header" /\ task.got)
    <2>1. base'.pending = codec.held
      <3>0. Due(task, base.pending) = codec.held
        BY <1>4, <1>6 DEF Dated
      <3>1. Finishes(task) <=> task.got
        BY <1>6 DEF Finishes
      <3>2. CASE task.got
        BY <1>1, <1>2, <1>4, <3>0, <3>1, <3>2, FinishedPending DEF Dated, Due
      <3>3. CASE ~task.got
        BY <1>1, <1>2, <3>0, <3>1, <3>3, FinishedPending DEF Due
      <3>4. QED
        BY <3>2, <3>3
    <2>2. CASE PacketEnd
      BY <2>1, <2>2 DEF PacketEnd
    <2>3. CASE DrainEnd
      <3>1. codec.held = <<>>
        BY <1>1, <1>4, <2>3 DEF Dated, DrainEnd
      <3>2. Configure(task.caps) => codec'.held = <<>>
        BY DEF Configure, NoCodec
      <3>3. Flushed(codec).held = <<>>
        BY <1>1, <3>1 DEF Flushed, CodecT
      <3>4. QED
        BY <2>1, <2>3, <3>1, <3>2, <3>3 DEF DrainEnd
    <2>4. QED
      BY <2>2, <2>3
  <1>7. QED
    BY <1>5, <1>6

(* The end of a drain that did not start: what dates the frames is as it   *)
(* was, or the cause is recorded.                                          *)
LEMMA DatesUnsent ==
  ASSUME AudDecInv, DatesMatch, DrainFailed
  PROVE  DatesMatch'
  <1> SUFFICES ASSUME hist'.skew = {} PROVE base'.pending = codec'.held
    BY DatedIdle DEF DatesMatch, DrainFailed
  <1>1. hist \in HistT /\ {"unsent", "format"} \subseteq Causes /\ base' = base
    BY DEF AudDecInv, AudDecTypeOK, Causes, DrainFailed
  <1>2. ~task.got /\ task.at = "unsent"
    BY DEF DrainFailed, AudDecInv, OpenSubframe
  <1>3. CASE task.why = "drain" /\ UNCHANGED <<codec, hist>>
    BY <1>1, <1>2, <1>3 DEF DatesMatch, Dated, Due
  <1>4. CASE task.why = "force" /\ hist' = Skewed(hist, "unsent", TRUE)
    BY <1>1, <1>4, SkewedEmpty
  <1>5. CASE /\ task.why = "format" /\ hist' = Skewed(hist, "format", codec.held # <<>>)
             /\ Configure(task.caps)
    <2>1. hist.skew = {} /\ codec.held = <<>>
      BY <1>1, <1>5, SkewedEmpty
    <2>2. base.pending = <<>>
      BY <1>2, <1>5, <2>1 DEF DatesMatch, Dated, Due
    <2>3. QED
      BY <1>1, <1>5, <2>2 DEF Configure, NoCodec
  <1>6. QED
    BY <1>3, <1>4, <1>5 DEF DrainFailed

LEMMA DateStep ==
  ASSUME AudDecInv, DateInv, [Next]_vars
  PROVE  DateInv'
  <1>1. dec \in DecT /\ codec \in CodecT /\ base \in BaseT /\ hist \in HistT
    BY DEF AudDecInv, AudDecTypeOK
  <1>2. TaskInv'
    BY TaskStep DEF DateInv
  <1>3. ASSUME hist'.out = hist.out, hist'.skew = {} => hist.skew = {}
        PROVE  OwnDate'
    BY <1>3 DEF DateInv, OwnDate
  <1>4. CASE Start \/ Stop
    <2>1. task' = IdleTask /\ base' = NewBase /\ codec' = NoCodec /\ hist' = NoHistory
      BY <1>4 DEF Start, Stop, DateInv, TaskInv
    <2>2. QED
      BY <1>2, <2>1, DatedIdle
      DEF DateInv, OwnDate, DatesMatch, NewBase, NoCodec, NoHistory
  <1>5. CASE SetFormat
    <2>1. base' = base /\ hist' = hist /\ task = IdleTask
      BY <1>5 DEF SetFormat, DateInv, TaskInv
    <2>2. PICK c \in InCaps :
            \/ UNCHANGED <<codec, task>> \/ DrainBegin("format", c)
            \/ ~dec.opened /\ Configure(c) /\ UNCHANGED task
      BY <1>5 DEF SetFormat
    <2>3. CASE UNCHANGED <<codec, task>>
      BY <1>2, <2>1, <2>3 DEF DateInv, OwnDate, DatesMatch
    <2>4. CASE DrainBegin("format", c)
      <3>1. codec'.held = codec.held
        BY <1>1, <2>4, DrainHolds
      <3>2. hist.skew = {} => base.pending = codec.held /\ base.pending \in Seq(Nat)
        BY <1>1, <2>1, DatedIdle DEF DateInv, DatesMatch, BaseT
      <3>3. DatesMatch'
        BY <2>1, <2>4, <3>1, <3>2, DatedDrain DEF DatesMatch
      <3>4. QED
        BY <1>2, <1>3, <2>1, <3>3 DEF DateInv
    <2>5. CASE ~dec.opened /\ Configure(c) /\ UNCHANGED task
      <3>1. codec.held = <<>> /\ codec'.held = <<>>
        <4>1. codec.state = "closed"
          BY <2>5 DEF AudDecInv, CodecReady
        <4>2. codec'.held = <<>>
          BY <2>5 DEF Configure, NoCodec
        <4>3. QED
          BY <4>1, <4>2 DEF DateInv, TaskInv
      <3>2. DatesMatch'
        BY <2>1, <2>5, <3>1 DEF DateInv, DatesMatch
      <3>3. QED
        BY <1>2, <1>3, <2>1, <3>2 DEF DateInv
    <2>6. QED
      BY <2>2, <2>3, <2>4, <2>5
  <1>6. CASE HandleFrame
    <2>1. hist'.out = hist.out /\ (hist'.skew = {} => hist.skew = {})
      <3>1. "empty" \in Causes /\ "header" \in Causes /\ "silent" \in Causes
            /\ (codec.held # <<>>) \in BOOLEAN
        BY DEF Causes
      <3>2. CASE EmptyPacket
        <4>1. hist' = Skewed(hist, "empty", TRUE)
          BY <3>2 DEF EmptyPacket
        <4>2. QED
          BY <1>1, <3>1, <4>1, SkewedSays, SkewedEmpty
      <3>3. CASE SendPacket
        <4>1. CASE hist' = hist
          BY <4>1
        <4>2. CASE hist' = Skewed(hist, "header", codec.held # <<>>)
          <5>1. hist' = hist \/ hist' = [hist EXCEPT !.skew = @ \cup {"header"}]
            BY <4>2 DEF Skewed
          <5>2. hist \in HistT
            BY <1>1 DEF AudDecInv
          <5>3. QED
            BY <5>1, <5>2 DEF HistT
        <4>3. CASE hist' = Skewed(hist, "silent", TRUE)
          BY <1>1, <3>1, <4>3, SkewedSays, SkewedEmpty
        <4>4. QED
          BY <3>3, <4>1, <4>2, <4>3 DEF SendPacket
      <3>4. CASE RefusePacket
        BY <3>4 DEF RefusePacket
      <3>5. QED
        BY <1>6, <3>2, <3>3, <3>4 DEF HandleFrame
    <2>2. DatesMatch'
      BY <1>6, DatesFrame DEF DateInv
    <2>3. QED
      BY <1>2, <1>3, <2>1, <2>2 DEF DateInv
  <1>7. CASE Drain
    <2>1. base' = base /\ hist' = hist /\ task = IdleTask /\ DrainBegin("drain", None)
      BY <1>7 DEF Drain, DateInv, TaskInv
    <2>2. codec'.held = codec.held
      BY <1>1, <2>1, DrainHolds
    <2>3. hist.skew = {} => base.pending = codec.held /\ base.pending \in Seq(Nat)
      BY <1>1, <2>1, DatedIdle DEF DateInv, DatesMatch, BaseT
    <2>4. DatesMatch'
      BY <2>1, <2>2, <2>3, DatedDrain DEF DatesMatch
    <2>5. QED
      BY <1>2, <1>3, <2>1, <2>4 DEF DateInv
  <1>8. CASE ReceiveFrame
    <2>1. Reading /\ codec.held # <<>> /\ codec' = [codec EXCEPT !.held = Tail(@)]
      BY <1>8 DEF ReceiveFrame
    <2>2. PICK f \in Formats : NotNegotiated(f) \/ Subframe(f)
      BY <1>8 DEF ReceiveFrame
    <2>3. CASE NotNegotiated(f)
      <3>1. hist'.skew # {}
        BY <1>1, <2>3, SkewedEmpty DEF NotNegotiated, Causes
      <3>2. QED
        BY <1>2, <3>1 DEF DateInv, OwnDate, DatesMatch
    <2>4. CASE Subframe(f)
      <3>1. hist'.skew = {} =>
              Dated(task', base'.pending, codec'.held) /\ hist'.out = "own"
        BY <2>1, <2>4, DatesSubframe DEF DateInv
      <3>2. QED
        BY <1>2, <3>1 DEF DateInv, OwnDate, DatesMatch
    <2>5. QED
      BY <2>2, <2>3, <2>4
  <1>9. CASE ReceiveNothing
    <2>1. hist'.out = hist.out /\ (hist'.skew = {} => hist.skew = {})
      <3>1. hist' = hist \/ hist' = Skewed(hist, "error", TRUE)
        <4>1. UNCHANGED <<codec, hist>> \/ hist' = Skewed(hist, "error", TRUE)
          BY <1>9, Zenon DEF ReceiveNothing
        <4>2. QED
          BY <4>1
      <3>2. CASE hist' = Skewed(hist, "error", TRUE)
        <4>1. "error" \in Causes
          BY DEF Causes
        <4>2. QED
          BY <1>1, <3>2, <4>1, SkewedSays, SkewedEmpty
      <3>3. QED
        BY <3>1, <3>2
    <2>2. DatesMatch'
      BY <1>9, DatesNothing DEF DateInv
    <2>3. QED
      BY <1>2, <1>3, <2>1, <2>2 DEF DateInv
  <1>10. CASE PacketEnd \/ DrainEnd \/ DrainFailed
    <2>1. hist'.out = hist.out /\ (hist'.skew = {} => hist.skew = {})
      <3>1. \/ hist' = hist
            \/ \E cause \in {"header", "refused", "unsent", "format"}, really \in BOOLEAN :
                 hist' = Skewed(hist, cause, really)
        <4>1. task.got \in BOOLEAN
          BY DEF AudDecInv, AudDecTypeOK, TaskT
        <4>2. QED
          BY <1>10, <4>1 DEF PacketEnd, DrainEnd, DrainFailed
      <3>2. {"header", "refused", "unsent", "format"} \subseteq Causes
        BY DEF Causes
      <3>3. QED
        BY <1>1, <3>1, <3>2, SkewedSays, SkewedEmpty
    <2>2. DatesMatch'
      BY <1>10, DatesEnd, DatesUnsent DEF DateInv
    <2>3. QED
      BY <1>2, <1>3, <2>1, <2>2 DEF DateInv
  <1>11. CASE Flush
    <2>1. /\ base'.pending = <<>> /\ hist'.out = "none" /\ task' = IdleTask
      BY <1>1, <1>11 DEF Flush, BaseT, HistT, DateInv, TaskInv
    <2>2. codec'.held = <<>>
      BY <1>1, <1>11 DEF Flush, Flushed, CodecT, DateInv, TaskInv, AudDecInv, CodecReady
    <2>3. QED
      BY <1>2, <2>1, <2>2, DatedIdle DEF DateInv, OwnDate, DatesMatch
  <1>12. CASE DownstreamFails \/ UNCHANGED vars
    BY <1>2, <1>12 DEF DownstreamFails, vars, DateInv, OwnDate, DatesMatch
  <1>13. QED
    BY <1>4, <1>5, <1>6, <1>7, <1>8, <1>9, <1>10, <1>11, <1>12 DEF Next

(* A subframe gets the date of its own packet as long as every packet has  *)
(* led to one frame and was finished for it, whatever is held back,        *)
(* drained, refused, flushed or opened anew meanwhile.                     *)
THEOREM DatesAreOwn == Spec => []OwnDate
  <1>1. Init => DateInv
    <2> SUFFICES ASSUME Init PROVE DateInv
      OBVIOUS
    <2>1. OwnDate /\ TaskInv
      BY DEF Init, OwnDate, TaskInv, NoHistory, NoCodec, IdleTask, Idle
    <2>2. DatesMatch
      BY DatedIdle DEF Init, DatesMatch, NewBase, NoCodec
    <2>3. QED
      BY <2>1, <2>2 DEF DateInv
  <1>2. AudDecInv /\ DateInv /\ [Next]_vars => DateInv'
    BY DateStep
  <1>3. DateInv => OwnDate
    BY DEF DateInv
  <1>4. QED
    BY <1>1, <1>2, <1>3, InvHolds, PTL DEF Spec
=============================================================================
