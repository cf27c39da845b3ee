--------------------------- MODULE LibavMuxProofs ---------------------------
(***************************************************************************)
(* Theorems about LibavMux, for every number of pads and any caps and      *)
(* times: what is written is of streams the header describes, and in the   *)
(* order of time.                                                          *)
(***************************************************************************)
EXTENDS LibavMux, WellFoundedInduction, TLAPS

Times == 0..MaxTime \cup {NoTime}
PadT == [buffer : Times \cup {None}, eos : BOOLEAN, caps : InCaps \cup {None},
         time : 0..MaxTime]
StreamT == [pad : Pads, caps : InCaps \cup {None}]
HistT == [last : Nat, back : BOOLEAN, untimed : BOOLEAN, odd : SUBSET Nat,
          stray : BOOLEAN, changed : SUBSET Nat, stale : SUBSET Nat, late : BOOLEAN]

MuxTypeOK ==
  /\ mux \in [opened : BOOLEAN, pb : {"closed", "open"}]
  /\ streams \in Seq(StreamT)
  /\ pad \in [Pads -> PadT]
  /\ request \in Pads \cup {None}
  /\ collect \in {"idle", "opening", "writing"}
  /\ hist \in HistT

(* Every pad has one stream, and a pad without one has seen nothing.       *)
PadsInv ==
  /\ \A i, j \in Streams : streams[i].pad = streams[j].pad => i = j
  /\ request # None => request \notin Requested
  /\ \A p \in Pads \ Requested : pad[p] = NewPad
  /\ \A p \in Pads : pad[p].buffer \notin {None, NoTime} => pad[p].time = pad[p].buffer
  /\ \A i \in Streams : pad[streams[i].pad].caps \in {None, streams[i].caps}

(* Where collected is, and what it may rely on.  A pad that was added      *)
(* while the header was on its way takes all of it away.                   *)
CollectInv ==
  /\ collect = "writing" => mux.opened
  /\ collect = "opening" => ~mux.opened
  /\ collect # "idle" => Running
  /\ collect = "opening" /\ ~hist.late => Negotiated
  /\ collect # "idle" /\ ~hist.late =>
       \A p \in Requested : pad[p].buffer # None \/ pad[p].eos

HeaderInv ==
  mux.opened /\ ~hist.late =>
    /\ request = None
    /\ DOMAIN header = Streams
    /\ \A i \in Streams : header[i] # None
    /\ \A i \in Streams \ hist.changed :
         /\ header[i] = streams[i].caps
         /\ i \notin hist.stale => pad[streams[i].pad].caps = header[i]

(* What is still to come of an open muxer is not older than what it wrote. *)
OrderInv ==
  /\ ~mux.opened /\ flow # "eos" => hist.last = 0 /\ hist.odd = {}
  /\ mux.opened /\ ~hist.late /\ ~hist.untimed =>
       \A p \in Requested :
         \/ pad[p].buffer # None /\ hist.last <= pad[p].buffer
         \/ pad[p].buffer = None /\ (pad[p].eos \/ hist.last <= pad[p].time)

MuxInv ==
  /\ MuxTypeOK /\ PadsInv /\ CollectInv /\ HeaderInv /\ OrderInv
  /\ HeaderCovers /\ HeaderDescribes /\ InOrder

-----------------------------------------------------------------------------
(* Data *)

LEMMA LeastNumber ==
  ASSUME NEW T, T \subseteq Nat, T # {}
  PROVE  \E x \in T : \A y \in T : x <= y
  <1> DEFINE R == {ss \in Nat \X Nat : ss[1] < ss[2]}
  <1>1. IsWellFoundedOn(R, Nat)
    BY NatLessThanWellFounded DEF OpToRel
  <1>2. PICK x \in T : \A y \in T : <<y, x>> \notin R
    <2> HIDE DEF R
    <2> QED
      BY <1>1, WFMin
  <1>3. ASSUME NEW y \in T PROVE x <= y
    <2>1. <<y, x>> \in Nat \X Nat
      OBVIOUS
    <2>2. ~(y < x)
      BY <1>2, <2>1
    <2>3. QED
      BY <2>2
  <1>4. QED
    BY <1>3

LEMMA StreamsOK ==
  ASSUME MuxTypeOK
  PROVE  /\ Streams \subseteq Nat /\ Streams = 1..Len(streams)
         /\ \A i \in Streams : streams[i] \in StreamT /\ streams[i].pad \in Requested
         /\ Requested \subseteq Pads
  <1>1. streams \in Seq(StreamT)
    BY DEF MuxTypeOK
  <1>2. Streams = 1..Len(streams) /\ Len(streams) \in Nat
    BY <1>1 DEF Streams
  <1>3. Streams \subseteq Nat
    BY <1>2
  <1>4. \A i \in Streams : streams[i] \in StreamT
    BY <1>1 DEF Streams
  <1>5. \A i \in Streams : streams[i].pad \in Requested
    BY DEF Requested
  <1>6. Requested \subseteq Pads
    BY <1>4 DEF Requested, StreamT
  <1>7. QED
    BY <1>2, <1>3, <1>4, <1>5, <1>6

LEMMA StreamOfPad ==
  ASSUME MuxTypeOK, NEW p \in Requested
  PROVE  StreamOf(p) \in Streams /\ streams[StreamOf(p)].pad = p
  <1>1. \E i \in Streams : streams[i].pad = p
    BY DEF Requested
  <1>2. QED
    BY <1>1 DEF StreamOf

(* gst_ffmpegmux_collected serves a queued pad, with the oldest buffer     *)
(* unless it has no time.                                                  *)
LEMMA BestPadIsOldest ==
  ASSUME MuxTypeOK, Queued # {}
  PROVE  /\ BestPad \in Queued /\ Time(BestPad) \in Times
         /\ Time(BestPad) # NoTime => \A j \in Queued : Time(BestPad) <= Time(j)
  <1>1. Queued \subseteq Nat
    BY StreamsOK DEF Queued
  <1>2. \A i \in Queued : Time(i) \in Times /\ Time(i) \in Nat
    <2> SUFFICES ASSUME NEW i \in Queued PROVE Time(i) \in Times /\ Time(i) \in Nat
      OBVIOUS
    <2>1. i \in Streams /\ pad[streams[i].pad].buffer # None
      BY DEF Queued
    <2>2. streams[i].pad \in Pads
      BY <2>1, StreamsOK
    <2>3. Time(i) \in Times
      BY <2>1, <2>2 DEF MuxTypeOK, PadT, Time
    <2>4. QED
      BY <2>3, MuxAssumption DEF Times
  <1> DEFINE first == CHOOSE i \in Queued : \A j \in Queued : i <= j
             oldest == CHOOSE i \in Queued :
                         \A j \in Queued : Time(i) < Time(j) \/ (Time(i) = Time(j) /\ i <= j)
  <1>3. first \in Queued
    <2>1. \E i \in Queued : \A j \in Queued : i <= j
      BY <1>1, LeastNumber
    <2>2. QED
      BY <2>1
  <1>4. oldest \in Queued /\ \A j \in Queued : Time(oldest) <= Time(j)
    <2>1. PICK t \in {Time(i) : i \in Queued} : \A u \in {Time(i) : i \in Queued} : t <= u
      BY <1>2, LeastNumber
    <2>2. {i \in Queued : Time(i) = t} # {} /\ {i \in Queued : Time(i) = t} \subseteq Nat
      BY <1>1, <2>1
    <2>3. PICK i \in {k \in Queued : Time(k) = t} :
            \A j \in {k \in Queued : Time(k) = t} : i <= j
      BY <2>2, LeastNumber
    <2>4. \A j \in Queued : Time(i) < Time(j) \/ (Time(i) = Time(j) /\ i <= j)
      BY <1>2, <2>1, <2>3
    <2>5. oldest \in Queued /\ \A j \in Queued : Time(oldest) < Time(j)
            \/ (Time(oldest) = Time(j) /\ oldest <= j)
      BY <2>3, <2>4
    <2>6. QED
      BY <1>2, <2>5
  <1>5. BestPad = IF Time(first) = NoTime THEN first ELSE oldest
    BY DEF BestPad
  <1> HIDE DEF first, oldest
  <1>6. QED
    BY <1>2, <1>3, <1>4, <1>5

LEMMA InvInit == Init => MuxInv
  <1> SUFFICES ASSUME Init PROVE MuxInv
    OBVIOUS
  <1> USE DEF Init
  <1>1. MuxTypeOK
    <2>1. streams \in Seq(StreamT)
      OBVIOUS
    <2>2. pad \in [Pads -> PadT]
      BY MuxAssumption DEF NewPad, PadT
    <2>3. hist \in HistT
      BY DEF NoHistory, HistT
    <2>4. QED
      BY <2>1, <2>2, <2>3 DEF MuxTypeOK
  <1>2. Streams = {} /\ Requested = {}
    BY DEF Streams, Requested
  <1>3. PadsInv
    BY <1>2 DEF PadsInv, NewPad
  <1>4. QED
    BY <1>1, <1>2, <1>3
    DEF MuxInv, CollectInv, HeaderInv, OrderInv, HeaderCovers, HeaderDescribes,
        InOrder, NoHistory

-----------------------------------------------------------------------------
(* Pads *)

LEMMA RequestStep == MuxInv /\ RequestPad => MuxInv'
  <1> SUFFICES ASSUME MuxInv, RequestPad PROVE MuxInv'
    OBVIOUS
  <1>1. /\ UNCHANGED <<mux, streams, pad, collect, flow, header, hist>>
        /\ ~mux.opened /\ request' \in Pads \ Requested
    BY DEF RequestPad, MayRequest
  <1>2. MuxTypeOK'
    BY <1>1 DEF MuxInv, MuxTypeOK
  <1>3. Streams' = Streams /\ Requested' = Requested
    BY <1>1 DEF Streams, Requested
  <1>4. PadsInv'
    BY <1>1, <1>3 DEF MuxInv, PadsInv
  <1>5. CollectInv' /\ HeaderInv'
    BY <1>1, <1>3 DEF MuxInv, CollectInv, HeaderInv, Negotiated, Running
  <1>6. OrderInv' /\ HeaderCovers' /\ HeaderDescribes' /\ InOrder'
    BY <1>1, <1>3 DEF MuxInv, OrderInv, HeaderCovers, HeaderDescribes, InOrder
  <1>7. QED
    BY <1>2, <1>4, <1>5, <1>6 DEF MuxInv

LEMMA NewStreamStep == MuxInv /\ NewStream => MuxInv'
  <1> SUFFICES ASSUME MuxInv, NewStream PROVE MuxInv'
    OBVIOUS
  <1> DEFINE new == [pad |-> request, caps |-> None]
  <1>1. /\ UNCHANGED <<mux, pad, collect, flow, header>>
        /\ request # None /\ request' = None
        /\ streams' = Append(streams, new)
        /\ hist' = [hist EXCEPT !.late = hist.late \/ collect = "opening"]
    BY DEF NewStream
  <1>2. MuxTypeOK /\ request \in Pads /\ request \notin Requested /\ hist \in HistT
    BY <1>1 DEF MuxInv, MuxTypeOK, PadsInv
  <1>3. new \in StreamT
    BY <1>2 DEF StreamT
  <1>4. /\ streams' \in Seq(StreamT) /\ Streams' = Streams \cup {Len(streams) + 1}
        /\ \A i \in Streams : streams'[i] = streams[i]
        /\ streams'[Len(streams) + 1] = new
        /\ Len(streams) + 1 \notin Streams
    <2>1. streams \in Seq(StreamT) /\ Streams = 1..Len(streams)
      BY <1>2, StreamsOK DEF MuxTypeOK
    <2> HIDE DEF new
    <2>2. streams' \in Seq(StreamT) /\ Len(streams') = Len(streams) + 1
          /\ DOMAIN streams' = 1..(Len(streams) + 1) /\ Len(streams) \in Nat
      BY <1>1, <1>3, <2>1
    <2>3. \A i \in 1..Len(streams) : streams'[i] = streams[i]
      BY <1>1, <1>3, <2>1
    <2>4. streams'[Len(streams) + 1] = new
      BY <1>1, <1>3, <2>1
    <2>5. QED
      BY <2>1, <2>2, <2>3, <2>4 DEF Streams
  <1>5. Requested' = Requested \cup {request}
    BY <1>4 DEF Requested
  <1>6. /\ hist' \in HistT /\ hist'.late = (hist.late \/ collect = "opening")
        /\ hist'.last = hist.last /\ hist'.untimed = hist.untimed
        /\ hist'.back = hist.back /\ hist'.stray = hist.stray /\ hist'.odd = hist.odd
        /\ hist'.changed = hist.changed /\ hist'.stale = hist.stale
    BY <1>1, <1>2 DEF HistT
  <1>7. MuxTypeOK'
    BY <1>1, <1>2, <1>4, <1>6 DEF MuxTypeOK
  <1>8. PadsInv'
    <2>1. pad[request] = NewPad
      BY <1>2 DEF MuxInv, PadsInv
    <2>2. \A i \in Streams : streams[i].pad # request
      BY <1>2 DEF Requested
    <2>3. \A i, j \in Streams' : streams'[i].pad = streams'[j].pad => i = j
      BY <1>4, <2>2 DEF MuxInv, PadsInv
    <2>4. \A i \in Streams' : pad[streams'[i].pad].caps \in {None, streams'[i].caps}
      BY <1>4, <2>1 DEF MuxInv, PadsInv, NewPad
    <2>5. QED
      BY <1>1, <1>5, <2>3, <2>4 DEF MuxInv, PadsInv
  <1>9. hist.late => hist'.late
    BY <1>6
  <1>10. mux.opened \/ collect # "idle" => hist'.late
    BY <1>1, <1>2, <1>6 DEF MuxInv, MuxTypeOK, HeaderInv, CollectInv
  <1>11. CollectInv' /\ HeaderInv'
    BY <1>1, <1>10 DEF MuxInv, CollectInv, HeaderInv, Running
  <1>12. OrderInv'
    BY <1>1, <1>6, <1>10 DEF MuxInv, OrderInv
  <1>13. HeaderCovers' /\ HeaderDescribes' /\ InOrder'
    BY <1>6, <1>9 DEF MuxInv, HeaderCovers, HeaderDescribes, InOrder
  <1>14. QED
    BY <1>7, <1>8, <1>11, <1>12, <1>13 DEF MuxInv

LEMMA CapsStep == MuxInv /\ SetCaps => MuxInv'
  <1> SUFFICES ASSUME MuxInv, SetCaps PROVE MuxInv'
    OBVIOUS
  <1>1. PICK p \in Pads, c \in InCaps :
          /\ Delivers(p)
          /\ streams' = [streams EXCEPT ![StreamFor(p)].caps = c]
          /\ pad' = [pad EXCEPT ![p].caps = c]
          /\ hist' = [hist EXCEPT !.changed = IF mux.opened
                                               THEN hist.changed \cup {StreamOf(p)}
                                               ELSE hist.changed]
          /\ UNCHANGED <<mux, request, collect, flow, header>>
    BY DEF SetCaps
  <1>2. MuxTypeOK /\ p \in Requested /\ hist \in HistT /\ pad \in [Pads -> PadT]
        /\ streams \in Seq(StreamT) /\ mux.opened \in BOOLEAN
    BY <1>1 DEF Delivers, MuxInv, MuxTypeOK
  <1>3. PICK k \in Streams : /\ k = StreamFor(p) /\ k = StreamOf(p)
                             /\ streams[k].pad = p
    BY <1>2, StreamOfPad DEF StreamFor
  <1>4. /\ streams' \in Seq(StreamT) /\ Streams' = Streams
        /\ \A i \in Streams : /\ streams'[i].pad = streams[i].pad
                              /\ streams'[i].caps = IF i = k THEN c ELSE streams[i].caps
    <2>1. streams' = [streams EXCEPT ![k].caps = c]
      BY <1>1, <1>3
    <2>2. \A i \in Streams : streams'[i] = IF i = k THEN [streams[k] EXCEPT !.caps = c]
                                           ELSE streams[i]
      BY <2>1 DEF Streams
    <2>3. Streams' = Streams
      BY <2>1 DEF Streams
    <2>4. \A i \in Streams : streams[i] \in StreamT
      BY <1>2, StreamsOK
    <2>5. \A i \in Streams : streams'[i] \in StreamT
      BY <2>2, <2>4 DEF StreamT
    <2>6. streams' \in Seq(StreamT)
      <3>1. Streams = 1..Len(streams) /\ Len(streams) \in Nat
        BY <1>2, StreamsOK
      <3>2. streams' \in [1..Len(streams) -> StreamT]
        BY <2>1, <2>5, <3>1 DEF Streams
      <3>3. QED
        BY <3>1, <3>2
    <2>7. QED
      BY <2>2, <2>3, <2>4, <2>6 DEF StreamT
  <1>5. Requested' = Requested
    BY <1>4 DEF Requested
  <1>6. /\ pad' \in [Pads -> PadT]
        /\ \A q \in Pads \ {p} : pad'[q] = pad[q]
        /\ pad'[p].caps = c
        /\ \A q \in Pads : /\ pad'[q].buffer = pad[q].buffer
                           /\ pad'[q].eos = pad[q].eos /\ pad'[q].time = pad[q].time
    BY <1>1, <1>2 DEF PadT
  <1> DEFINE ch == IF mux.opened THEN hist.changed \cup {k} ELSE hist.changed
  <1>7. /\ hist' \in HistT /\ hist'.changed = ch /\ hist'.stale = hist.stale
        /\ hist'.last = hist.last /\ hist'.untimed = hist.untimed
        /\ hist'.back = hist.back /\ hist'.stray = hist.stray /\ hist'.odd = hist.odd
        /\ hist'.late = hist.late
    <2>1. k \in Nat
      BY <1>2, <1>3, StreamsOK
    <2>2. ch \in SUBSET Nat
      BY <1>2, <2>1 DEF HistT
    <2>3. hist' = [hist EXCEPT !.changed = ch]
      BY <1>1, <1>3
    <2> HIDE DEF ch
    <2>4. QED
      BY <1>2, <2>2, <2>3 DEF HistT
  <1>8. MuxTypeOK'
    BY <1>1, <1>2, <1>4, <1>6, <1>7 DEF MuxTypeOK
  <1>9. PadsInv'
    <2>1. \A i \in Streams : pad'[streams'[i].pad].caps \in {None, streams'[i].caps}
      <3> SUFFICES ASSUME NEW i \in Streams
                   PROVE  pad'[streams'[i].pad].caps \in {None, streams'[i].caps}
        OBVIOUS
      <3>1. streams[i].pad \in Pads
        BY <1>2, StreamsOK
      <3>2. CASE i = k
        BY <1>3, <1>4, <1>6, <3>2
      <3>3. CASE i # k
        <4>1. streams[i].pad # p
          BY <1>3, <3>3 DEF MuxInv, PadsInv
        <4>2. QED
          BY <1>4, <1>6, <3>1, <3>3, <4>1 DEF MuxInv, PadsInv
      <3>4. QED
        BY <3>2, <3>3
    <2>2. \A q \in Pads \ Requested : pad'[q] = NewPad
      BY <1>2, <1>6 DEF MuxInv, PadsInv
    <2>3. \A q \in Pads : pad'[q].buffer \notin {None, NoTime}
                            => pad'[q].time = pad'[q].buffer
      BY <1>6 DEF MuxInv, PadsInv
    <2>4. \A i, j \in Streams : streams'[i].pad = streams'[j].pad => i = j
      BY <1>4 DEF MuxInv, PadsInv
    <2>5. QED
      BY <1>1, <1>4, <1>5, <2>1, <2>2, <2>3, <2>4 DEF MuxInv, PadsInv
  <1>10. CollectInv'
    <2>1. Negotiated => Negotiated'
      BY <1>4, MuxAssumption DEF Negotiated
    <2>2. \A q \in Requested : pad[q].buffer # None \/ pad[q].eos
                                => pad'[q].buffer # None \/ pad'[q].eos
      BY <1>2, <1>6, StreamsOK
    <2>3. QED
      BY <1>1, <1>5, <1>7, <2>1, <2>2 DEF MuxInv, CollectInv, Running
  <1>11. HeaderInv'
    <2> SUFFICES ASSUME mux.opened, ~hist.late PROVE HeaderInv'
      BY <1>1, <1>7 DEF HeaderInv
    <2>1. ch = hist.changed \cup {k}
      OBVIOUS
    <2>2. \A i \in Streams \ ch : /\ header[i] = streams'[i].caps
                                  /\ pad'[streams'[i].pad].caps = pad[streams[i].pad].caps
      <3> SUFFICES ASSUME NEW i \in Streams, i \notin ch
                   PROVE  /\ header[i] = streams'[i].caps
                          /\ pad'[streams'[i].pad].caps = pad[streams[i].pad].caps
        OBVIOUS
      <3>1. i # k /\ streams[i].pad \in Pads
        BY <1>2, <2>1, StreamsOK
      <3>2. streams[i].pad # p
        BY <1>3, <3>1 DEF MuxInv, PadsInv
      <3>3. QED
        BY <1>4, <1>6, <2>1, <3>1, <3>2 DEF MuxInv, HeaderInv
    <2>3. QED
      BY <1>1, <1>4, <1>7, <2>1, <2>2 DEF MuxInv, HeaderInv
  <1>12. OrderInv'
    <2>1. Requested \subseteq Pads
      BY <1>2, StreamsOK
    <2>2. QED
      BY <1>1, <1>5, <1>6, <1>7, <2>1 DEF MuxInv, OrderInv
  <1>13. HeaderCovers' /\ HeaderDescribes' /\ InOrder'
    <2>1. hist.changed \subseteq ch
      OBVIOUS
    <2>2. QED
      BY <1>7, <2>1 DEF MuxInv, HeaderCovers, HeaderDescribes, InOrder
  <1>14. QED
    BY <1>8, <1>9, <1>10, <1>11, <1>12, <1>13 DEF MuxInv

LEMMA DeliverStep == MuxInv /\ PadDelivers => MuxInv'
  <1> SUFFICES ASSUME MuxInv, PadDelivers PROVE MuxInv'
    OBVIOUS
  <1>1. PICK p \in Pads :
          /\ Delivers(p)
          /\ \/ \E t \in pad[p].time..MaxTime \cup {NoTime} :
                  pad' = [pad EXCEPT ![p].buffer = t,
                            ![p].time = IF t = NoTime THEN pad[p].time ELSE t]
             \/ pad' = [pad EXCEPT ![p].eos = TRUE]
          /\ UNCHANGED <<mux, streams, request, collect, flow, header, hist>>
    BY DEF PadDelivers
  <1>2. MuxTypeOK /\ p \in Requested /\ pad \in [Pads -> PadT] /\ pad[p] \in PadT
        /\ pad[p].buffer = None /\ ~pad[p].eos
    BY <1>1 DEF Delivers, MuxInv, MuxTypeOK
  <1>3. Streams' = Streams /\ Requested' = Requested /\ Requested \subseteq Pads
    BY <1>1, <1>2, StreamsOK DEF Streams, Requested
  <1>4. PICK b \in Times \cup {None}, e \in BOOLEAN, m \in 0..MaxTime :
          /\ pad' \in [Pads -> PadT] /\ \A q \in Pads \ {p} : pad'[q] = pad[q]
          /\ pad'[p].buffer = b /\ pad'[p].eos = e /\ pad'[p].time = m
          /\ pad'[p].caps = pad[p].caps
          /\ \/ b # None /\ ~e /\ b \in Nat /\ pad[p].time <= b
             \/ b = None /\ e
          /\ b \notin {None, NoTime} => m = b
    <2>1. CASE \E t \in pad[p].time..MaxTime \cup {NoTime} :
                 pad' = [pad EXCEPT ![p].buffer = t,
                           ![p].time = IF t = NoTime THEN pad[p].time ELSE t]
      <3>1. PICK t \in pad[p].time..MaxTime \cup {NoTime} :
                 pad' = [pad EXCEPT ![p].buffer = t,
                           ![p].time = IF t = NoTime THEN pad[p].time ELSE t]
        BY <2>1
      <3> DEFINE m == IF t = NoTime THEN pad[p].time ELSE t
      <3>2. t \in Times /\ m \in 0..MaxTime /\ t # None /\ t \in Nat /\ pad[p].time <= t
        BY <1>2, MuxAssumption DEF PadT, Times
      <3>3. t # NoTime => m = t
        OBVIOUS
      <3>4. pad' = [pad EXCEPT ![p].buffer = t, ![p].time = m]
        BY <3>1
      <3> HIDE DEF m
      <3>5. /\ pad' \in [Pads -> PadT] /\ \A q \in Pads \ {p} : pad'[q] = pad[q]
            /\ pad'[p].buffer = t /\ pad'[p].eos = FALSE /\ pad'[p].time = m
            /\ pad'[p].caps = pad[p].caps
        BY <1>2, <3>2, <3>4 DEF PadT
      <3>6. FALSE \in BOOLEAN /\ t \in Times \cup {None}
        BY <3>2
      <3>7. QED
        BY <3>2, <3>3, <3>5, <3>6
    <2>2. CASE pad' = [pad EXCEPT ![p].eos = TRUE]
      <3>1. /\ pad' \in [Pads -> PadT] /\ \A q \in Pads \ {p} : pad'[q] = pad[q]
            /\ pad'[p].buffer = None /\ pad'[p].eos = TRUE
            /\ pad'[p].time = pad[p].time /\ pad'[p].caps = pad[p].caps
        BY <1>2, <2>2 DEF PadT
      <3>2. TRUE \in BOOLEAN /\ None \in Times \cup {None} /\ pad[p].time \in 0..MaxTime
        BY <1>2 DEF PadT
      <3>3. QED
        BY <3>1, <3>2
    <2>3. QED
      BY <1>1, <2>1, <2>2
  <1>5. /\ pad' \in [Pads -> PadT] /\ \A q \in Pads \ {p} : pad'[q] = pad[q]
        /\ pad'[p].buffer = b /\ pad'[p].eos = e /\ pad'[p].time = m
        /\ pad'[p].caps = pad[p].caps
    BY <1>4
  <1>6. MuxTypeOK'
    BY <1>1, <1>2, <1>5 DEF MuxTypeOK
  <1>7. PadsInv'
    <2>1. \A q \in Pads : pad'[q].caps = pad[q].caps
      BY <1>5
    <2>2. \A i \in Streams : streams[i].pad \in Pads
      BY <1>2, StreamsOK
    <2>3. \A i \in Streams : pad'[streams[i].pad].caps \in {None, streams[i].caps}
      BY <2>1, <2>2 DEF MuxInv, PadsInv
    <2>4. \A q \in Pads \ Requested : pad'[q] = NewPad
      BY <1>2, <1>5 DEF MuxInv, PadsInv
    <2>5. \A q \in Pads : pad'[q].buffer \notin {None, NoTime}
                            => pad'[q].time = pad'[q].buffer
      BY <1>4, <1>5 DEF MuxInv, PadsInv
    <2>6. QED
      BY <1>1, <1>3, <2>3, <2>4, <2>5 DEF MuxInv, PadsInv
  <1>8. CollectInv'
    <2>1. \A q \in Requested : pad[q].buffer # None \/ pad[q].eos
                                => pad'[q].buffer # None \/ pad'[q].eos
      BY <1>2, <1>3, <1>5
    <2>2. QED
      BY <1>1, <1>3, <2>1 DEF MuxInv, CollectInv, Negotiated, Running
  <1>9. HeaderInv' /\ HeaderCovers' /\ HeaderDescribes' /\ InOrder'
    <2>1. \A i \in Streams : pad'[streams[i].pad].caps = pad[streams[i].pad].caps
      BY <1>2, <1>5, StreamsOK
    <2>2. QED
      BY <1>1, <1>3, <2>1
      DEF MuxInv, HeaderInv, HeaderCovers, HeaderDescribes, InOrder
  <1>10. OrderInv'
    <2>1. hist.last \in Nat /\ pad[p].time \in Nat
      BY <1>2 DEF MuxTypeOK, HistT, PadT
    <2>2. SUFFICES ASSUME mux.opened, ~hist.late, ~hist.untimed, NEW q \in Requested
                   PROVE  \/ pad'[q].buffer # None /\ hist.last <= pad'[q].buffer
                          \/ pad'[q].buffer = None /\ (pad'[q].eos \/ hist.last <= pad'[q].time)
      BY <1>1, <1>3 DEF MuxInv, OrderInv
    <2>3. CASE q = p
      <3>1. hist.last <= pad[p].time
        BY <1>2, <2>2 DEF MuxInv, OrderInv
      <3>2. QED
        BY <1>4, <1>5, <2>1, <2>3, <3>1
    <2>4. CASE q # p
      BY <1>3, <1>5, <2>2, <2>4 DEF MuxInv, OrderInv
    <2>5. QED
      BY <2>3, <2>4
  <1>11. QED
    BY <1>6, <1>7, <1>8, <1>9, <1>10 DEF MuxInv

-----------------------------------------------------------------------------
(* gst_ffmpegmux_collected *)

(* Steps that leave pads, streams and history alone. *)
LEMMA CollectKeeps ==
  ASSUME MuxInv, UNCHANGED <<streams, pad, request, header, hist>>,
         mux' \in [opened : BOOLEAN, pb : {"closed", "open"}],
         mux'.opened => mux.opened, collect' \in {"idle", "opening", "writing"},
         CollectInv',
         ~mux'.opened /\ flow' # "eos" => hist.last = 0 /\ hist.odd = {}
  PROVE  MuxInv'
  <1>1. MuxTypeOK'
    BY DEF MuxInv, MuxTypeOK
  <1>2. Streams' = Streams /\ Requested' = Requested
    BY DEF Streams, Requested
  <1>3. PadsInv'
    BY <1>2 DEF MuxInv, PadsInv
  <1>4. HeaderInv' /\ OrderInv'
    BY <1>2 DEF MuxInv, HeaderInv, OrderInv
  <1>5. HeaderCovers' /\ HeaderDescribes' /\ InOrder'
    BY DEF MuxInv, HeaderCovers, HeaderDescribes, InOrder
  <1>6. QED
    BY <1>1, <1>3, <1>4, <1>5 DEF MuxInv

LEMMA CollectStep ==
  MuxInv /\ (CollectOpen \/ CollectMore \/ WriteTrailer \/ ReadyToPaused) => MuxInv'
  <1> SUFFICES ASSUME MuxInv, CollectOpen \/ CollectMore \/ WriteTrailer \/ ReadyToPaused
               PROVE  MuxInv'
    OBVIOUS
  <1>1. UNCHANGED <<streams, pad, request, header, hist>>
    BY DEF CollectOpen, CollectMore, WriteTrailer, ReadyToPaused
  <1>2. mux \in [opened : BOOLEAN, pb : {"closed", "open"}]
        /\ collect \in {"idle", "opening", "writing"}
    BY DEF MuxInv, MuxTypeOK
  <1>3. Requested' = Requested /\ Streams' = Streams
    BY <1>1 DEF Requested, Streams
  <1>4. CASE CollectOpen
    <2>1. AllCollected /\ Running /\ flow # "eos" /\ collect = "idle" /\ ~mux.opened
      BY <1>4 DEF CollectOpen, AllCollected, Running
    <2>2. \/ /\ Negotiated /\ mux' = [mux EXCEPT !.pb = "open"]
             /\ collect' = "opening" /\ flow' = "ok"
          \/ flow' = "error" /\ mux' = mux /\ collect' = collect
      BY <1>4 DEF CollectOpen
    <2>3. mux' \in [opened : BOOLEAN, pb : {"closed", "open"}] /\ mux'.opened = mux.opened
      BY <1>2, <2>2
    <2>4. CollectInv'
      BY <1>1, <1>3, <2>1, <2>2, <2>3 DEF CollectInv, AllCollected, Negotiated, Running
    <2>5. QED
      BY <1>1, <1>2, <2>1, <2>2, <2>3, <2>4, CollectKeeps DEF MuxInv, OrderInv
  <1>5. CASE CollectMore
    <2>1. AllCollected /\ Running /\ mux.opened /\ UNCHANGED <<mux, flow>>
          /\ collect' = "writing"
      BY <1>5 DEF CollectMore, AllCollected
    <2>2. CollectInv'
      BY <1>1, <1>3, <2>1 DEF CollectInv, AllCollected, Running
    <2>3. QED
      BY <1>1, <1>2, <2>1, <2>2, CollectKeeps
  <1>6. CASE WriteTrailer
    <2>1. mux' = [opened |-> FALSE, pb |-> "closed"] /\ flow' = "eos" /\ collect' = "idle"
      BY <1>6 DEF WriteTrailer
    <2>2. mux' \in [opened : BOOLEAN, pb : {"closed", "open"}] /\ ~mux'.opened
      BY <2>1
    <2>3. CollectInv'
      BY <2>1 DEF CollectInv
    <2>4. QED
      BY <1>1, <2>1, <2>2, <2>3, CollectKeeps
  <1>7. CASE ReadyToPaused
    <2>1. flow = "stopped" /\ flow' = "ok" /\ UNCHANGED <<mux, collect>>
      BY <1>7 DEF ReadyToPaused
    <2>2. collect = "idle"
      BY <2>1 DEF MuxInv, CollectInv, Running
    <2>3. CollectInv'
      BY <2>1, <2>2 DEF CollectInv
    <2>4. QED
      BY <1>1, <1>2, <2>1, <2>3, CollectKeeps DEF MuxInv, OrderInv
  <1>8. QED
    BY <1>4, <1>5, <1>6, <1>7

LEMMA HeaderStep == MuxInv /\ WriteHeader => MuxInv'
  <1> SUFFICES ASSUME MuxInv, WriteHeader PROVE MuxInv'
    OBVIOUS
  <1>1. UNCHANGED <<streams, pad, request>> /\ collect = "opening"
    BY DEF WriteHeader
  <1>2. /\ MuxTypeOK /\ ~mux.opened /\ Running /\ hist.last = 0 /\ hist.odd = {}
        /\ mux \in [opened : BOOLEAN, pb : {"closed", "open"}] /\ hist \in HistT
    BY <1>1 DEF MuxInv, MuxTypeOK, CollectInv, OrderInv, Running
  <1>3. Streams' = Streams /\ Requested' = Requested /\ Requested \subseteq Pads
    BY <1>1, <1>2, StreamsOK DEF Streams, Requested
  <1>4. PadsInv'
    BY <1>1, <1>3 DEF MuxInv, PadsInv
  <1>5. CASE /\ mux' = [mux EXCEPT !.opened = TRUE]
             /\ header' = [i \in Streams |-> streams[i].caps]
             /\ hist' = [hist EXCEPT !.late = hist.late \/ request # None,
                           !.stale = {i \in Streams : pad[streams[i].pad].caps = None}]
             /\ collect' = "writing" /\ flow' = flow
    <2> DEFINE capless == {i \in Streams : pad[streams[i].pad].caps = None}
    <2>1. /\ hist' \in HistT /\ hist'.last = 0 /\ hist'.untimed = hist.untimed
          /\ hist'.back = hist.back /\ hist'.stray = hist.stray /\ hist'.odd = hist.odd
          /\ hist'.changed = hist.changed /\ hist'.late = (hist.late \/ request # None)
          /\ hist'.stale = capless
      <3>1. capless \in SUBSET Nat
        BY <1>2, StreamsOK
      <3>2. hist' = [hist EXCEPT !.late = hist.late \/ request # None, !.stale = capless]
        BY <1>5
      <3> HIDE DEF capless
      <3>3. PICK l \in BOOLEAN : l = (hist.late \/ request # None)
                                 /\ hist' = [hist EXCEPT !.late = l, !.stale = capless]
        BY <3>2
      <3>4. QED
        BY <1>2, <3>1, <3>3 DEF HistT
    <2>2. mux' \in [opened : BOOLEAN, pb : {"closed", "open"}] /\ mux'.opened
      BY <1>2, <1>5
    <2>3. MuxTypeOK'
      BY <1>1, <1>2, <1>5, <2>1, <2>2 DEF MuxTypeOK
    <2>4. CollectInv'
      BY <1>1, <1>2, <1>3, <1>5, <2>1, <2>2 DEF MuxInv, CollectInv, Running
    <2>5. HeaderInv'
      <3>1. ~hist'.late => ~hist.late /\ request = None
        BY <2>1
      <3>2. ~hist.late => \A i \in Streams : streams[i].caps # None
        BY <1>1 DEF MuxInv, CollectInv, Negotiated
      <3>3. \A i \in Streams : i \notin capless => pad[streams[i].pad].caps = streams[i].caps
        BY DEF MuxInv, PadsInv
      <3>4. QED
        BY <1>1, <1>3, <1>5, <2>1, <3>1, <3>2, <3>3 DEF HeaderInv
    <2>6. OrderInv'
      <3>1. \A p \in Requested : \/ pad[p].buffer # None /\ 0 <= pad[p].buffer
                                 \/ pad[p].buffer = None /\ 0 <= pad[p].time
        <4> SUFFICES ASSUME NEW p \in Requested
                     PROVE  \/ pad[p].buffer # None /\ 0 <= pad[p].buffer
                            \/ pad[p].buffer = None /\ 0 <= pad[p].time
          OBVIOUS
        <4>1. pad[p] \in PadT
          BY <1>2, <1>3 DEF MuxTypeOK
        <4>2. QED
          BY <4>1, MuxAssumption DEF PadT, Times
      <3>2. QED
        BY <1>1, <1>3, <2>1, <2>2, <3>1 DEF OrderInv
    <2>7. HeaderCovers' /\ HeaderDescribes' /\ InOrder'
      BY <1>2, <2>1 DEF MuxInv, HeaderCovers, HeaderDescribes, InOrder
    <2>8. QED
      BY <1>4, <2>3, <2>4, <2>5, <2>6, <2>7 DEF MuxInv
  <1>6. CASE /\ flow' = "error" /\ collect' = "idle"
             /\ hist' = hist /\ mux' = mux /\ header' = header
    <2>2. MuxTypeOK'
      BY <1>1, <1>2, <1>6 DEF MuxTypeOK
    <2>3. CollectInv' /\ HeaderInv' /\ OrderInv'
      BY <1>2, <1>6 DEF CollectInv, HeaderInv, OrderInv
    <2>4. HeaderCovers' /\ HeaderDescribes' /\ InOrder'
      BY <1>6 DEF MuxInv, HeaderCovers, HeaderDescribes, InOrder
    <2>5. QED
      BY <1>4, <2>2, <2>3, <2>4 DEF MuxInv
  <1>7. QED
    BY <1>5, <1>6 DEF WriteHeader

LEMMA FrameStep == MuxInv /\ WriteFrame => MuxInv'
  <1> SUFFICES ASSUME MuxInv, WriteFrame PROVE MuxInv'
    OBVIOUS
  <1>1. /\ UNCHANGED <<mux, streams, request, flow, header>>
        /\ collect = "writing" /\ collect' = "idle" /\ Queued # {} /\ mux.opened
    BY DEF WriteFrame, MuxInv, CollectInv
  <1>2. MuxTypeOK /\ hist \in HistT /\ pad \in [Pads -> PadT]
    BY DEF MuxInv, MuxTypeOK
  <1>3. Streams' = Streams /\ Requested' = Requested /\ Requested \subseteq Pads
    BY <1>1, <1>2, StreamsOK DEF Streams, Requested
  <1>4. PICK i \in Queued :
          /\ i = BestPad /\ Time(i) \in Times
          /\ Time(i) # NoTime => \A j \in Queued : Time(i) <= Time(j)
    BY <1>1, <1>2, BestPadIsOldest
  <1>5. PICK p \in Requested : p = streams[i].pad /\ i \in Streams /\ Time(i) = pad[p].buffer
    BY <1>2, <1>4, StreamsOK DEF Queued, Time
  <1> DEFINE l == IF Time(i) = NoTime THEN hist.last ELSE Time(i)
             u == hist.untimed \/ Time(i) = NoTime
             b == hist.back \/ Time(i) < hist.last
             s == hist.stray \/ i \notin DOMAIN header \/ header[i] = None
             o == IF i \in DOMAIN header /\ pad[p].caps # header[i]
                  THEN hist.odd \cup {i} ELSE hist.odd
  <1>6. /\ pad' = [pad EXCEPT ![p].buffer = None]
        /\ hist' = [hist EXCEPT !.last = l, !.untimed = u, !.back = b, !.stray = s, !.odd = o]
    BY <1>4, <1>5 DEF WriteFrame
  <1>7. l \in Nat /\ u \in BOOLEAN /\ b \in BOOLEAN /\ s \in BOOLEAN /\ o \in SUBSET Nat
    <2>1. l \in Nat /\ u \in BOOLEAN /\ b \in BOOLEAN /\ s \in BOOLEAN
      BY <1>2, <1>4, MuxAssumption DEF HistT, Times
    <2>2. i \in Nat
      BY <1>2, <1>5, StreamsOK
    <2>3. o \in SUBSET Nat
      BY <1>2, <2>2 DEF HistT
    <2>4. QED
      BY <2>1, <2>3
  <1>8. /\ hist' \in HistT /\ hist'.last = l /\ hist'.untimed = u /\ hist'.back = b
        /\ hist'.stray = s /\ hist'.odd = o /\ hist'.changed = hist.changed
        /\ hist'.late = hist.late /\ hist'.stale = hist.stale
    <2> HIDE DEF l, u, b, s, o
    <2> QED
      BY <1>2, <1>6, <1>7 DEF HistT
  <1>9. /\ pad' \in [Pads -> PadT] /\ pad'[p].buffer = None
        /\ \A q \in Pads : /\ q # p => pad'[q] = pad[q]
                           /\ pad'[q].caps = pad[q].caps /\ pad'[q].time = pad[q].time
                           /\ pad'[q].eos = pad[q].eos
    BY <1>2, <1>3, <1>6 DEF PadT
  <1>10. MuxTypeOK'
    BY <1>1, <1>2, <1>8, <1>9 DEF MuxTypeOK
  <1>11. PadsInv'
    <2>1. \A k \in Streams : streams[k].pad \in Pads
      BY <1>2, StreamsOK
    <2>2. \A k \in Streams : pad'[streams[k].pad].caps \in {None, streams[k].caps}
      BY <1>9, <2>1 DEF MuxInv, PadsInv
    <2>3. \A q \in Pads \ Requested : pad'[q] = NewPad
      BY <1>9 DEF MuxInv, PadsInv
    <2>4. \A q \in Pads : pad'[q].buffer \notin {None, NoTime}
                            => pad'[q].time = pad'[q].buffer
      BY <1>9 DEF MuxInv, PadsInv
    <2>5. QED
      BY <1>1, <1>3, <2>2, <2>3, <2>4 DEF MuxInv, PadsInv
  <1>12. CollectInv' /\ HeaderInv'
    <2>1. \A k \in Streams : pad'[streams[k].pad].caps = pad[streams[k].pad].caps
      BY <1>2, <1>9, StreamsOK
    <2>2. HeaderInv'
      BY <1>1, <1>3, <1>8, <2>1 DEF MuxInv, HeaderInv
    <2>3. QED
      BY <1>1, <1>3, <1>8, <2>2 DEF MuxInv, CollectInv
  <1>13. HeaderCovers'
    <2>1. ~hist.late => i \in DOMAIN header /\ header[i] # None
      BY <1>1, <1>5 DEF MuxInv, HeaderInv
    <2>2. QED
      BY <1>8, <2>1 DEF MuxInv, HeaderCovers
  <1>14. HeaderDescribes'
    <2>1. ~hist.late /\ i \notin hist.changed \cup hist.stale => pad[p].caps = header[i]
      BY <1>1, <1>5 DEF MuxInv, HeaderInv
    <2>2. ~hist.late => o \subseteq hist.changed \cup hist.stale
      BY <2>1 DEF MuxInv, HeaderDescribes
    <2> HIDE DEF o
    <2>3. QED
      BY <1>8, <2>2 DEF HeaderDescribes
  <1>15. ~hist.late /\ ~u => hist.last <= Time(i) /\ l = Time(i)
    BY <1>1, <1>5, <1>7, <1>4 DEF MuxInv, OrderInv, Queued
  <1>16. InOrder'
    <2>1. ~hist.late /\ ~u => ~(Time(i) < hist.last)
      BY <1>2, <1>4, <1>15, MuxAssumption DEF HistT, Times
    <2>2. QED
      BY <1>8, <2>1 DEF MuxInv, InOrder
  <1>17. OrderInv'
    <2>1. SUFFICES ASSUME ~hist.late, ~u, NEW q \in Requested
                   PROVE  \/ pad'[q].buffer # None /\ l <= pad'[q].buffer
                          \/ pad'[q].buffer = None /\ (pad'[q].eos \/ l <= pad'[q].time)
      <3> HIDE DEF l, u
      <3> QED
        BY <1>1, <1>3, <1>8 DEF OrderInv
    <2>2. l = Time(i) /\ Time(i) # NoTime
      BY <1>15, <2>1
    <2>3. CASE q = p
      <3>1. pad[p].time = pad[p].buffer
        BY <1>3, <1>4, <1>5, <2>2, MuxAssumption DEF MuxInv, PadsInv, Times
      <3>2. pad'[q].time = l /\ l \in Nat
        BY <1>3, <1>5, <1>7, <1>9, <2>2, <2>3, <3>1
      <3>3. QED
        BY <1>9, <2>3, <3>2
    <2>4. CASE q # p /\ pad[q].buffer # None
      <3>1. PICK j \in Streams : streams[j].pad = q
        BY DEF Requested
      <3>2. j \in Queued /\ Time(j) = pad[q].buffer
        BY <2>4, <3>1 DEF Queued, Time
      <3>3. l <= pad[q].buffer
        BY <1>4, <2>2, <3>2
      <3>4. QED
        BY <1>3, <1>9, <2>4, <3>3
    <2>5. CASE q # p /\ pad[q].buffer = None
      <3>1. pad[q].eos
        BY <1>1, <2>1, <2>5 DEF MuxInv, CollectInv
      <3>2. QED
        BY <1>3, <1>9, <2>5, <3>1
    <2>6. QED
      BY <2>3, <2>4, <2>5
  <1>18. QED
    BY <1>10, <1>11, <1>12, <1>13, <1>14, <1>16, <1>17 DEF MuxInv

-----------------------------------------------------------------------------
(* gst_ffmpegmux_change_state *)

LEMMA StopStep == MuxInv /\ PausedToReady => MuxInv'
  <1> SUFFICES ASSUME MuxInv, PausedToReady PROVE MuxInv'
    OBVIOUS
  <1>1. /\ UNCHANGED <<streams, request, collect>> /\ collect = "idle"
        /\ flow' = "stopped" /\ mux' = Shut(mux)
        /\ pad' = [p \in Pads |-> NewPad]
        /\ hist' = NoHistory
    BY DEF PausedToReady
  <1>2. MuxTypeOK /\ mux \in [opened : BOOLEAN, pb : {"closed", "open"}]
    BY DEF MuxInv, MuxTypeOK
  <1>3. mux' \in [opened : BOOLEAN, pb : {"closed", "open"}] /\ ~mux'.opened
    BY <1>1, <1>2 DEF Shut
  <1>4. pad' \in [Pads -> PadT]
    BY <1>1, MuxAssumption DEF NewPad, PadT
  <1>5. /\ hist' \in HistT /\ hist'.last = 0 /\ ~hist'.back /\ ~hist'.stray
        /\ hist'.odd = {}
    BY <1>1, <1>2 DEF NoHistory, HistT
  <1>6. MuxTypeOK'
    BY <1>1, <1>2, <1>3, <1>4, <1>5 DEF MuxTypeOK
  <1>7. PadsInv'
    <2>1. Streams' = Streams /\ Requested' = Requested /\ Requested \subseteq Pads
      BY <1>1, <1>2, StreamsOK DEF Streams, Requested
    <2>2. \A i \in Streams : streams[i].pad \in Pads
      BY <1>2, StreamsOK
    <2>3. QED
      BY <1>1, <2>1, <2>2 DEF MuxInv, PadsInv, NewPad
  <1>8. CollectInv' /\ HeaderInv' /\ OrderInv'
    BY <1>1, <1>3, <1>5 DEF CollectInv, HeaderInv, OrderInv
  <1>9. HeaderCovers' /\ HeaderDescribes' /\ InOrder'
    BY <1>5 DEF HeaderCovers, HeaderDescribes, InOrder
  <1>10. QED
    BY <1>6, <1>7, <1>8, <1>9 DEF MuxInv

LEMMA InvStep == MuxInv /\ [Next]_vars => MuxInv'
  <1> SUFFICES ASSUME MuxInv, [Next]_vars PROVE MuxInv'
    OBVIOUS
  <1>1. CASE UNCHANGED vars
    <2>1. UNCHANGED <<mux, streams, pad, request, collect, flow, header, hist>>
      BY <1>1 DEF vars
    <2>2. CollectInv'
      BY <2>1 DEF MuxInv, CollectInv, Requested, Streams, Negotiated, Running
    <2>3. QED
      BY <2>1, <2>2, CollectKeeps DEF MuxInv, MuxTypeOK, OrderInv
  <1>2. QED
    BY <1>1, RequestStep, NewStreamStep, CapsStep, DeliverStep, CollectStep, HeaderStep,
       FrameStep, StopStep
    DEF Next

(* Pads, header and what is collected go together (gstavmux.c).            *)
THEOREM InvHolds == Spec => []MuxInv
  BY InvInit, InvStep, PTL DEF Spec

(* A buffer is written only for a stream of the header, unless a pad was   *)
(* added while the header was on its way (gst_ffmpegmux_request_new_pad    *)
(* and gst_ffmpegmux_collected).                                           *)
THEOREM WritesHeaderStreams == Spec => []HeaderCovers
  <1>1. MuxInv => HeaderCovers
    BY DEF MuxInv
  <1>2. QED
    BY <1>1, InvHolds, PTL

(* The buffers of a stream have the caps the header gives for it, unless   *)
(* caps came for it after the header, its pad had none in this run and the *)
(* codec_id is that of an earlier one, or a pad was added late             *)
(* (gst_ffmpegmux_setcaps and the check in gst_ffmpegmux_collected).       *)
THEOREM WritesHeaderCaps == Spec => []HeaderDescribes
  <1>1. MuxInv => HeaderDescribes
    BY DEF MuxInv
  <1>2. QED
    BY <1>1, InvHolds, PTL

(* Buffers are written in the order of their times, for any number of      *)
(* pads, unless some have no time or a pad was added late (the choice of   *)
(* the best pad in gst_ffmpegmux_collected).                               *)
THEOREM WritesInOrder == Spec => []InOrder
  <1>1. MuxInv => InOrder
    BY DEF MuxInv
  <1>2. QED
    BY <1>1, InvHolds, PTL
=============================================================================
