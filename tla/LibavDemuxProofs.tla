-------------------------- MODULE LibavDemuxProofs --------------------------
(***************************************************************************)
(* Theorems about LibavDemux, for every container, pipe and number of      *)
(* seeking threads: the two sides of the pipe never wait at once, no       *)
(* packet is pushed under a segment of another epoch or without one, a     *)
(* read that was flushed is not taken for an end, and the types.           *)
(***************************************************************************)
EXTENDS LibavDemux, FiniteSetTheorems, TLAPS

(* The lock belongs to the task while its loop function runs, and the      *)
(* element is closed only when it does not.                                *)
LockInv ==
  /\ loop.at # "off" => lock = "loop"
  /\ app \in {"closing", "stopped"} =>
       loop.at = "off" /\ (status = "ok" => task = "none")

LEMMA LockInit == Init => LockInv
  BY DEF Init, LockInv

LEMMA LockStep == LockInv /\ [Next]_vars => LockInv'
  <1> SUFFICES ASSUME LockInv, [Next]_vars PROVE LockInv'
    OBVIOUS
  <1> USE DEF LockInv
  <1>1. ASSUME NEW s \in Seekers, SendSeek(s) PROVE LockInv'
    BY <1>1 DEF SendSeek
  <1>2. ASSUME NEW s \in Seekers, MarkFlushing(s) \/ PushFlushStart(s) PROVE LockInv'
    BY <1>2 DEF MarkFlushing, PushFlushStart, At
  <1>3. ASSUME NEW s \in Seekers, PauseTask(s) PROVE LockInv'
    BY <1>3 DEF PauseTask, At
  <1>4. ASSUME NEW s \in Seekers, LockStream(s) PROVE LockInv'
    BY <1>4 DEF LockStream, At
  <1>5. ASSUME NEW s \in Seekers, SeekFinish(s) PROVE LockInv'
    <2>1. s # "loop"
      BY DemuxAssumption
    <2>2. QED
      BY <1>5, <2>1 DEF SeekFinish, At
  <1>6. CASE LoopBegin
    BY <1>6 DEF LoopBegin, GoTo
  <1>7. CASE ReadWait
    BY <1>7 DEF ReadWait, elementVars
  <1>8. CASE ReadPipe \/ ReadPull \/ AddPads \/ Open \/ ReadFailed
    <2>1. lock' = lock /\ app' = app /\ task' = task /\ loop.at # "off"
      <3>1. CASE ReadPipe \/ ReadPull
        BY <3>1 DEF ReadPipe, ReadPull, Running
      <3>2. CASE AddPads \/ Open
        BY <3>2 DEF AddPads, Open, Running
      <3>3. CASE ReadFailed
        BY <3>3 DEF ReadFailed, Running
      <3>4. QED
        BY <1>8, <3>1, <3>2, <3>3
    <2>2. QED
      BY <2>1
  <1>9. CASE CachedSeek
    BY <1>9 DEF CachedSeek, Running, GoTo
  <1>10. CASE UnknownPacket \/ Drop \/ PushPacket
    <2>1. app' = app /\ task' = task /\ loop.at # "off"
          /\ (loop'.at = "off" \/ lock' = lock)
      <3>1. CASE UnknownPacket
        BY <3>1 DEF UnknownPacket, Running, IterationEnds, GoTo
      <3>2. CASE Drop
        BY <3>2 DEF Drop, KnownPacket, Running, IterationEnds, GoTo
      <3>3. CASE PushPacket
        <4>1. PICK s \in Known :
                /\ KnownPacket(s)
                /\ \E flow \in PushResult(pads[s]) :
                     LET ret == Combined(pads', flow) IN
                     IF ret = "ok" THEN IterationEnds
                                   ELSE GoTo(ret, "downstream") /\ lock' = lock
          BY <3>3 DEF PushPacket
        <4>2. IterationEnds \/ lock' = lock
          BY <4>1
        <4>3. QED
          BY <3>3, <4>1, <4>2 DEF PushPacket, KnownPacket, Running, IterationEnds, GoTo
      <3>4. QED
        BY <1>10, <3>1, <3>2, <3>3
    <2>2. QED
      BY <2>1
  <1>11. CASE Pause
    <2>1. app' = app /\ loop.at # "off" /\ loop'.at = "off"
      BY <1>11 DEF Pause, Running, IterationEnds, GoTo
    <2>2. QED
      BY <2>1
  <1>12. CASE ChainCall \/ ChainReturn \/ SerializedEvent \/ SerializedStep
              \/ EosEvent \/ FlushStart \/ FlushStop \/ Wakeup
    <2>1. app' = app /\ lock' = lock /\ loop' = loop /\ task' = task
          /\ status = "ok"
      BY <1>12
      DEF ChainCall, ChainReturn, SerializedEvent, SerializedStep, EosEvent,
          FlushStart, FlushStop, Pushing, Wakeup, elementVars
    <2>2. QED
      BY <2>1
  <1>13. CASE FlushRestart
    BY <1>13 DEF FlushRestart
  <1>14. CASE Activate
    BY <1>14 DEF Activate
  <1>15. CASE Deactivate
    BY <1>15 DEF Deactivate
  <1>16. CASE JoinTask
    BY <1>16 DEF JoinTask
  <1>17. CASE Close
    BY <1>17 DEF Close
  <1>18. CASE UNCHANGED vars
    BY <1>18 DEF vars, elementVars
  <1>19. QED
    BY <1>1, <1>2, <1>3, <1>4, <1>5, <1>6, <1>7, <1>8, <1>9, <1>10, <1>11, <1>12,
       <1>13, <1>14, <1>15, <1>16, <1>17, <1>18
    DEF Next, SeekStep, LoopStep

-----------------------------------------------------------------------------
(* Waiting *)

PipeT == [available : Nat, needed : Nat, eos : BOOLEAN, srcresult : Flows]

(* The task waits only inside a read that lacks data, and the upstream     *)
(* thread only inside a call; neither is waiting when the other begins to. *)
WaitInv ==
  /\ ffpipe \in PipeT
  /\ cond \subseteq {"loop", "up"}
  /\ "loop" \in cond => /\ size # 0 /\ ffpipe.needed # 0 /\ "up" \notin cond
                        /\ mode = "push" /\ loop.at \in {"open", "read"}
  /\ "up" \in cond => up \in {"chain", "serialized"}

LEMMA WaitInit == Init => WaitInv
  BY DEF Init, PipeInit, WaitInv, PipeT, Flows

(* One signal wakes whoever waits when only one does.                      *)
LEMMA SignalsAll ==
  ASSUME cond \subseteq {"loop", "up"}, ~("loop" \in cond /\ "up" \in cond),
         NEW c \in Signalled
  PROVE  c = {}
  BY DEF Signalled

(* Steps that touch the pipe not at all, or only wake someone.             *)
LEMMA NobodyNewWaits ==
  ASSUME WaitInv, cond' \subseteq cond, ffpipe' \in PipeT, ffpipe'.needed = ffpipe.needed,
         up' = up, size' = size, mode' = mode,
         "loop" \in cond => loop'.at \in {"open", "read"}
  PROVE  WaitInv'
  BY DEF WaitInv

LEMMA ChainKeepsWaiting ==
  ASSUME WaitInv, ffpipe' \in PipeT, ffpipe'.needed = ffpipe.needed,
         "up" \notin cond, NEW p, ChainWaits(p),
         size' = size, mode' = mode, loop' = loop
  PROVE  WaitInv'
  <1>1. CASE cond' = cond /\ up' = "idle"
    BY <1>1 DEF WaitInv
  <1>2. CASE \E c \in Signalled : cond' = c \cup {"up"} /\ up' = "chain"
    <2>1. cond' = {"up"}
      BY <1>2, SignalsAll DEF WaitInv
    <2>2. QED
      BY <1>2, <2>1 DEF WaitInv
  <1>3. QED
    BY <1>1, <1>2 DEF ChainWaits

LEMMA WaitStep == LockInv /\ WaitInv /\ [Next]_vars => WaitInv'
  <1> SUFFICES ASSUME LockInv, WaitInv, [Next]_vars PROVE WaitInv'
    OBVIOUS
  <1>0. ffpipe \in PipeT /\ cond \subseteq {"loop", "up"}
    BY DEF WaitInv
  <1>1. CASE UNCHANGED <<pipeVars, mode, loop>>
    <2>1. /\ ffpipe' = ffpipe /\ cond' = cond /\ up' = up /\ size' = size
          /\ mode' = mode /\ loop' = loop
      BY <1>1 DEF pipeVars
    <2>2. QED
      BY <2>1, NobodyNewWaits DEF WaitInv
  <1>2. ASSUME NEW s \in Seekers, SendSeek(s) \/ SeekStep(s) PROVE WaitInv'
    <2>1. UNCHANGED <<pipeVars, mode, loop>>
      BY <1>2
      DEF SendSeek, SeekStep, MarkFlushing, PushFlushStart, PauseTask, LockStream,
          SeekFinish
    <2>2. QED
      BY <1>1, <2>1
  <1>3. CASE LoopBegin \/ AddPads \/ Open \/ CachedSeek \/ UnknownPacket \/ Drop
             \/ PushPacket \/ ReadFailed \/ ReadPull
    <2>1. UNCHANGED pipeVars /\ mode' = mode
          /\ (loop.at \notin {"open", "read"} \/ mode # "push")
      BY <1>3
      DEF LoopBegin, AddPads, Open, CachedSeek, UnknownPacket, Drop, PushPacket, KnownPacket,
          ReadFailed, ReadPull
    <2>2. /\ ffpipe' = ffpipe /\ cond' = cond /\ up' = up /\ size' = size
      BY <2>1 DEF pipeVars
    <2>3. QED
      BY <2>1, <2>2, NobodyNewWaits DEF WaitInv
  <1>4. CASE Pause
    <2>1. /\ cond' = cond /\ up' = up /\ size' = size /\ mode' = mode
          /\ loop.at \in {"eos", "error", "flushing", "not_linked"}
      BY <1>4 DEF Pause, PipePause, pipeVars
    <2>2. ffpipe' = ffpipe \/ ffpipe' = [ffpipe EXCEPT !.srcresult = loop.at]
      BY <1>4 DEF Pause, PipePause, pipeVars
    <2>3. ffpipe' \in PipeT /\ ffpipe'.needed = ffpipe.needed
      BY <1>0, <2>1, <2>2 DEF PipeT, Flows
    <2>4. QED
      BY <2>1, <2>3, NobodyNewWaits DEF WaitInv
  <1>5. CASE ReadWait
    <2>1. PICK n \in 1..MaxRead : PipeWait(n)
      BY <1>5 DEF ReadWait
    <2>2. /\ mode' = mode /\ mode = "push" /\ loop' = loop /\ loop.at \in {"open", "read"}
          /\ n \in Nat /\ n # 0
      BY <1>5, PipeAssumption DEF ReadWait, elementVars
    <2>3. "loop" \notin cond
      BY <2>1 DEF PipeWait, WaitInv
    <2>4. cond' = {"loop"}
      BY <2>1, <2>3, SignalsAll, <1>0 DEF PipeWait
    <2>5. ffpipe' \in PipeT /\ ffpipe'.needed = n /\ size' = n
      BY <1>0, <2>1, <2>2 DEF PipeWait, PipeT
    <2>6. QED
      BY <2>2, <2>4, <2>5 DEF WaitInv
  <1>6. CASE ReadPipe
    <2>1. PICK n \in 1..MaxRead : PipeGet(n)
      BY <1>6 DEF ReadPipe
    <2>2. "loop" \notin cond
      BY <2>1 DEF PipeGet, WaitInv
    <2>3. cond' = cond /\ up' = up
      BY <2>1 DEF PipeGet
    <2>4. ffpipe' \in PipeT
      <3>1. n \in Nat /\ ffpipe.available \in Nat
        BY <1>0, PipeAssumption DEF PipeT
      <3>2. ffpipe.available - Got(n) \in Nat
        BY <3>1 DEF Got
      <3>3. QED
        BY <1>0, <2>1, <3>2 DEF PipeGet, PipeT
    <2>5. QED
      BY <2>2, <2>3, <2>4 DEF WaitInv
  <1>7. CASE ChainCall
    <2>1. /\ up = "idle" /\ "up" \notin cond /\ mode' = mode /\ loop' = loop /\ size' = size
      BY <1>7 DEF ChainCall, Chain, ChainIgnore, Call, WaitInv, elementVars
    <2>2. CASE ChainIgnore
      BY <1>0, <2>1, <2>2 DEF ChainIgnore, WaitInv
    <2>3. CASE Chain
      <3>1. ffpipe' \in PipeT /\ ffpipe'.needed = ffpipe.needed
        BY <1>0, <2>3 DEF Chain, PipeT
      <3>2. ChainWaits(ffpipe')
        BY <2>3 DEF Chain
      <3>3. QED
        BY <2>1, <3>1, <3>2, ChainKeepsWaiting
    <2>4. QED
      BY <1>7, <2>2, <2>3 DEF ChainCall
  <1>8. CASE ChainReturn
    <2>1. /\ "up" \notin cond /\ mode' = mode /\ loop' = loop /\ size' = size
          /\ ffpipe' = ffpipe
          /\ (cond' = cond /\ up' = "idle") \/ ChainWaits(ffpipe)
      BY <1>8 DEF ChainReturn, ChainWoken, elementVars
    <2>2. CASE cond' = cond /\ up' = "idle"
      BY <2>1, <2>2 DEF WaitInv
    <2>3. CASE ChainWaits(ffpipe)
      BY <1>0, <2>1, <2>3, ChainKeepsWaiting
    <2>4. QED
      BY <2>1, <2>2, <2>3
  <1>9. CASE SerializedEvent
    <2>1. /\ cond' = cond /\ size' = size /\ ffpipe' = ffpipe /\ mode' = mode
          /\ loop' = loop /\ up' \in {up, "serialized"}
      BY <1>9 DEF SerializedEvent, SerializedCall, elementVars
    <2>2. QED
      BY <2>1 DEF WaitInv
  <1>10. CASE SerializedStep
    <2>1. /\ size' = size /\ ffpipe' = ffpipe /\ mode' = mode /\ loop' = loop
          /\ "up" \notin cond
          /\ \/ ffpipe.needed = 0 /\ cond' = cond \cup {"up"} /\ up' = "serialized"
             \/ cond' = cond
      BY <1>10 DEF SerializedStep, SerializedWaits
    <2>2. QED
      BY <2>1 DEF WaitInv
  <1>11. CASE EosEvent \/ FlushStart \/ Deactivate
    <2>1. /\ up' = up /\ size' = size /\ mode' = mode /\ loop' = loop
          /\ cond' = cond \/ cond' \in Signalled
      BY <1>11
      DEF EosEvent, FlushStart, Deactivate, PipeEos, PipeFlushStart, PipeDeactivate,
          elementVars, pipeVars
    <2>2. ffpipe' \in PipeT /\ ffpipe'.needed = ffpipe.needed
      <3>1. CASE EosEvent
        BY <1>0, <3>1 DEF EosEvent, PipeEos, PipeT
      <3>2. CASE FlushStart
        BY <1>0, <3>2 DEF FlushStart, PipeFlushStart, PipeT, Flows
      <3>3. CASE Deactivate
        BY <1>0, <3>3 DEF Deactivate, PipeDeactivate, pipeVars, PipeT, Flows
      <3>4. QED
        BY <1>11, <3>1, <3>2, <3>3
    <2>3. cond' \subseteq cond
      BY <2>1 DEF Signalled
    <2>4. QED
      BY <2>1, <2>2, <2>3, NobodyNewWaits DEF WaitInv
  <1>12. CASE FlushStop \/ FlushRestart \/ Close
    <2>1. /\ up' = up \/ up \notin {"chain", "serialized"}
          /\ size' = size /\ mode' = mode /\ loop' = loop /\ cond' = cond
      BY <1>12 DEF FlushStop, FlushRestart, Close, FlushStopCall, PipeFlushStop, PipeClear
    <2>2. ffpipe' \in PipeT /\ ffpipe'.needed = ffpipe.needed
      <3>1. \/ ffpipe' = [ffpipe EXCEPT !.available = 0, !.srcresult = "ok"]
            \/ ffpipe' = [ffpipe EXCEPT !.available = 0]
            \/ ffpipe' = ffpipe
        BY <1>12 DEF FlushStop, FlushRestart, Close, FlushStopCall, PipeFlushStop, PipeClear
      <3>2. "ok" \in Flows /\ 0 \in Nat
        BY DEF Flows
      <3>3. CASE ffpipe' = [ffpipe EXCEPT !.available = 0, !.srcresult = "ok"]
        BY <1>0, <3>2, <3>3 DEF PipeT
      <3>4. CASE ffpipe' = [ffpipe EXCEPT !.available = 0]
        BY <1>0, <3>2, <3>4 DEF PipeT
      <3>5. QED
        BY <1>0, <3>1, <3>3, <3>4
    <2>3. QED
      BY <2>1, <2>2 DEF WaitInv
  <1>13. CASE Activate
    <2>1. cond' = cond /\ up' = up /\ loop.at = "off"
      BY <1>13 DEF Activate, PipeActivate, pipeVars, LockInv
    <2>2. ffpipe' \in PipeT
      <3>1. \/ ffpipe' = [ffpipe EXCEPT !.eos = FALSE, !.srcresult = "ok", !.needed = 0]
            \/ ffpipe' = ffpipe
        BY <1>13 DEF Activate, PipeActivate, pipeVars
      <3>2. "ok" \in Flows /\ 0 \in Nat
        BY DEF Flows
      <3>3. CASE ffpipe' = [ffpipe EXCEPT !.eos = FALSE, !.srcresult = "ok", !.needed = 0]
        BY <1>0, <3>2, <3>3 DEF PipeT
      <3>4. QED
        BY <1>0, <3>1, <3>3
    <2>3. QED
      BY <2>1, <2>2 DEF WaitInv
  <1>14. CASE JoinTask
    BY <1>1, <1>14 DEF JoinTask
  <1>15. CASE Wakeup
    <2>1. /\ up' = up /\ size' = size /\ mode' = mode /\ loop' = loop
          /\ cond' \subseteq cond /\ ffpipe' = ffpipe
      BY <1>15 DEF Wakeup, SpuriousWakeup, elementVars
    <2>2. QED
      BY <1>0, <2>1, NobodyNewWaits DEF WaitInv
  <1>16. CASE UNCHANGED vars
    BY <1>1, <1>16 DEF vars, elementVars
  <1>17. QED
    BY <1>2, <1>3, <1>4, <1>5, <1>6, <1>7, <1>8, <1>9, <1>10, <1>11, <1>12, <1>13,
       <1>14, <1>15, <1>16
    DEF Next, LoopStep

(* The task holds the lock of its iteration, and waits only inside a read. *)
THEOREM WaitInvHolds == Spec => [](LockInv /\ WaitInv)
  BY LockInit, LockStep, WaitInit, WaitStep, PTL DEF Spec

(* The two threads of the pipe never wait on its condition at once, so the *)
(* one g_cond_signal that either sends reaches the other                   *)
(* (gstavprotocol.h, gstavdemux.c).                                        *)
THEOREM NeverBothWait == Spec => []OneWaiter
  <1>1. WaitInv => OneWaiter
    <2> SUFFICES ASSUME WaitInv PROVE OneWaiter
      OBVIOUS
    <2>1. cond = {} \/ cond = {"loop"} \/ cond = {"up"}
      BY DEF WaitInv
    <2>2. Cardinality({}) = 0 /\ Cardinality({"loop"}) = 1 /\ Cardinality({"up"}) = 1
      BY FS_EmptySet, FS_Singleton
    <2>3. QED
      BY <2>1, <2>2 DEF OneWaiter
  <1>2. QED
    BY <1>1, WaitInvHolds, PTL

-----------------------------------------------------------------------------
(* Epochs *)

PadT == [flushing : BOOLEAN, segment : Nat \cup {NoSegment, Upstream},
         eos : BOOLEAN, flow : Flows, late : BOOLEAN]
StreamT == [seen : BOOLEAN, discont : BOOLEAN, eos : BOOLEAN, ts : BOOLEAN]
SeekerT == [at : {"idle", "mark", "flush", "pause", "lock", "seek", "done"},
            seek : SUBSET Seeks]

EpochTypeOK ==
  /\ pads \in [Streams -> PadT] /\ streams \in [Streams -> StreamT]
  /\ seeker \in [Seekers -> SeekerT]
  /\ av = [pos |-> av.pos, epoch |-> av.epoch] /\ av.epoch \in Nat
  /\ segment = [epoch |-> av.epoch, stop |-> segment.stop, segment |-> segment.segment]

(* A pad that is not flushing has the segment of the epoch e or none; a    *)
(* stream that was not seen has a pad with none.                           *)
PadsFit(ss, ps, e) ==
  \A s \in Known :
    IF ss[s].seen THEN ps[s].flushing \/ ps[s].segment \in {NoSegment, Upstream, e}
                  ELSE ps[s].segment = NoSegment

(* The packet in the hands of the task is of the epoch that libavformat is *)
(* in: an epoch begins only with the task's lock, or by the task itself.   *)
EpochInv ==
  /\ EpochTypeOK
  /\ PadsFit(streams, pads, av.epoch)
  /\ loop.at = "packet" => loop.arg = av.epoch
  /\ \A s \in Seekers : seeker[s].at = "seek" => lock = s
  /\ app = "stopped" => \A s \in Streams : ~streams[s].seen
  /\ NoStaleData

LEMMA EpochInit == Init => EpochInv
  <1> SUFFICES ASSUME Init PROVE EpochInv
    OBVIOUS
  <1> USE DEF Init
  <1>1. pads \in [Streams -> PadT]
    BY DEF NewPad, PadT, Flows
  <1>2. streams \in [Streams -> StreamT]
    BY DEF NewStream, StreamT
  <1>3. seeker \in [Seekers -> SeekerT]
    BY DEF SeekerT
  <1>4. EpochTypeOK
    BY <1>1, <1>2, <1>3 DEF EpochTypeOK, InitialSegment
  <1>5. PadsFit(streams, pads, av.epoch)
    BY DemuxAssumption DEF PadsFit, NewPad, NewStream
  <1>6. QED
    BY <1>4, <1>5 DEF EpochInv, NoStaleData, NewStream

-----------------------------------------------------------------------------
(* What the events do to the pads.                                         *)

LEMMA FlushStartsAndEnds ==
  ASSUME EpochTypeOK, NEW ps \in [Streams -> PadT], NEW e, PadsFit(streams, ps, e),
         NEW kind \in {"flush_start", "eos"}
  PROVE  /\ PushEvent(ps, <<kind>>) \in [Streams -> PadT]
         /\ PadsFit(streams, PushEvent(ps, <<kind>>), e)
  <1> DEFINE new == PushEvent(ps, <<kind>>)
  <1>1. ASSUME NEW s \in Streams
        PROVE  /\ new[s] \in PadT /\ new[s].segment = ps[s].segment
               /\ ps[s].flushing => new[s].flushing
    BY DEF PushEvent, PadT
  <1>2. new \in [Streams -> PadT]
    BY <1>1 DEF PushEvent
  <1>3. PadsFit(streams, new, e)
    BY <1>1, DemuxAssumption DEF PadsFit
  <1>4. QED
    BY <1>2, <1>3

LEMMA FlushStops ==
  ASSUME EpochTypeOK, NEW ps \in [Streams -> PadT], NEW e, PadsFit(streams, ps, e)
  PROVE  /\ PushEvent(ps, <<"flush_stop">>) \in [Streams -> PadT]
         /\ PadsFit(streams, PushEvent(ps, <<"flush_stop">>), e)
  <1> DEFINE new == PushEvent(ps, <<"flush_stop">>)
  <1>1. ASSUME NEW s \in Streams
        PROVE  /\ new[s] \in PadT
               /\ new[s].segment = NoSegment \/ new[s] = ps[s]
    BY DEF PushEvent, PadT
  <1>2. new \in [Streams -> PadT]
    BY <1>1 DEF PushEvent
  <1>3. PadsFit(streams, new, e)
    BY <1>1, DemuxAssumption DEF PadsFit
  <1>4. QED
    BY <1>2, <1>3

(* A segment brings every pad that takes it to its epoch.                  *)
LEMMA SegmentStarts ==
  ASSUME EpochTypeOK, NEW ps \in [Streams -> PadT], NEW e, PadsFit(streams, ps, e),
         NEW id \in Nat \cup {Upstream}
  PROVE  /\ PushEvent(ps, <<"segment", id>>) \in [Streams -> PadT]
         /\ id = Upstream => PadsFit(streams, PushEvent(ps, <<"segment", id>>), e)
         /\ PadsFit(streams, PushEvent(ps, <<"segment", id>>), id)
  <1> DEFINE new == PushEvent(ps, <<"segment", id>>)
  <1>1. ASSUME NEW s \in Streams
        PROVE  /\ new[s] \in PadT
               /\ IF s \notin Shown \/ ps[s].flushing THEN new[s] = ps[s]
                  ELSE new[s].segment = id
    BY DEF PushEvent, PadT
  <1>2. new \in [Streams -> PadT]
    BY <1>1 DEF PushEvent
  <1>3. ASSUME NEW s \in Known
        PROVE  IF streams[s].seen
               THEN new[s].flushing \/ new[s].segment = id
               ELSE new[s].segment = NoSegment
    <2>1. s \in Streams /\ (s \in Shown <=> streams[s].seen)
      BY DemuxAssumption DEF Shown, Seen
    <2>2. QED
      BY <1>1, <2>1 DEF PadsFit
  <1>4. QED
    BY <1>2, <1>3 DEF PadsFit

LEMMA FlowsReset ==
  ASSUME NEW ps \in [Streams -> PadT], NEW e, PadsFit(streams, ps, e)
  PROVE  ResetFlows(ps) \in [Streams -> PadT] /\ PadsFit(streams, ResetFlows(ps), e)
  <1>1. ASSUME NEW s \in Streams
        PROVE  /\ ResetFlows(ps)[s] \in PadT
               /\ ResetFlows(ps)[s].segment = ps[s].segment
               /\ ResetFlows(ps)[s].flushing = ps[s].flushing
    BY DEF ResetFlows, PadT, Flows
  <1>2. ResetFlows(ps) \in [Streams -> PadT]
    BY <1>1 DEF ResetFlows
  <1>3. QED
    BY <1>1, <1>2, DemuxAssumption DEF PadsFit

(* A seek, whether it succeeds or not, leaves every pad in the epoch that  *)
(* libavformat is then in.                                                 *)
LEMMA SeekFits ==
  ASSUME EpochTypeOK, NEW ps \in [Streams -> PadT], PadsFit(streams, ps, av.epoch),
         NEW k, SeekFrom(ps, k)
  PROVE  /\ pads' \in [Streams -> PadT] /\ streams' \in [Streams -> StreamT]
         /\ \A s \in Streams : streams'[s].seen = streams[s].seen
         /\ av' = [pos |-> av'.pos, epoch |-> av'.epoch] /\ av'.epoch \in Nat
         /\ segment' = [epoch |-> av'.epoch, stop |-> segment'.stop,
                        segment |-> segment'.segment]
         /\ PadsFit(streams', pads', av'.epoch)
  <1>1. /\ ResetFlows(ps) \in [Streams -> PadT]
        /\ PadsFit(streams, ResetFlows(ps), av.epoch)
    BY FlowsReset
  <1>2. /\ streams' \in [Streams -> StreamT]
        /\ \A s \in Streams : streams'[s].seen = streams[s].seen
    <2>1. streams' = SetFlags(streams, TRUE, FALSE)
      BY DEF SeekFrom
    <2>2. ASSUME NEW s \in Streams
          PROVE  /\ SetFlags(streams, TRUE, FALSE)[s] \in StreamT
                 /\ SetFlags(streams, TRUE, FALSE)[s].seen = streams[s].seen
      BY DEF SetFlags, EpochTypeOK, StreamT
    <2>3. QED
      BY <2>1, <2>2 DEF SetFlags
  <1>3. \A qs, e : PadsFit(streams, qs, e) => PadsFit(streams', qs, e)
    BY <1>2, DemuxAssumption DEF PadsFit
  <1>4. CASE pads' = ResetFlows(ps) /\ UNCHANGED <<av, segment>>
    BY <1>1, <1>2, <1>3, <1>4 DEF EpochTypeOK
  <1>5. CASE /\ \E p \in 0..(FileLen - 1) : av' = [pos |-> p, epoch |-> av.epoch + 1]
             /\ segment' = [epoch |-> av'.epoch, stop |-> k.stop, segment |-> k.segment]
             /\ pads' = PushEvent(ResetFlows(ps), <<"segment", av'.epoch>>)
    <2>1. /\ av' = [pos |-> av'.pos, epoch |-> av'.epoch] /\ av'.epoch \in Nat
          /\ segment' = [epoch |-> av'.epoch, stop |-> segment'.stop,
                         segment |-> segment'.segment]
      BY <1>5 DEF EpochTypeOK
    <2>2. pads' \in [Streams -> PadT] /\ PadsFit(streams, pads', av'.epoch)
      BY <1>1, <1>5, <2>1, SegmentStarts
    <2>3. QED
      BY <1>2, <1>3, <2>1, <2>2
  <1>6. QED
    BY <1>4, <1>5 DEF SeekFrom

-----------------------------------------------------------------------------
(* Steps that begin no epoch and see no new stream. *)
LEMMA SameEpoch ==
  ASSUME EpochInv, UNCHANGED <<streams, av, segment, out>>,
         pads' \in [Streams -> PadT], PadsFit(streams, pads', av.epoch),
         seeker' \in [Seekers -> SeekerT],
         \A s \in Seekers : seeker'[s].at = "seek" => lock' = s,
         loop'.at = "packet" => loop'.arg = av.epoch,
         app' = "stopped" => app = "stopped"
  PROVE  EpochInv'
  <1>1. EpochTypeOK'
    BY DEF EpochInv, EpochTypeOK
  <1>2. PadsFit(streams, pads, av.epoch)'
    BY DEF PadsFit
  <1>3. QED
    BY <1>1, <1>2 DEF EpochInv, NoStaleData

(* Those of them that leave the pads alone too, and keep the lock or free it *)
(* from the task.                                                            *)
LEMMA SamePads ==
  ASSUME EpochInv, UNCHANGED <<streams, pads, seeker, av, segment, out>>,
         lock' = lock \/ lock \in {"loop", "free"},
         loop'.at = "packet" => loop'.arg = av.epoch,
         app' = "stopped" => app = "stopped"
  PROVE  EpochInv'
  <1>1. \A s \in Seekers : s \notin {"loop", "free"}
    BY DemuxAssumption
  <1>2. QED
    BY <1>1, SameEpoch DEF EpochInv, EpochTypeOK

LEMMA SeekerMoves ==
  ASSUME EpochInv, NEW s \in Seekers, NEW from,
         NEW to \in {"flush", "lock", "seek", "done"}, At(s, from, to)
  PROVE  /\ seeker' \in [Seekers -> SeekerT]
         /\ seeker[s].at = from /\ seeker'[s].at = to
         /\ \A t \in Seekers \ {s} : seeker'[t] = seeker[t]
  <1>1. seeker \in [Seekers -> SeekerT]
    BY DEF EpochInv, EpochTypeOK
  <1>2. seeker' = [seeker EXCEPT ![s].at = to,
                                 ![s].seek = IF to = "done" THEN {} ELSE @]
        /\ seeker[s].at = from
    BY DEF At
  <1>3. QED
    BY <1>1, <1>2 DEF SeekerT

(* What is pushed on a pad that fits is not stale.                         *)
LEMMA FitsFresh ==
  ASSUME EpochTypeOK, NEW e \in Nat, NEW p, p.segment \in {NoSegment, Upstream, e}
  PROVE  Fit(p, e) # "stale"
  BY DemuxAssumption DEF Fit

(* A packet of the stream s, which may be new, leaves the others alone.    *)
LEMMA PacketFits ==
  ASSUME EpochInv, NEW s \in Streams, NEW ss \in [Streams -> StreamT],
         NEW ps \in [Streams -> PadT], ss[s].seen,
         \A t \in Streams \ {s} : ss[t] = streams[t],
         \A t \in Streams : ps[t].segment = pads[t].segment
                            /\ ps[t].flushing = pads[t].flushing
  PROVE  PadsFit(ss, ps, av.epoch)
  <1> SUFFICES ASSUME NEW t \in Known
               PROVE  IF ss[t].seen
                      THEN ps[t].flushing \/ ps[t].segment \in {NoSegment, Upstream, av.epoch}
                      ELSE ps[t].segment = NoSegment
    BY DEF PadsFit
  <1>1. t \in Streams
    BY DemuxAssumption
  <1>2. PadsFit(streams, pads, av.epoch)
    BY DEF EpochInv
  <1>3. QED
    BY <1>1, <1>2 DEF PadsFit

(* A step that seeks, or sees a stream, and is the task's or has its lock.  *)
LEMMA NewEpoch ==
  ASSUME EpochInv,
         pads' \in [Streams -> PadT], streams' \in [Streams -> StreamT],
         av' = [pos |-> av'.pos, epoch |-> av'.epoch], av'.epoch \in Nat,
         segment' = [epoch |-> av'.epoch, stop |-> segment'.stop,
                     segment |-> segment'.segment],
         PadsFit(streams', pads', av'.epoch),
         seeker' \in [Seekers -> SeekerT],
         \A s \in Seekers : seeker'[s].at # "seek",
         loop'.at # "packet",
         app' = "stopped" => \A s \in Streams : ~streams'[s].seen,
         out' # "stale"
  PROVE  EpochInv'
  <1>1. EpochTypeOK'
    BY DEF EpochTypeOK
  <1>2. QED
    BY <1>1 DEF EpochInv, NoStaleData, PadsFit

LEMMA EpochStep == LockInv /\ EpochInv /\ [Next]_vars => EpochInv'
  <1> SUFFICES ASSUME LockInv, EpochInv, [Next]_vars PROVE EpochInv'
    OBVIOUS
  <1>1. /\ EpochTypeOK /\ PadsFit(streams, pads, av.epoch)
        /\ pads \in [Streams -> PadT] /\ streams \in [Streams -> StreamT]
        /\ seeker \in [Seekers -> SeekerT]
    BY DEF EpochInv, EpochTypeOK
  <1>2. loop.at # "off" => lock = "loop" /\ \A s \in Seekers : seeker[s].at # "seek"
    BY DemuxAssumption DEF LockInv, EpochInv
  <1>3. ASSUME NEW s \in Seekers, SendSeek(s) PROVE EpochInv'
    <2>1. PICK k \in Seeks :
            seeker' = [seeker EXCEPT ![s].at = "done"]
            \/ seeker' = [seeker EXCEPT ![s] = SeekBegins(k)]
      BY <1>3 DEF SendSeek
    <2>2. SeekBegins(k) \in SeekerT /\ SeekBegins(k).at # "seek"
      BY DEF SeekBegins, SeekerT
    <2>3. /\ seeker' \in [Seekers -> SeekerT]
          /\ \A t \in Seekers : seeker'[t].at = "seek" => seeker[t].at = "seek"
      BY <1>1, <2>1, <2>2 DEF SeekerT
    <2>4. UNCHANGED <<streams, pads, av, segment, out, lock, loop, app>>
      BY <1>3 DEF SendSeek
    <2>5. QED
      BY <1>1, <2>3, <2>4, SameEpoch DEF EpochInv
  <1>4. ASSUME NEW s \in Seekers, MarkFlushing(s) \/ PauseTask(s) \/ LockStream(s)
        PROVE  EpochInv'
    <2>1. UNCHANGED <<streams, pads, av, segment, out, loop, app>>
      BY <1>4 DEF MarkFlushing, PauseTask, LockStream
    <2>2. /\ seeker' \in [Seekers -> SeekerT]
          /\ \A t \in Seekers : seeker'[t].at = "seek" => lock' = t
      <3>1. CASE MarkFlushing(s)
        <4>1. At(s, "mark", "flush") /\ lock' = lock
          BY <3>1 DEF MarkFlushing
        <4>2. QED
          BY <4>1, SeekerMoves DEF EpochInv
      <3>2. CASE PauseTask(s)
        <4>1. At(s, "pause", "lock") /\ lock' = lock
          BY <3>2 DEF PauseTask
        <4>2. QED
          BY <4>1, SeekerMoves DEF EpochInv
      <3>3. CASE LockStream(s)
        <4>1. At(s, "lock", "seek") /\ lock = "free" /\ lock' = s
          BY <3>3 DEF LockStream
        <4>2. \A t \in Seekers : t # "free"
          BY DemuxAssumption
        <4>3. QED
          BY <4>1, <4>2, SeekerMoves DEF EpochInv
      <3>4. QED
        BY <1>4, <3>1, <3>2, <3>3
    <2>3. QED
      BY <1>1, <2>1, <2>2, SameEpoch DEF EpochInv
  <1>5. ASSUME NEW s \in Seekers, PushFlushStart(s) PROVE EpochInv'
    <2>1. At(s, "flush", "lock") /\ pads' = PushEvent(pads, <<"flush_start">>)
          /\ UNCHANGED <<streams, av, segment, out, loop, app, lock>>
      BY <1>5 DEF PushFlushStart
    <2>2. pads' \in [Streams -> PadT] /\ PadsFit(streams, pads', av.epoch)
      BY <1>1, <2>1, FlushStartsAndEnds
    <2>3. /\ seeker' \in [Seekers -> SeekerT]
          /\ \A t \in Seekers : seeker'[t].at = "seek" => lock' = t
      BY <2>1, SeekerMoves DEF EpochInv
    <2>4. QED
      BY <2>1, <2>2, <2>3, SameEpoch DEF EpochInv
  <1>6. ASSUME NEW s \in Seekers, SeekFinish(s) PROVE EpochInv'
    <2>1. At(s, "seek", "done") /\ UNCHANGED <<out, loop, app>>
      BY <1>6 DEF SeekFinish
    <2>2. /\ seeker' \in [Seekers -> SeekerT]
          /\ seeker[s].at = "seek" /\ seeker'[s].at = "done"
          /\ \A t \in Seekers \ {s} : seeker'[t] = seeker[t]
      BY <2>1, SeekerMoves
    <2>3. lock = s /\ loop.at = "off"
      BY <1>2, <2>2 DEF EpochInv
    <2>4. \A t \in Seekers : seeker'[t].at # "seek"
      BY <2>2, <2>3 DEF EpochInv
    <2>5. CASE ~opened
      <3>1. UNCHANGED <<av, segment, pads, streams>>
        BY <1>6, <2>5 DEF SeekFinish
      <3>2. QED
        BY <1>1, <2>1, <2>2, <2>3, <2>4, <3>1, SameEpoch DEF EpochInv
    <2>6. CASE opened
      <3>1. PICK k \in seeker[s].seek :
              SeekFrom(IF k.flush THEN PushEvent(pads, <<"flush_stop">>) ELSE pads, k)
        BY <1>6, <2>6 DEF SeekFinish
      <3>2. PICK ps : /\ ps \in [Streams -> PadT] /\ PadsFit(streams, ps, av.epoch)
                      /\ SeekFrom(ps, k)
        BY <1>1, <3>1, FlushStops
      <3>3. /\ pads' \in [Streams -> PadT] /\ streams' \in [Streams -> StreamT]
            /\ \A t \in Streams : streams'[t].seen = streams[t].seen
            /\ av' = [pos |-> av'.pos, epoch |-> av'.epoch] /\ av'.epoch \in Nat
            /\ segment' = [epoch |-> av'.epoch, stop |-> segment'.stop,
                           segment |-> segment'.segment]
            /\ PadsFit(streams', pads', av'.epoch)
        BY <1>1, <3>2, SeekFits
      <3>4. out' # "stale" /\ (app' = "stopped" => \A t \in Streams : ~streams'[t].seen)
        BY <2>1, <3>3 DEF EpochInv, NoStaleData
      <3>5. loop'.at # "packet"
        BY <2>1, <2>3
      <3>6. QED
        BY <2>2, <2>4, <3>3, <3>4, <3>5, NewEpoch
    <2>7. QED
      BY <2>5, <2>6
  <1>7. CASE LoopBegin \/ ReadWait \/ ReadPipe \/ ReadPull \/ ReadFailed
    <2>1. /\ UNCHANGED <<streams, pads, seeker, av, segment, out, app>>
          /\ lock' = lock \/ lock = "free"
      BY <1>7 DEF LoopBegin, ReadWait, ReadPipe, ReadPull, ReadFailed, elementVars
    <2>2. loop'.at = "packet" => loop'.arg = av.epoch
      <3>1. CASE LoopBegin
        BY <3>1 DEF LoopBegin, GoTo
      <3>2. CASE ReadWait
        BY <3>2 DEF ReadWait, elementVars
      <3>3. CASE ReadPipe \/ ReadPull
        BY <3>3 DEF ReadPipe, ReadPull, ReadOutcome, GoTo
      <3>4. CASE ReadFailed
        BY <3>4 DEF ReadFailed, ReadResult, GoTo
      <3>5. QED
        BY <1>7, <3>1, <3>2, <3>3, <3>4
    <2>3. QED
      BY <2>1, <2>2, SamePads
  <1>8. CASE AddPads
    <2>1. /\ UNCHANGED <<av, segment, seeker, out, app>>
          /\ loop.at = "opening" /\ loop'.at # "packet"
      BY <1>8 DEF AddPads, Running, GoTo
    <2>2. streams' \in [Streams -> StreamT]
      <3>1. PICK found \in SUBSET Streams :
              streams' = [s \in Streams |-> [NewStream EXCEPT !.seen = s \in found]]
        BY <1>8 DEF AddPads
      <3>2. ASSUME NEW s \in Streams
            PROVE  [NewStream EXCEPT !.seen = s \in found] \in StreamT
        <4>1. (s \in found) \in BOOLEAN
          OBVIOUS
        <4>2. \A b \in BOOLEAN : [NewStream EXCEPT !.seen = b] \in StreamT
          BY DEF NewStream, StreamT
        <4>3. QED
          BY <4>1, <4>2
      <3>3. QED
        BY <3>1, <3>2
    <2>3. pads' = [s \in Streams |-> [NewPad EXCEPT !.flushing = app # "running"]]
      BY <1>8 DEF AddPads
    <2>4. av.epoch \in Nat
      BY <1>1 DEF EpochTypeOK
    <2>5. pads' \in [Streams -> PadT]
      BY <2>3, <2>4 DEF NewPad, PadT, Flows
    <2>6. PadsFit(streams', pads', av.epoch)
      BY <2>3, DemuxAssumption DEF PadsFit, NewPad
    <2>7. app # "stopped" /\ \A s \in Seekers : seeker'[s].at # "seek"
      BY <1>2, <2>1 DEF LockInv
    <2>8. /\ av' = [pos |-> av'.pos, epoch |-> av'.epoch] /\ av'.epoch \in Nat
          /\ segment' = [epoch |-> av'.epoch, stop |-> segment'.stop,
                         segment |-> segment'.segment]
      BY <1>1, <2>1 DEF EpochTypeOK
    <2>9. out' # "stale" /\ PadsFit(streams', pads', av'.epoch)
          /\ seeker' \in [Seekers -> SeekerT] /\ app' # "stopped"
      BY <1>1, <2>1, <2>6, <2>7 DEF EpochInv, NoStaleData
    <2>10. QED
      BY <2>1, <2>2, <2>5, <2>7, <2>8, <2>9, NewEpoch
  <1>9. CASE CachedSeek
    <2>1. /\ UNCHANGED <<seeker, out, app>> /\ loop.at = "cached_seek"
          /\ loop'.at # "packet"
      BY <1>9 DEF CachedSeek, Running, GoTo
    <2>2. PICK k \in seek_event :
            SeekFrom(IF k.flush THEN PushEvent(PushEvent(pads, <<"flush_start">>),
                                               <<"flush_stop">>) ELSE pads, k)
      BY <1>9 DEF CachedSeek
    <2>3. DEFINE fs == PushEvent(pads, <<"flush_start">>)
    <2>4. fs \in [Streams -> PadT] /\ PadsFit(streams, fs, av.epoch)
      BY <1>1, FlushStartsAndEnds
    <2>5. /\ PushEvent(fs, <<"flush_stop">>) \in [Streams -> PadT]
          /\ PadsFit(streams, PushEvent(fs, <<"flush_stop">>), av.epoch)
      <3> HIDE DEF fs
      <3> QED
        BY <1>1, <2>4, FlushStops
    <2>6. PICK ps : /\ ps \in [Streams -> PadT] /\ PadsFit(streams, ps, av.epoch)
                    /\ SeekFrom(ps, k)
      BY <1>1, <2>2, <2>5
    <2>7. /\ pads' \in [Streams -> PadT] /\ streams' \in [Streams -> StreamT]
          /\ \A t \in Streams : streams'[t].seen = streams[t].seen
          /\ av' = [pos |-> av'.pos, epoch |-> av'.epoch] /\ av'.epoch \in Nat
          /\ segment' = [epoch |-> av'.epoch, stop |-> segment'.stop,
                         segment |-> segment'.segment]
          /\ PadsFit(streams', pads', av'.epoch)
      BY <1>1, <2>6, SeekFits
    <2>8. out' # "stale" /\ (app' = "stopped" => \A t \in Streams : ~streams'[t].seen)
          /\ seeker' \in [Seekers -> SeekerT] /\ \A t \in Seekers : seeker'[t].at # "seek"
      BY <1>1, <1>2, <2>1, <2>7 DEF EpochInv, NoStaleData
    <2>9. QED
      BY <2>1, <2>7, <2>8, NewEpoch
  <1>10. CASE UnknownPacket \/ Drop \/ PushPacket
    <2>1. /\ UNCHANGED <<seeker, segment, app>> /\ loop.at = "packet"
          /\ av' = [av EXCEPT !.pos = @ + 1]
      BY <1>10 DEF UnknownPacket, Drop, PushPacket, KnownPacket, Running
    <2>2. /\ av' = [pos |-> av'.pos, epoch |-> av'.epoch] /\ av'.epoch \in Nat
          /\ av'.epoch = av.epoch
      <3>1. av = [pos |-> av.pos, epoch |-> av.epoch] /\ av.epoch \in Nat
        BY <1>1 DEF EpochTypeOK
      <3>2. av' = [pos |-> av.pos + 1, epoch |-> av.epoch]
        BY <2>1, <3>1
      <3>3. QED
        BY <3>1, <3>2
    <2>3. segment' = [epoch |-> av'.epoch, stop |-> segment'.stop,
                      segment |-> segment'.segment]
      BY <1>1, <2>1, <2>2 DEF EpochTypeOK
    <2>4. /\ app' # "stopped" /\ seeker' \in [Seekers -> SeekerT]
          /\ \A t \in Seekers : seeker'[t].at # "seek"
      BY <1>1, <1>2, <2>1 DEF LockInv
    <2>5. loop'.at # "packet"
      <3>1. CASE UnknownPacket
        BY <3>1 DEF UnknownPacket, IterationEnds, GoTo
      <3>2. CASE Drop
        BY <3>2 DEF Drop, IterationEnds, GoTo
      <3>3. CASE PushPacket
        <4>1. PICK s \in Known :
                \E flow \in PushResult(pads[s]) :
                  LET ret == Combined(pads', flow) IN
                  IF ret = "ok" THEN IterationEnds
                                ELSE GoTo(ret, "downstream") /\ lock' = lock
          BY <3>3 DEF PushPacket
        <4>2. PICK flow \in PushResult(pads[s]) :
                IF Combined(pads', flow) = "ok" THEN IterationEnds
                ELSE GoTo(Combined(pads', flow), "downstream")
          BY <4>1
        <4>3. Combined(pads', flow) # "packet"
          BY DEF Combined
        <4>4. QED
          BY <4>2, <4>3 DEF IterationEnds, GoTo
      <3>4. QED
        BY <1>10, <3>1, <3>2, <3>3
    <2>6. /\ streams' \in [Streams -> StreamT] /\ pads' \in [Streams -> PadT]
          /\ PadsFit(streams', pads', av.epoch)
          /\ out' # "stale"
      <3>1. CASE UnknownPacket
        <4>1. PICK s \in Streams \ Known : streams' = [streams EXCEPT ![s].seen = TRUE]
          BY <3>1 DEF UnknownPacket
        <4>2. pads' = pads /\ out' = out
          BY <3>1 DEF UnknownPacket
        <4>3. streams' \in [Streams -> StreamT] /\ streams'[s].seen
              /\ \A t \in Streams \ {s} : streams'[t] = streams[t]
          BY <1>1, <4>1 DEF StreamT
        <4>4. PadsFit(streams', pads', av.epoch)
          BY <1>1, <4>2, <4>3, PacketFits
        <4>5. QED
          BY <1>1, <4>2, <4>3, <4>4 DEF EpochInv, NoStaleData
      <3>2. CASE Drop
        <4>1. PICK s \in Known :
                /\ streams' = [streams EXCEPT ![s].seen = TRUE, ![s].ts = TRUE,
                                              ![s].eos = TRUE]
                /\ pads' = [pads EXCEPT ![s].late = @ \/ ~streams[s].seen]
          BY <3>2 DEF Drop
        <4>2. s \in Streams /\ out' = out
          BY <3>2, DemuxAssumption DEF Drop
        <4>3. streams' \in [Streams -> StreamT] /\ streams'[s].seen
              /\ \A t \in Streams \ {s} : streams'[t] = streams[t]
          BY <1>1, <4>1, <4>2 DEF StreamT
        <4>4. pads' \in [Streams -> PadT]
              /\ \A t \in Streams : pads'[t].segment = pads[t].segment
                                    /\ pads'[t].flushing = pads[t].flushing
          <5>1. pads \in [Streams -> PadT] /\ s \in Streams
            BY <1>1, <4>2
          <5>2. (pads[s].late \/ ~streams[s].seen) \in BOOLEAN
            OBVIOUS
          <5>3. /\ pads' \in [Streams -> PadT]
                /\ pads'[s].segment = pads[s].segment
                /\ pads'[s].flushing = pads[s].flushing
            BY <4>1, <5>1, <5>2 DEF PadT
          <5>4. \A t \in Streams \ {s} : pads'[t] = pads[t]
            BY <4>1, <5>1
          <5>5. QED
            BY <5>3, <5>4
        <4>5. PadsFit(streams', pads', av.epoch)
          BY <4>2, <4>3, <4>4, PacketFits
        <4>6. QED
          BY <4>2, <4>3, <4>4, <4>5 DEF EpochInv, NoStaleData
      <3>3. CASE PushPacket
        <4>1. PICK s \in Known :
                /\ streams' = [streams EXCEPT ![s].seen = TRUE, ![s].ts = TRUE,
                                              ![s].discont = FALSE]
                /\ \E flow \in PushResult(pads[s]) :
                     /\ pads' = [pads EXCEPT ![s].flow = flow,
                                             ![s].late = @ \/ ~streams[s].seen]
                     /\ out' = IF pads[s].flushing THEN out
                               ELSE Fit([pads[s] EXCEPT !.late = pads'[s].late], loop.arg)
          BY <3>3 DEF PushPacket
        <4>2. PICK flow \in PushResult(pads[s]) :
                /\ pads' = [pads EXCEPT ![s].flow = flow,
                                        ![s].late = @ \/ ~streams[s].seen]
                /\ out' = IF pads[s].flushing THEN out
                          ELSE Fit([pads[s] EXCEPT !.late = pads'[s].late], loop.arg)
          BY <4>1
        <4>3. s \in Streams /\ flow \in Flows
          BY DemuxAssumption DEF PushResult, Flows
        <4>4. streams' \in [Streams -> StreamT] /\ streams'[s].seen
              /\ \A t \in Streams \ {s} : streams'[t] = streams[t]
          <5>1. streams' = [streams EXCEPT ![s].seen = TRUE, ![s].ts = TRUE,
                                           ![s].discont = FALSE]
            BY <4>1
          <5>2. QED
            BY <1>1, <4>3, <5>1 DEF StreamT
        <4>5. pads' \in [Streams -> PadT]
              /\ \A t \in Streams : pads'[t].segment = pads[t].segment
                                    /\ pads'[t].flushing = pads[t].flushing
          <5>1. PICK late \in BOOLEAN :
                  pads' = [pads EXCEPT ![s].flow = flow, ![s].late = late]
            <6>1. (pads[s].late \/ ~streams[s].seen) \in BOOLEAN
              OBVIOUS
            <6>2. pads' = [pads EXCEPT ![s].flow = flow,
                             ![s].late = pads[s].late \/ ~streams[s].seen]
              BY <1>1, <4>2, <4>3
            <6>3. QED
              BY <6>1, <6>2
          <5>2. QED
            BY <1>1, <4>3, <5>1 DEF PadT
        <4>6. PadsFit(streams', pads', av.epoch)
          <5>1. s \in Streams
            BY <4>3
          <5>2. QED
            BY <4>4, <4>5, <5>1, PacketFits
        <4>7. loop.arg = av.epoch /\ av.epoch \in Nat
          BY <1>1, <2>1 DEF EpochInv, EpochTypeOK
        <4>8. ~pads[s].flushing => pads[s].segment \in {NoSegment, Upstream, av.epoch}
          BY <1>1 DEF PadsFit
        <4>9. [pads[s] EXCEPT !.late = pads'[s].late].segment = pads[s].segment
          BY <1>1, <4>3 DEF PadT
        <4>10. out' # "stale"
          <5>1. CASE pads[s].flushing
            BY <4>2, <5>1 DEF EpochInv, NoStaleData
          <5>2. CASE ~pads[s].flushing
            <6>1. PICK p : p.segment = pads[s].segment /\ out' = Fit(p, loop.arg)
              <7>1. out' = Fit([pads[s] EXCEPT !.late = pads'[s].late], loop.arg)
                BY <4>2, <5>2
              <7>2. QED
                BY <4>9, <7>1
            <6>2. p.segment \in {NoSegment, Upstream, av.epoch}
              BY <4>8, <5>2, <6>1
            <6>3. QED
              BY <1>1, <4>7, <6>1, <6>2, FitsFresh
          <5>3. QED
            BY <5>1, <5>2
        <4>11. QED
          BY <4>4, <4>5, <4>6, <4>10
      <3>4. QED
        BY <1>10, <3>1, <3>2, <3>3
    <2>7. QED
      BY <2>2, <2>3, <2>4, <2>5, <2>6, NewEpoch
  <1>11. CASE Pause
    <2>1. /\ UNCHANGED <<streams, av, segment, seeker, out, app>>
          /\ lock = "loop" /\ loop'.at = "off" /\ loop.at # "off"
      BY <1>2, <1>11 DEF Pause, Running, IterationEnds, GoTo
    <2>2. pads' = pads \/ pads' = PushEvent(pads, <<"eos">>)
      BY <1>11 DEF Pause
    <2>3. pads' \in [Streams -> PadT] /\ PadsFit(streams, pads', av.epoch)
      BY <1>1, <2>2, FlushStartsAndEnds
    <2>4. \A s \in Seekers : seeker'[s].at # "seek"
      BY <1>2, <2>1
    <2>5. QED
      BY <1>1, <2>1, <2>3, <2>4, SameEpoch
  <1>12. CASE ChainCall \/ ChainReturn \/ SerializedEvent \/ EosEvent \/ JoinTask
              \/ Wakeup
    <2>1. /\ UNCHANGED <<streams, pads, seeker, av, segment, out, lock, loop>>
          /\ app' \in {app, "closing"}
      BY <1>12
      DEF ChainCall, ChainReturn, SerializedEvent, EosEvent, JoinTask, Wakeup,
          elementVars
    <2>2. QED
      BY <2>1, SamePads DEF EpochInv
  <1>13. CASE SerializedStep
    <2>1. UNCHANGED <<streams, seeker, av, segment, out, lock, loop, app>>
      BY <1>13 DEF SerializedStep
    <2>2. pads' = pads \/ pads' = PushEvent(pads, <<"segment", Upstream>>)
      BY <1>13 DEF SerializedStep
    <2>3. pads' \in [Streams -> PadT] /\ PadsFit(streams, pads', av.epoch)
      BY <1>1, <2>2, SegmentStarts
    <2>4. QED
      BY <1>1, <2>1, <2>3, SameEpoch DEF EpochInv
  <1>14. CASE FlushStart
    <2>1. /\ UNCHANGED <<streams, seeker, av, segment, out, lock, loop, app>>
          /\ pads' = PushEvent(pads, <<"flush_start">>)
      BY <1>14 DEF FlushStart
    <2>2. pads' \in [Streams -> PadT] /\ PadsFit(streams, pads', av.epoch)
      BY <1>1, <2>1, FlushStartsAndEnds
    <2>3. QED
      BY <1>1, <2>1, <2>2, SameEpoch DEF EpochInv
  <1>20. CASE FlushRestart
    <2>1. UNCHANGED <<streams, pads, seeker, av, segment, out, lock, loop, app>>
      BY <1>20 DEF FlushRestart
    <2>2. QED
      BY <2>1, SamePads DEF EpochInv
  <1>21. CASE Open
    <2>1. /\ UNCHANGED <<streams, seeker, av, segment, out, lock, app>>
          /\ loop.at = "added" /\ loop'.at # "packet"
      BY <1>21 DEF Open, Running, GoTo
    <2>2. /\ \/ pads' = pads
             \/ pads' = PushEvent(pads, <<"segment", Upstream>>)
             \/ pads' = PushEvent(pads, <<"segment", av.epoch>>)
          /\ av.epoch \in Nat
      <3>1. segment.epoch = av.epoch /\ av.epoch \in Nat
        BY <1>1 DEF EpochTypeOK
      <3>2. CASE cached = "segment"
        BY <1>21, <3>1, <3>2 DEF Open
      <3>3. CASE cached # "segment"
        BY <1>21, <3>1, <3>3 DEF Open
      <3>4. QED
        BY <3>1, <3>2, <3>3
    <2>3. pads' \in [Streams -> PadT] /\ PadsFit(streams, pads', av.epoch)
      BY <1>1, <2>2, SegmentStarts
    <2>4. QED
      BY <1>1, <2>1, <2>3, SameEpoch DEF EpochInv
  <1>15. CASE FlushStop
    <2>1. /\ UNCHANGED <<streams, seeker, av, segment, out, lock, loop, app>>
          /\ pads' = PushEvent(pads, <<"flush_stop">>)
      BY <1>15 DEF FlushStop
    <2>2. pads' \in [Streams -> PadT] /\ PadsFit(streams, pads', av.epoch)
      BY <1>1, <2>1, FlushStops
    <2>3. QED
      BY <1>1, <2>1, <2>2, SameEpoch DEF EpochInv
  <1>16. CASE Activate
    <2>1. /\ UNCHANGED <<streams, pads, seeker, out, lock, loop>>
          /\ app = "stopped" /\ app' = "running"
          /\ av' = [pos |-> 0, epoch |-> av.epoch + 1]
          /\ segment' = [segment EXCEPT !.epoch = av.epoch + 1]
      BY <1>16 DEF Activate
    <2>2. /\ EpochTypeOK' /\ av'.epoch \in Nat
      BY <1>1, <2>1 DEF EpochTypeOK
    <2>3. loop.at = "off"
      BY <2>1 DEF LockInv
    <2>4. PadsFit(streams, pads, av.epoch)'
      BY <1>1, <2>1, DemuxAssumption DEF EpochInv, PadsFit
    <2>5. QED
      BY <2>1, <2>2, <2>3, <2>4 DEF EpochInv, NoStaleData
  <1>17. CASE Deactivate
    <2>1. /\ UNCHANGED <<streams, seeker, av, segment, out, lock, loop>>
          /\ app' = "joining"
          /\ pads' = [s \in Streams |-> [pads[s] EXCEPT !.flushing = TRUE]]
      BY <1>17 DEF Deactivate
    <2>2. pads' \in [Streams -> PadT]
      BY <1>1, <2>1 DEF PadT
    <2>3. \A s \in Known : pads'[s].flushing /\ pads'[s].segment = pads[s].segment
      BY <1>1, <2>1, DemuxAssumption DEF PadT
    <2>4. PadsFit(streams, pads', av.epoch)
      BY <1>1, <2>3 DEF PadsFit
    <2>5. QED
      BY <1>1, <2>1, <2>2, <2>4, SameEpoch DEF EpochInv
  <1>18. CASE Close
    <2>1. /\ UNCHANGED <<av, seeker, lock, loop>> /\ out' = "none" /\ loop.at = "off"
          /\ streams' = [s \in Streams |-> NewStream]
          /\ pads' = [s \in Streams |-> NewPad]
      BY <1>18 DEF Close, LockInv
    <2>2. streams' \in [Streams -> StreamT] /\ pads' \in [Streams -> PadT]
      BY <2>1 DEF NewStream, StreamT, NewPad, PadT, Flows
    <2>3. segment' = [InitialSegment EXCEPT !.epoch = segment.epoch] \/ segment' = segment
      BY <1>18 DEF Close
    <2>4. segment' = [epoch |-> av'.epoch, stop |-> segment'.stop,
                      segment |-> segment'.segment]
      BY <1>1, <2>1, <2>3 DEF InitialSegment, EpochTypeOK
    <2>5. EpochTypeOK'
      BY <1>1, <2>1, <2>2, <2>4 DEF EpochTypeOK
    <2>6. PadsFit(streams', pads', av'.epoch)
      BY <2>1, DemuxAssumption DEF PadsFit, NewStream, NewPad
    <2>7. QED
      BY <2>1, <2>5, <2>6 DEF EpochInv, NoStaleData, NewStream, PadsFit
  <1>19. CASE UNCHANGED vars
    <2>1. UNCHANGED <<streams, pads, seeker, av, segment, out, lock, loop, app>>
      BY <1>19 DEF vars, elementVars
    <2>2. QED
      BY <2>1, SamePads DEF EpochInv
  <1>22. QED
    BY <1>3, <1>4, <1>5, <1>6, <1>7, <1>8, <1>9, <1>10, <1>11, <1>12, <1>13, <1>14,
       <1>15, <1>16, <1>17, <1>18, <1>19, <1>20, <1>21
    DEF Next, SeekStep, LoopStep

(* What libavformat read before a seek is never pushed under the seek's    *)
(* segment, nor what it read after it under an older one, whatever the     *)
(* number of seeking threads (gstavdemux.c, perform_seek and loop).        *)
THEOREM PushesOwnEpoch == Spec => []NoStaleData
  <1>1. EpochInv => NoStaleData
    BY DEF EpochInv
  <1>2. QED
    BY <1>1, LockInit, LockStep, EpochInit, EpochStep, PTL DEF Spec

-----------------------------------------------------------------------------
(* What the task does where, and the segment that goes first               *)

(* The task opens an element that is not opened and reads one that is;     *)
(* nothing has left an element that is not opened.                         *)
PhaseInv ==
  /\ loop.at \in {"open", "opening", "added", "open_failed"} => ~opened
  /\ loop.at \in {"read", "read_failed", "packet", "cached_seek"} => opened
  /\ ~opened => out = "none"

LEMMA CombinedIsFlow ==
  ASSUME NEW ps, NEW flow \in Flows
  PROVE  Combined(ps, flow) \in Flows
  BY DEF Combined, Flows

(* Only the task moves the task, opens the element and pushes buffers.     *)
LEMMA OutsideLoop ==
  ASSUME [Next]_vars
  PROVE  \/ LoopStep
         \/ mode' = mode /\ UNCHANGED <<loop, opened, out, refused>>
         \/ Close
         \/ \E s \in Seekers : SeekFinish(s)
  <1>1. ASSUME NEW s \in Seekers, SendSeek(s) \/ SeekStep(s)
        PROVE  (mode' = mode /\ UNCHANGED <<loop, opened, out, refused>>) \/ SeekFinish(s)
    BY <1>1 DEF SendSeek, SeekStep, MarkFlushing, PushFlushStart, PauseTask, LockStream
  <1>2. CASE ChainCall \/ ChainReturn \/ SerializedEvent \/ SerializedStep
             \/ EosEvent \/ FlushStart \/ FlushStop \/ FlushRestart \/ Wakeup
    BY <1>2 DEF ChainCall, ChainReturn, SerializedEvent, SerializedStep, EosEvent,
                FlushStart, FlushStop, FlushRestart, Wakeup, elementVars
  <1>3. CASE Activate \/ Deactivate \/ JoinTask \/ UNCHANGED vars
    BY <1>3 DEF Activate, Deactivate, JoinTask, vars, elementVars
  <1>4. QED
    BY <1>1, <1>2, <1>3 DEF Next

LEMMA PhaseStep == LockInv /\ PhaseInv /\ [Next]_vars => PhaseInv'
  <1> SUFFICES ASSUME LockInv, PhaseInv, [Next]_vars PROVE PhaseInv'
    OBVIOUS
  <1>1. CASE UNCHANGED <<loop, opened, out>>
    BY <1>1 DEF PhaseInv
  <1>2. CASE \E s \in Seekers : SeekFinish(s)
    BY <1>1, <1>2 DEF SeekFinish
  <1>3. CASE Close
    <2>1. loop' = loop /\ loop.at = "off" /\ out' = "none"
      BY <1>3 DEF Close, LockInv
    <2>2. QED
      BY <2>1 DEF PhaseInv
  <1>4. CASE LoopBegin \/ ReadWait
    BY <1>1, <1>4 DEF LoopBegin, ReadWait, elementVars, GoTo, PhaseInv
  <1>5. CASE ReadPipe \/ ReadPull
    <2>1. loop.at \in {"open", "read"} /\ UNCHANGED <<opened, out>>
      BY <1>5 DEF ReadPipe, ReadPull
    <2>2. loop'.at \in IF loop.at = "open" THEN {"opening", "open_failed"}
                                           ELSE {"packet", "read_failed"}
      BY <1>5 DEF ReadPipe, ReadPull, ReadOutcome, GoTo
    <2>3. QED
      BY <2>1, <2>2 DEF PhaseInv
  <1>6. CASE Open \/ CachedSeek
    <2>1. loop.at \in {"added", "cached_seek"} /\ out' = out
      BY <1>6 DEF Open, CachedSeek
    <2>2. loop'.at \in {"cached_seek", "read"}
      <3>1. GoTo("cached_seek", "none") \/ GoTo("read", "none")
        BY <1>6 DEF Open, CachedSeek
      <3>2. QED
        BY <3>1 DEF GoTo
    <2>3. opened'
      BY <1>6 DEF Open, CachedSeek, PhaseInv
    <2>4. QED
      BY <2>2, <2>3 DEF PhaseInv
  <1>9. CASE AddPads
    <2>1. loop.at = "opening" /\ UNCHANGED <<opened, out>> /\ loop'.at = "added"
      BY <1>9 DEF AddPads, GoTo
    <2>2. QED
      BY <2>1 DEF PhaseInv
  <1>7. CASE UnknownPacket \/ Drop \/ PushPacket \/ ReadFailed \/ Pause
    <2>1. opened' = opened /\ (out' = out \/ (PushPacket /\ loop.at = "packet"))
      BY <1>7 DEF UnknownPacket, Drop, PushPacket, KnownPacket, ReadFailed, Pause
    <2>2. loop'.at \in {"off"} \cup Flows
      <3>1. CASE UnknownPacket \/ Pause
        BY <3>1 DEF UnknownPacket, Pause, IterationEnds, GoTo
      <3>2. CASE Drop
        BY <3>2 DEF Drop, IterationEnds, GoTo, Flows
      <3>3. CASE ReadFailed
        BY <3>3 DEF ReadFailed, ReadResult, GoTo, Flows
      <3>4. CASE PushPacket
        <4>1. PICK s \in Known :
                \E flow \in PushResult(pads[s]) :
                  IF Combined(pads', flow) = "ok" THEN IterationEnds
                  ELSE GoTo(Combined(pads', flow), "downstream")
          BY <3>4 DEF PushPacket
        <4>2. PICK flow \in PushResult(pads[s]) :
                IF Combined(pads', flow) = "ok" THEN IterationEnds
                ELSE GoTo(Combined(pads', flow), "downstream")
          BY <4>1
        <4>3. Combined(pads', flow) \in Flows
          BY CombinedIsFlow DEF PushResult, Flows
        <4>4. QED
          BY <4>2, <4>3 DEF IterationEnds, GoTo
      <3>5. QED
        BY <1>7, <3>1, <3>2, <3>3, <3>4
    <2>3. QED
      BY <2>1, <2>2 DEF PhaseInv, Flows
  <1>10. QED
    BY <1>1, <1>2, <1>3, <1>4, <1>5, <1>6, <1>7, <1>9, OutsideLoop DEF LoopStep

(* Every pad that was there when the element was opened, or got a packet   *)
(* since a seek, has a segment, or takes nothing now.                      *)
PadsBegun ==
  \A s \in Known : streams[s].seen =>
    pads[s].flushing \/ pads[s].late \/ pads[s].segment # NoSegment

SegmentInv ==
  mode = "pull" /\ ~refused =>
    /\ out # "bare"
    /\ opened /\ loop.at # "cached_seek" => PadsBegun

(* Events but flush-stop keep the pads begun, and a seek that succeeds     *)
(* begins them all again.                                                  *)
LEMMA BegunKept ==
  ASSUME EpochTypeOK, PadsBegun, NEW kind \in {"flush_start", "eos"},
         pads' = PushEvent(pads, <<kind>>), streams' = streams
  PROVE  PadsBegun'
  <1>1. ASSUME NEW s \in Streams
        PROVE  /\ pads'[s].segment = pads[s].segment /\ pads'[s].late = pads[s].late
               /\ pads[s].flushing => pads'[s].flushing
    BY DEF PushEvent, EpochTypeOK, PadT
  <1>2. QED
    BY <1>1, DemuxAssumption DEF PadsBegun

LEMMA SeekBeginsPads ==
  ASSUME EpochTypeOK, NEW ps \in [Streams -> PadT], PadsFit(streams, ps, av.epoch),
         NEW k, SeekFrom(ps, k), ~refused'
  PROVE  PadsBegun'
  <1>1. /\ \A s \in Streams : streams'[s].seen = streams[s].seen
        /\ av'.epoch \in Nat
    BY SeekFits
  <1>2. pads' = PushEvent(ResetFlows(ps), <<"segment", av'.epoch>>)
    BY DEF SeekFrom
  <1>3. ResetFlows(ps) \in [Streams -> PadT]
    BY FlowsReset
  <1>4. ASSUME NEW s \in Known, streams[s].seen
        PROVE  pads'[s].flushing \/ pads'[s].segment # NoSegment
    <2>1. s \in Streams /\ s \in Shown
      BY <1>4, DemuxAssumption DEF Shown, Seen
    <2>2. CASE ResetFlows(ps)[s].flushing
      BY <1>2, <2>1, <2>2 DEF PushEvent
    <2>3. CASE ~ResetFlows(ps)[s].flushing
      <3>1. ResetFlows(ps)[s] \in PadT
        BY <1>3, <2>1
      <3>2. pads'[s] = [ResetFlows(ps)[s] EXCEPT !.segment = av'.epoch, !.late = FALSE]
        BY <1>2, <2>1, <2>3 DEF PushEvent
      <3>3. pads'[s].segment = av'.epoch
        BY <3>1, <3>2 DEF PadT
      <3>4. QED
        BY <1>1, <3>3, DemuxAssumption
    <2>4. QED
      BY <2>2, <2>3
  <1>5. QED
    BY <1>1, <1>4, DemuxAssumption DEF PadsBegun

(* A packet marks the pad of a new stream as late.                         *)
LEMMA PacketBegun ==
  ASSUME EpochTypeOK, PadsBegun, NEW s \in Streams, streams' \in [Streams -> StreamT],
         \A t \in Streams \ {s} : streams'[t] = streams[t],
         pads' \in [Streams -> PadT],
         \A t \in Streams : /\ pads'[t].segment = pads[t].segment
                            /\ pads'[t].flushing = pads[t].flushing,
         \A t \in Streams \ {s} : pads'[t].late = pads[t].late,
         s \in Known => (pads'[s].late <=> pads[s].late \/ ~streams[s].seen)
  PROVE  PadsBegun'
  <1>1. \A t \in Known : t \in Streams
    BY DemuxAssumption
  <1>2. QED
    BY <1>1 DEF PadsBegun

(* Steps that leave the pads begun and push nothing.                       *)
LEMMA SegmentKept ==
  ASSUME SegmentInv, mode' = mode, opened' = opened, UNCHANGED <<out, refused>>,
         opened /\ loop'.at # "cached_seek" => loop.at # "cached_seek",
         opened /\ PadsBegun => PadsBegun'
  PROVE  SegmentInv'
  BY DEF SegmentInv

LEMMA SegmentStep ==
  LockInv /\ EpochInv /\ PhaseInv /\ SegmentInv /\ [Next]_vars => SegmentInv'
  <1> SUFFICES ASSUME LockInv, EpochInv, PhaseInv, SegmentInv, [Next]_vars
               PROVE  SegmentInv'
    OBVIOUS
  <1>1. /\ EpochTypeOK /\ PadsFit(streams, pads, av.epoch)
        /\ pads \in [Streams -> PadT] /\ streams \in [Streams -> StreamT]
    BY DEF EpochInv, EpochTypeOK
  <1>2. CASE UNCHANGED <<mode, opened, out, refused, pads, streams, loop>>
    BY <1>2, SegmentKept DEF PadsBegun
  <1>3. ASSUME NEW s \in Seekers, SendSeek(s) \/ SeekStep(s)
        PROVE  SegmentInv'
    <2>1. CASE SendSeek(s) \/ MarkFlushing(s) \/ PauseTask(s) \/ LockStream(s)
      BY <1>2, <2>1 DEF SendSeek, MarkFlushing, PauseTask, LockStream
    <2>2. CASE PushFlushStart(s)
      <3>1. /\ UNCHANGED <<mode, opened, out, refused, streams, loop>>
            /\ pads' = PushEvent(pads, <<"flush_start">>)
        BY <2>2 DEF PushFlushStart
      <3>2. PadsBegun => PadsBegun'
        BY <1>1, <3>1, BegunKept
      <3>3. QED
        BY <3>1, <3>2, SegmentKept
    <2>3. CASE SeekFinish(s)
      <3>1. mode' = mode /\ UNCHANGED <<loop, opened, out>> /\ seeker[s].at = "seek"
        BY <2>3 DEF SeekFinish, At
      <3>2. CASE ~opened
        <4>1. UNCHANGED <<pads, streams, refused>>
          BY <2>3, <3>2 DEF SeekFinish
        <4>2. QED
          BY <1>2, <3>1, <4>1
      <3>3. CASE opened
        <4>1. PICK k \in seeker[s].seek :
                SeekFrom(IF k.flush THEN PushEvent(pads, <<"flush_stop">>) ELSE pads, k)
          BY <2>3, <3>3 DEF SeekFinish
        <4>2. ~refused' => PadsBegun'
          BY <1>1, <4>1, FlushStops, SeekBeginsPads
        <4>3. ~refused' => ~refused
          BY <4>1 DEF SeekFrom
        <4>4. QED
          BY <3>1, <4>2, <4>3 DEF SegmentInv
      <3>4. QED
        BY <3>2, <3>3
    <2>4. QED
      BY <1>3, <2>1, <2>2, <2>3 DEF SeekStep
  <1>4. CASE LoopBegin \/ ReadWait \/ ReadPipe \/ ReadPull \/ ReadFailed
    <2>1. /\ UNCHANGED <<mode, opened, out, refused, pads, streams>>
          /\ loop.at # "cached_seek"
      BY <1>4 DEF LoopBegin, ReadWait, ReadPipe, ReadPull, ReadFailed, elementVars
    <2>2. QED
      BY <2>1, SegmentKept DEF PadsBegun
  <1>5. CASE Open
    <2>1. mode' = mode /\ loop.at = "added" /\ out' = out /\ out = "none"
      BY <1>5 DEF Open, PhaseInv
    <2>2. ASSUME mode = "pull", loop'.at # "cached_seek"
          PROVE  PadsBegun'
      <3>1. seek_event = {}
        BY <1>5, <2>2 DEF Open, GoTo
      <3>2. PICK id \in {Upstream, av.epoch} :
              pads' = PushEvent(pads, <<"segment", id>>) /\ streams' = streams
        <4>1. segment.epoch = av.epoch
          BY <1>1 DEF EpochTypeOK
        <4>2. CASE cached = "segment"
          BY <1>5, <4>2 DEF Open
        <4>3. CASE cached # "segment"
          BY <1>5, <3>1, <4>1, <4>3 DEF Open
        <4>4. QED
          BY <4>2, <4>3
      <3>3. id # NoSegment
        BY <1>1, DemuxAssumption DEF EpochTypeOK
      <3>4. ASSUME NEW s \in Known, streams[s].seen
            PROVE  pads'[s].flushing \/ pads'[s].segment # NoSegment
        <4>1. s \in Streams /\ s \in Shown /\ pads[s] \in PadT
          BY <1>1, <3>4, DemuxAssumption DEF Shown, Seen
        <4>2. \/ pads[s].flushing /\ pads'[s] = pads[s]
              \/ pads'[s] = [pads[s] EXCEPT !.segment = id, !.late = FALSE]
          BY <3>2, <4>1 DEF PushEvent
        <4>3. QED
          BY <3>3, <4>1, <4>2 DEF PadT
      <3>5. QED
        BY <3>2, <3>4 DEF PadsBegun
    <2>3. QED
      BY <2>1, <2>2 DEF SegmentInv
  <1>17. CASE AddPads
    <2>1. mode' = mode /\ UNCHANGED <<opened, out, refused>> /\ ~opened
      BY <1>17 DEF AddPads, PhaseInv
    <2>2. QED
      BY <2>1 DEF SegmentInv
  <1>6. CASE CachedSeek
    <2>1. mode' = mode /\ out' = out
      BY <1>6 DEF CachedSeek
    <2>2. PICK k \in seek_event :
            SeekFrom(IF k.flush THEN PushEvent(PushEvent(pads, <<"flush_start">>),
                                               <<"flush_stop">>) ELSE pads, k)
      BY <1>6 DEF CachedSeek
    <2>3. DEFINE fs == PushEvent(pads, <<"flush_start">>)
    <2>4. fs \in [Streams -> PadT] /\ PadsFit(streams, fs, av.epoch)
      BY <1>1, FlushStartsAndEnds
    <2>5. /\ PushEvent(fs, <<"flush_stop">>) \in [Streams -> PadT]
          /\ PadsFit(streams, PushEvent(fs, <<"flush_stop">>), av.epoch)
      <3> HIDE DEF fs
      <3> QED
        BY <1>1, <2>4, FlushStops
    <2>6. ~refused' => PadsBegun'
      BY <1>1, <2>2, <2>5, SeekBeginsPads
    <2>7. ~refused' => ~refused
      BY <2>2 DEF SeekFrom
    <2>8. QED
      BY <2>1, <2>6, <2>7 DEF SegmentInv
  <1>7. CASE UnknownPacket
    <2>1. PICK s \in Streams \ Known : streams' = [streams EXCEPT ![s].seen = TRUE]
      BY <1>7 DEF UnknownPacket
    <2>2. \A t \in Known : streams'[t] = streams[t]
      BY <1>1, <2>1, DemuxAssumption
    <2>3. /\ UNCHANGED <<mode, opened, out, refused, pads>> /\ loop.at = "packet"
      BY <1>7 DEF UnknownPacket
    <2>4. QED
      BY <2>2, <2>3, SegmentKept DEF PadsBegun
  <1>8. CASE Drop \/ PushPacket
    <2>1. /\ UNCHANGED <<mode, opened, refused>> /\ loop.at = "packet"
      BY <1>8 DEF Drop, PushPacket, KnownPacket
    <2>2. PICK s \in Known, late \in BOOLEAN :
            /\ late = (pads[s].late \/ ~streams[s].seen)
            /\ \/ /\ pads' = [pads EXCEPT ![s].late = late]
                  /\ streams' = [streams EXCEPT ![s].seen = TRUE, ![s].ts = TRUE,
                                                ![s].eos = TRUE]
                  /\ out' = out
               \/ /\ \E flow \in Flows :
                       pads' = [pads EXCEPT ![s].flow = flow, ![s].late = late]
                  /\ streams' = [streams EXCEPT ![s].seen = TRUE, ![s].ts = TRUE,
                                                ![s].discont = FALSE]
                  /\ out' = IF pads[s].flushing THEN out
                            ELSE Fit([pads[s] EXCEPT !.late = pads'[s].late], loop.arg)
      <3>1. CASE Drop
        <4>1. PICK s \in Known :
                /\ streams' = [streams EXCEPT ![s].seen = TRUE, ![s].ts = TRUE,
                                              ![s].eos = TRUE]
                /\ pads' = [pads EXCEPT ![s].late = @ \/ ~streams[s].seen]
          BY <3>1 DEF Drop
        <4>2. s \in Streams /\ out' = out
          BY <3>1, DemuxAssumption DEF Drop
        <4>3. pads' = [pads EXCEPT ![s].late = pads[s].late \/ ~streams[s].seen]
          BY <1>1, <4>1, <4>2
        <4>4. (pads[s].late \/ ~streams[s].seen) \in BOOLEAN
          OBVIOUS
        <4>5. QED
          BY <4>1, <4>2, <4>3, <4>4
      <3>2. CASE PushPacket
        <4>1. PICK s \in Known :
                /\ streams' = [streams EXCEPT ![s].seen = TRUE, ![s].ts = TRUE,
                                              ![s].discont = FALSE]
                /\ \E flow \in PushResult(pads[s]) :
                     /\ pads' = [pads EXCEPT ![s].flow = flow,
                                             ![s].late = @ \/ ~streams[s].seen]
                     /\ out' = IF pads[s].flushing THEN out
                               ELSE Fit([pads[s] EXCEPT !.late = pads'[s].late], loop.arg)
          BY <3>2 DEF PushPacket
        <4>2. PICK flow \in PushResult(pads[s]) :
                /\ pads' = [pads EXCEPT ![s].flow = flow,
                                        ![s].late = @ \/ ~streams[s].seen]
                /\ out' = IF pads[s].flushing THEN out
                          ELSE Fit([pads[s] EXCEPT !.late = pads'[s].late], loop.arg)
          BY <4>1
        <4>3. s \in Streams /\ flow \in Flows
          BY DemuxAssumption DEF PushResult, Flows
        <4>4. pads' = [pads EXCEPT ![s].flow = flow,
                                   ![s].late = pads[s].late \/ ~streams[s].seen]
          BY <1>1, <4>2, <4>3
        <4>5. (pads[s].late \/ ~streams[s].seen) \in BOOLEAN
          OBVIOUS
        <4>6. QED
          BY <4>1, <4>2, <4>3, <4>4, <4>5
      <3>3. QED
        BY <1>8, <3>1, <3>2
    <2>3. s \in Streams
      BY DemuxAssumption
    <2>4. /\ streams' \in [Streams -> StreamT] /\ streams'[s].seen
          /\ \A t \in Streams \ {s} : streams'[t] = streams[t]
      <3>1. \/ streams' = [streams EXCEPT ![s].seen = TRUE, ![s].ts = TRUE,
                                           ![s].eos = TRUE]
            \/ streams' = [streams EXCEPT ![s].seen = TRUE, ![s].ts = TRUE,
                                           ![s].discont = FALSE]
        BY <2>2
      <3>2. CASE streams' = [streams EXCEPT ![s].seen = TRUE, ![s].ts = TRUE,
                                            ![s].eos = TRUE]
        BY <1>1, <2>3, <3>2 DEF StreamT
      <3>3. CASE streams' = [streams EXCEPT ![s].seen = TRUE, ![s].ts = TRUE,
                                            ![s].discont = FALSE]
        BY <1>1, <2>3, <3>3 DEF StreamT
      <3>4. QED
        BY <3>1, <3>2, <3>3
    <2>5. /\ pads' \in [Streams -> PadT] /\ pads'[s].late = late
          /\ \A t \in Streams : /\ pads'[t].segment = pads[t].segment
                                /\ pads'[t].flushing = pads[t].flushing
          /\ \A t \in Streams \ {s} : pads'[t].late = pads[t].late
      <3>1. PICK flow \in Flows :
              \/ pads' = [pads EXCEPT ![s].late = late]
              \/ pads' = [pads EXCEPT ![s].flow = flow, ![s].late = late]
        <4>1. Flows # {}
          BY DEF Flows
        <4>2. QED
          BY <2>2, <4>1
      <3>2. QED
        BY <1>1, <2>3, <3>1 DEF PadT
    <2>6. PadsBegun => PadsBegun'
      BY <1>1, <2>2, <2>3, <2>4, <2>5, PacketBegun
    <2>7. CASE out' = out
      BY <2>1, <2>6, <2>7, SegmentKept DEF PhaseInv
    <2>8. CASE out' = Fit([pads[s] EXCEPT !.late = pads'[s].late], loop.arg)
               /\ ~pads[s].flushing
      <3> DEFINE p == [pads[s] EXCEPT !.late = pads'[s].late]
      <3>1. p.segment = pads'[s].segment /\ p.late = pads'[s].late
        BY <1>1, <2>3, <2>5 DEF PadT
      <3>2. PadsBegun' => p.segment # NoSegment \/ p.late
        BY <2>3, <2>4, <2>5, <2>8, <3>1 DEF PadsBegun
      <3> HIDE DEF p
      <3>3. PadsBegun' => Fit(p, loop.arg) # "bare"
        BY <3>2 DEF Fit
      <3>4. out' = Fit(p, loop.arg)
        BY <2>8 DEF p
      <3>5. QED
        BY <2>1, <2>6, <3>3, <3>4 DEF SegmentInv, PhaseInv
    <2>9. QED
      BY <2>2, <2>7, <2>8
  <1>9. CASE Pause
    <2>1. /\ UNCHANGED <<mode, opened, out, refused, streams>>
          /\ loop.at \in {"eos", "error", "flushing", "not_linked"}
          /\ pads' = pads \/ pads' = PushEvent(pads, <<"eos">>)
      BY <1>9 DEF Pause
    <2>2. PadsBegun => PadsBegun'
      <3>1. CASE pads' = pads
        BY <2>1, <3>1 DEF PadsBegun
      <3>2. CASE pads' = PushEvent(pads, <<"eos">>)
        BY <1>1, <2>1, <3>2, BegunKept
      <3>3. QED
        BY <2>1, <3>1, <3>2
    <2>3. QED
      BY <2>1, <2>2, SegmentKept
  <1>10. CASE SerializedStep
    <2>1. CASE pads' = pads
      BY <1>2, <1>10, <2>1 DEF SerializedStep
    <2>2. CASE pads' = PushEvent(pads, <<"segment", Upstream>>)
      <3>1. UNCHANGED <<mode, opened, out, refused, streams, loop>>
        BY <1>10 DEF SerializedStep
      <3>2. ASSUME PadsBegun PROVE PadsBegun'
        <4>1. ASSUME NEW s \in Streams
              PROVE  \/ pads'[s] = pads[s]
                     \/ pads'[s].segment = Upstream
          BY <1>1, <2>2 DEF PushEvent, PadT
        <4>2. QED
          BY <3>1, <3>2, <4>1, DemuxAssumption DEF PadsBegun
      <3>3. QED
        BY <3>1, <3>2, SegmentKept
    <2>3. QED
      BY <1>10, <2>1, <2>2 DEF SerializedStep
  <1>11. CASE FlushStart \/ FlushStop
    BY <1>11 DEF FlushStart, FlushStop, Pushing, SegmentInv
  <1>19. CASE FlushRestart
    BY <1>2, <1>19 DEF FlushRestart
  <1>12. CASE ChainCall \/ ChainReturn \/ SerializedEvent \/ EosEvent \/ Wakeup
    BY <1>2, <1>12
    DEF ChainCall, ChainReturn, SerializedEvent, EosEvent, Wakeup, elementVars
  <1>13. CASE Activate \/ JoinTask \/ UNCHANGED vars
    BY <1>2, <1>13 DEF Activate, JoinTask, vars, elementVars
  <1>14. CASE Deactivate
    <2>1. /\ UNCHANGED <<mode, opened, out, refused, streams, loop>>
          /\ pads' = [s \in Streams |-> [pads[s] EXCEPT !.flushing = TRUE]]
      BY <1>14 DEF Deactivate
    <2>2. \A s \in Known : pads'[s].flushing
      BY <1>1, <2>1, DemuxAssumption DEF PadT
    <2>3. QED
      BY <2>1, <2>2, SegmentKept DEF PadsBegun
  <1>15. CASE Close
    BY <1>15 DEF Close, SegmentInv
  <1>20. QED
    BY <1>3, <1>4, <1>5, <1>6, <1>7, <1>8, <1>9, <1>10, <1>11, <1>12, <1>13, <1>14,
       <1>15, <1>17, <1>19
    DEF Next, LoopStep

(* In pull mode no buffer leaves a pad that was there from the start       *)
(* before a segment, unless a seek failed (gst_ffmpegdemux_open,           *)
(* perform_seek).                                                          *)
THEOREM SegmentGoesFirst == Spec => []SegmentFirst
  <1>1. Init => PhaseInv /\ SegmentInv
    BY DEF Init, PhaseInv, SegmentInv
  <1>2. SegmentInv => SegmentFirst
    BY DEF SegmentInv, SegmentFirst
  <1>3. QED
    BY <1>1, <1>2, LockInit, LockStep, EpochInit, EpochStep, PhaseStep, SegmentStep, PTL
    DEF Spec

-----------------------------------------------------------------------------
(* A flush is no end                                                       *)

(* At most one thread has ever sent a seek.                                *)
Alone == \A s, t \in Seekers : seeker[s].at # "idle" /\ seeker[t].at # "idle" => s = t

Ends == {"eos", "error", "not_linked"}

(* A cached seek has its sender.  In push mode no read fails for a flush.  *)
(* In pull mode one thread's flush marks the element before the sink pad,  *)
(* and holds that until the task gives up its lock: a read that fails for  *)
(* it is known as flushed, or met an element not opened yet, whose task    *)
(* does not start again.                                                   *)
SentInv == seek_event # {} => \E s \in Seekers : seeker[s].at = "done"

PushModeInv ==
  mode = "push" =>
    /\ loop.at \in {"open_failed", "read_failed"} \cup Ends => loop.arg # "flush"
    /\ ending # "flush"

PullModeInv ==
  mode = "pull" /\ Alone =>
    /\ sinkflush \/ (\E s \in Seekers : seeker[s].at = "flush") => flushing
    /\ app = "running" =>
         /\ loop.at = "read_failed" /\ loop.arg = "flush" => flushing
         /\ loop.at \in Ends /\ loop.arg = "flush" => ~opened
         /\ ending = "flush" => /\ ~opened
                                /\ status = "ok" => loop.at = "off" /\ task # "started"

FlushInv == SentInv /\ PushModeInv /\ PullModeInv

(* A thread that has sent its seek stays so.                               *)
LEMMA SeekersStayActive ==
  ASSUME EpochInv, [Next]_vars
  PROVE  /\ \A s \in Seekers : seeker[s].at # "idle" => seeker'[s].at # "idle"
         /\ \A s \in Seekers : seeker[s].at = "done" => seeker'[s].at = "done"
         /\ Alone' => Alone
  <1>1. seeker \in [Seekers -> SeekerT]
    BY DEF EpochInv, EpochTypeOK
  <1>2. \/ seeker' = seeker
        \/ \E s \in Seekers : SendSeek(s) \/ SeekStep(s)
    BY DEF Next, LoopStep, LoopBegin, ReadWait, ReadPipe, ReadPull, AddPads, Open, CachedSeek,
           UnknownPacket, Drop, PushPacket, ReadFailed, Pause, ChainCall, ChainReturn,
           SerializedEvent, SerializedStep, EosEvent, FlushStart, FlushStop, FlushRestart, Activate,
           Deactivate, JoinTask, Close, Wakeup, vars, elementVars
  <1>3. ASSUME NEW s \in Seekers, SendSeek(s)
        PROVE  /\ seeker[s].at = "idle"
               /\ \A t \in Seekers \ {s} : seeker'[t] = seeker[t]
    BY <1>1, <1>3 DEF SendSeek
  <1>4. ASSUME NEW s \in Seekers, SeekStep(s)
        PROVE  /\ seeker[s].at \notin {"idle", "done"} /\ seeker'[s].at # "idle"
               /\ \A t \in Seekers \ {s} : seeker'[t] = seeker[t]
    <2>1. PICK from \in {"mark", "flush", "pause", "lock", "seek"},
               to \in {"flush", "lock", "seek", "done"} : At(s, from, to)
      BY <1>4 DEF SeekStep, MarkFlushing, PushFlushStart, PauseTask, LockStream, SeekFinish
    <2>2. QED
      BY <2>1, SeekerMoves
  <1>5. /\ \A s \in Seekers : seeker[s].at # "idle" => seeker'[s].at # "idle"
        /\ \A s \in Seekers : seeker[s].at = "done" => seeker'[s].at = "done"
    <2>1. CASE seeker' = seeker
      BY <2>1
    <2>2. ASSUME NEW s \in Seekers, SendSeek(s) \/ SeekStep(s), NEW t \in Seekers
          PROVE  /\ seeker[t].at # "idle" => seeker'[t].at # "idle"
                 /\ seeker[t].at = "done" => seeker'[t].at = "done"
      <3>1. CASE t = s
        BY <2>2, <3>1, <1>3, <1>4
      <3>2. CASE t # s
        BY <2>2, <3>2, <1>3, <1>4
      <3>3. QED
        BY <3>1, <3>2
    <2>3. QED
      BY <1>2, <2>1, <2>2
  <1>6. QED
    BY <1>5 DEF Alone

LEMMA SentStep == EpochInv /\ SentInv /\ [Next]_vars => SentInv'
  <1> SUFFICES ASSUME EpochInv, SentInv, [Next]_vars PROVE SentInv'
    OBVIOUS
  <1>1. seeker \in [Seekers -> SeekerT]
    BY DEF EpochInv, EpochTypeOK
  <1>2. \/ seek_event' \in {{}, seek_event}
        \/ \E s \in Seekers : SendSeek(s)
    BY DEF Next, SeekStep, MarkFlushing, PushFlushStart, PauseTask, LockStream, SeekFinish,
           LoopStep, LoopBegin, ReadWait, ReadPipe, ReadPull, AddPads, Open, CachedSeek,
           UnknownPacket, Drop, PushPacket, ReadFailed, Pause, ChainCall, ChainReturn,
           SerializedEvent, SerializedStep, EosEvent, FlushStart, FlushStop, FlushRestart, Activate,
           Deactivate, JoinTask, Close, Wakeup, vars, elementVars
  <1>3. CASE seek_event' \in {{}, seek_event}
    BY <1>3, SeekersStayActive DEF SentInv
  <1>4. ASSUME NEW s \in Seekers, SendSeek(s) PROVE SentInv'
    <2>1. CASE seek_event' = seek_event
      BY <1>3, <2>1
    <2>2. CASE seek_event' # seek_event
      <3>1. seeker' = [seeker EXCEPT ![s].at = "done"]
        BY <1>4, <2>2 DEF SendSeek
      <3>2. seeker'[s].at = "done"
        BY <1>1, <3>1 DEF SeekerT
      <3>3. QED
        BY <3>2 DEF SentInv
    <2>3. QED
      BY <2>1, <2>2
  <1>5. QED
    BY <1>2, <1>3, <1>4

(* The causes that the task takes with it from state to state.             *)
LEMMA LoopCauses ==
  ASSUME [Next]_vars
  PROVE  /\ loop'.at = "open_failed" =>
              \/ loop' = loop
              \/ loop'.arg = "end"
              \/ ReadPull /\ loop.at = "open"
         /\ loop'.at = "read_failed" =>
              \/ loop' = loop
              \/ loop'.arg = "end"
              \/ ReadPull /\ loop.at = "read" /\ (sinkflush \/ app # "running")
         /\ loop'.at \in Ends =>
              \/ loop' = loop
              \/ loop'.arg \in {"end", "downstream"}
              \/ /\ ReadFailed /\ loop'.arg = loop.arg
                 /\ loop.at \in {"open_failed", "read_failed"}
                 /\ loop.at = "read_failed" => ~flushing
  <1>1. CASE loop' = loop
    BY <1>1
  <1>2. CASE LoopBegin
    BY <1>2 DEF LoopBegin, GoTo, Ends
  <1>3. CASE ReadPipe
    BY <1>3 DEF ReadPipe, ReadOutcome, GoTo, Ends
  <1>4. CASE ReadPull
    <2>1. loop.at \in {"open", "read"}
          /\ ReadOutcome(av.pos < FileLen \/ loop.at = "open", TRUE,
                         IF sinkflush \/ app # "running" THEN "flush" ELSE "end")
      BY <1>4 DEF ReadPull
    <2>2. QED
      BY <1>4, <2>1 DEF ReadOutcome, GoTo, Ends
  <1>5. CASE Open \/ CachedSeek
    <2>1. GoTo("cached_seek", "none") \/ GoTo("read", "none")
      BY <1>5 DEF Open, CachedSeek
    <2>2. QED
      BY <2>1 DEF GoTo, Ends
  <1>6. CASE AddPads \/ UnknownPacket \/ Pause
    BY <1>6 DEF AddPads, UnknownPacket, Pause, IterationEnds, GoTo, Ends
  <1>7. CASE Drop
    BY <1>7 DEF Drop, IterationEnds, GoTo, Ends
  <1>8. CASE PushPacket
    <2>1. PICK s \in Known :
            \E flow \in PushResult(pads[s]) :
              IF Combined(pads', flow) = "ok" THEN IterationEnds
              ELSE GoTo(Combined(pads', flow), "downstream")
      BY <1>8 DEF PushPacket
    <2>2. PICK flow \in PushResult(pads[s]) :
            IF Combined(pads', flow) = "ok" THEN IterationEnds
            ELSE GoTo(Combined(pads', flow), "downstream")
      BY <2>1
    <2>3. Combined(pads', flow) \in Flows
      BY CombinedIsFlow DEF PushResult, Flows
    <2>4. QED
      BY <2>2, <2>3 DEF IterationEnds, GoTo, Ends, Flows
  <1>9. CASE ReadFailed
    BY <1>9 DEF ReadFailed, ReadResult, GoTo, Ends
  <1>10. CASE \E s \in Seekers : SeekFinish(s)
    BY <1>1, <1>10 DEF SeekFinish
  <1>11. CASE Close \/ ReadWait
    BY <1>1, <1>11 DEF Close, ReadWait, elementVars
  <1>12. QED
    BY <1>1, <1>2, <1>3, <1>4, <1>5, <1>6, <1>7, <1>8, <1>9, <1>10, <1>11, OutsideLoop
    DEF LoopStep

(* Only the end of an iteration changes the cause of the last end.         *)
LEMMA EndingCauses ==
  ASSUME [Next]_vars
  PROVE  /\ mode' = mode
         /\ \/ ending' \in {ending, "none"}
            \/ Pause /\ loop.at \in Ends /\ ending' = loop.arg
  <1>1. CASE Pause
    BY <1>1 DEF Pause, Ends
  <1>2. CASE ~Pause
    BY <1>2
    DEF Next, SendSeek, SeekStep, MarkFlushing, PushFlushStart, PauseTask, LockStream,
        SeekFinish, LoopStep, LoopBegin, ReadWait, ReadPipe, ReadPull, AddPads, Open, CachedSeek,
        UnknownPacket, Drop, PushPacket, ReadFailed, ChainCall, ChainReturn,
        SerializedEvent, SerializedStep, EosEvent, FlushStart, FlushStop, FlushRestart, Activate,
        Deactivate, JoinTask, Close, Wakeup, vars, elementVars
  <1>3. QED
    BY <1>1, <1>2

LEMMA PushModeStep == PushModeInv /\ [Next]_vars => PushModeInv'
  <1> SUFFICES ASSUME PushModeInv, [Next]_vars, mode = "push"
               PROVE  /\ loop'.at \in {"open_failed", "read_failed"} \cup Ends =>
                           loop'.arg # "flush"
                      /\ ending' # "flush"
    BY EndingCauses DEF PushModeInv
  <1>1. ~ReadPull
    BY DEF ReadPull
  <1>2. loop'.at \in {"open_failed", "read_failed"} \cup Ends => loop'.arg # "flush"
    BY <1>1, LoopCauses DEF PushModeInv
  <1>3. ending' # "flush"
    BY EndingCauses DEF PushModeInv
  <1>4. QED
    BY <1>2, <1>3

(* Who moves what a flush in pull mode depends on; after an error of       *)
(* memory nothing moves.                                                   *)
LEMMA PullModeMoves ==
  ASSUME [Next]_vars, mode = "pull"
  PROVE  /\ status = "ok" \/ UNCHANGED vars
         /\ app' = "running" => app = "running" \/ Activate
         /\ app = "running" /\ task' = "started" =>
              task = "started" \/ LoopStep \/ \E s \in Seekers : SeekFinish(s)
         /\ \/ UNCHANGED <<flushing, sinkflush, seeker>>
            \/ CachedSeek \/ Activate
            \/ \E s \in Seekers : SendSeek(s) \/ SeekStep(s)
  <1>1. CASE UNCHANGED vars
    BY <1>1 DEF vars, elementVars
  <1>2. ASSUME NEW s \in Seekers, SendSeek(s) \/ SeekStep(s)
        PROVE  /\ status = "ok" /\ app' = app
               /\ task' = "started" => task = "started" \/ SeekFinish(s)
    BY <1>2 DEF SendSeek, SeekStep, MarkFlushing, PushFlushStart, PauseTask, LockStream,
                SeekFinish, At
  <1>3. CASE LoopStep
    <2>1. status = "ok" /\ app' = app
      BY <1>3 DEF LoopStep, LoopBegin, ReadWait, ReadPipe, ReadPull, AddPads, Open, CachedSeek,
                  UnknownPacket, Drop, PushPacket, KnownPacket, ReadFailed, Pause, Running,
                  elementVars
    <2>2. CachedSeek \/ UNCHANGED <<flushing, sinkflush, seeker>>
      BY <1>3 DEF LoopStep, LoopBegin, ReadWait, ReadPipe, ReadPull, AddPads, Open,
                  UnknownPacket, Drop, PushPacket, ReadFailed, Pause, elementVars
    <2>3. QED
      BY <1>3, <2>1, <2>2
  <1>4. CASE ChainCall \/ SerializedEvent \/ EosEvent \/ FlushStart \/ FlushStop
            \/ FlushRestart
    BY <1>4 DEF ChainCall, SerializedEvent, EosEvent, FlushStart, FlushStop, FlushRestart,
                Pushing
  <1>5. CASE ChainReturn \/ SerializedStep \/ Wakeup
    BY <1>5 DEF ChainReturn, SerializedStep, Wakeup, elementVars
  <1>6. CASE Activate
    BY <1>6 DEF Activate
  <1>7. CASE Deactivate \/ JoinTask \/ Close
    BY <1>7 DEF Deactivate, JoinTask, Close
  <1>8. QED
    BY <1>1, <1>2, <1>3, <1>4, <1>5, <1>6, <1>7 DEF Next

LEMMA PullModeStep ==
  LockInv /\ EpochInv /\ PhaseInv /\ SentInv /\ PullModeInv /\ [Next]_vars => PullModeInv'
  <1> SUFFICES ASSUME LockInv, EpochInv, PhaseInv, SentInv, PullModeInv, [Next]_vars,
                      mode = "pull", Alone, Alone'
               PROVE  PullModeInv'
    BY EndingCauses, SeekersStayActive DEF PullModeInv
  <1>1. seeker \in [Seekers -> SeekerT]
    BY DEF EpochInv, EpochTypeOK
  <1>2. sinkflush \/ (\E s \in Seekers : seeker[s].at = "flush") => flushing
    BY DEF PullModeInv
  <1>3. sinkflush' \/ (\E s \in Seekers : seeker'[s].at = "flush") => flushing'
    <2>1. CASE UNCHANGED <<flushing, sinkflush, seeker>>
      BY <1>2, <2>1
    <2>2. CASE CachedSeek
      <3>1. seeker' = seeker /\ seek_event # {}
        BY <2>2 DEF CachedSeek
      <3>2. \A s \in Seekers : seeker[s].at # "flush"
        BY <3>1 DEF SentInv, Alone
      <3>3. \/ UNCHANGED <<flushing, sinkflush>>
            \/ flushing' = FALSE /\ sinkflush' = FALSE
        BY <2>2 DEF CachedSeek
      <3>4. QED
        BY <1>2, <3>1, <3>2, <3>3
    <2>3. CASE Activate
      BY <1>2, <2>3 DEF Activate
    <2>4. ASSUME NEW s \in Seekers, SendSeek(s)
          PROVE  sinkflush' \/ (\E t \in Seekers : seeker'[t].at = "flush") => flushing'
      <3>1. \A t \in Seekers : seeker'[t].at = "flush" => seeker[t].at = "flush"
        BY <1>1, <2>4 DEF SendSeek, SeekBegins, SeekerT
      <3>2. QED
        BY <1>2, <2>4, <3>1 DEF SendSeek
    <2>5. ASSUME NEW s \in Seekers, MarkFlushing(s)
          PROVE  flushing'
      BY <2>5 DEF MarkFlushing
    <2>6. ASSUME NEW s \in Seekers, PushFlushStart(s)
          PROVE  flushing'
      BY <1>2, <2>6 DEF PushFlushStart, At
    <2>7. ASSUME NEW s \in Seekers, PauseTask(s) \/ LockStream(s) \/ SeekFinish(s)
          PROVE  sinkflush' \/ (\E t \in Seekers : seeker'[t].at = "flush") => flushing'
      <3>1. PICK from \in {"pause", "lock", "seek"}, to \in {"lock", "seek", "done"} :
              At(s, from, to)
        BY <2>7 DEF PauseTask, LockStream, SeekFinish
      <3>2. /\ seeker[s].at \notin {"idle", "flush"} /\ seeker'[s].at # "flush"
            /\ \A t \in Seekers \ {s} : seeker'[t] = seeker[t]
        BY <3>1, SeekerMoves
      <3>3. \A t \in Seekers : seeker[t].at # "flush" /\ seeker'[t].at # "flush"
        BY <3>2 DEF Alone
      <3>4. sinkflush' => sinkflush /\ flushing' = flushing
        BY <2>7 DEF PauseTask, LockStream, SeekFinish
      <3>5. QED
        BY <1>2, <3>3, <3>4
    <2>8. QED
      BY <2>1, <2>2, <2>3, <2>4, <2>5, <2>6, <2>7, PullModeMoves DEF SeekStep
  <1> SUFFICES ASSUME app' = "running"
               PROVE  /\ loop'.at = "read_failed" /\ loop'.arg = "flush" => flushing'
                      /\ loop'.at \in Ends /\ loop'.arg = "flush" => ~opened'
                      /\ ending' = "flush" =>
                           /\ ~opened'
                           /\ status' = "ok" => loop'.at = "off" /\ task' # "started"
    BY <1>3 DEF PullModeInv
  <1>4. CASE Activate
    <2>1. loop' = loop /\ loop.at = "off" /\ ending' = "none"
      BY <1>4 DEF Activate, LockInv
    <2>2. QED
      BY <2>1 DEF Ends
  <1>5. CASE ~Activate
    <2>1. app = "running"
      BY <1>5, PullModeMoves
    <2>2. /\ loop.at = "read_failed" /\ loop.arg = "flush" => flushing
          /\ loop.at \in Ends /\ loop.arg = "flush" => ~opened
          /\ ending = "flush" => /\ ~opened
                                 /\ status = "ok" => loop.at = "off" /\ task # "started"
      BY <2>1 DEF PullModeInv
    <2>3. opened' => opened \/ Open
      <3>1. LoopStep => Open \/ opened' = opened
        BY DEF LoopStep, LoopBegin, ReadWait, ReadPipe, ReadPull, AddPads, CachedSeek, UnknownPacket,
               Drop, PushPacket, ReadFailed, Pause, elementVars
      <3>2. QED
        BY <3>1, OutsideLoop DEF Close, SeekFinish
    <2>4. loop' = loop /\ loop.at # "off" => ~Open /\ (flushing => flushing')
      <3>1. Open => loop.at = "added" /\ loop'.at \in {"cached_seek", "read"}
        <4>1. Open => loop.at = "added" /\ (GoTo("cached_seek", "none") \/ GoTo("read", "none"))
          BY DEF Open
        <4>2. QED
          BY <4>1 DEF GoTo
      <3>2. CachedSeek => loop.at = "cached_seek" /\ loop'.at = "read"
        <4>1. CachedSeek => loop.at = "cached_seek" /\ GoTo("read", "none")
          BY DEF CachedSeek
        <4>2. QED
          BY <4>1 DEF GoTo
      <3>3. ASSUME loop.at # "off", NEW s \in Seekers, SendSeek(s) \/ SeekStep(s), flushing
            PROVE  flushing'
        <4>1. lock # "free"
          BY <3>3 DEF LockInv
        <4>2. CASE LockStream(s)
          BY <4>1, <4>2 DEF LockStream
        <4>3. CASE MarkFlushing(s)
          BY <4>3 DEF MarkFlushing
        <4>4. CASE ~LockStream(s) /\ ~MarkFlushing(s)
          <5>1. flushing' = flushing
            BY <3>3, <4>4 DEF SendSeek, SeekStep, PushFlushStart, PauseTask, SeekFinish
          <5>2. QED
            BY <3>3, <5>1
        <4>5. QED
          BY <4>2, <4>3, <4>4
      <3>4. QED
        BY <1>5, <3>1, <3>2, <3>3, PullModeMoves
    <2>5. loop'.at = "read_failed" /\ loop'.arg = "flush" => flushing'
      <3>1. CASE loop' = loop
        BY <2>2, <2>4, <3>1
      <3>2. CASE ReadPull /\ (sinkflush \/ app # "running")
        BY <1>2, <2>1, <3>2 DEF ReadPull
      <3>3. QED
        BY <3>1, <3>2, LoopCauses
    <2>6. loop'.at \in Ends /\ loop'.arg = "flush" => ~opened'
      <3>1. CASE loop' = loop
        BY <2>2, <2>3, <2>4, <3>1 DEF Ends
      <3>2. CASE ReadFailed /\ loop'.arg = loop.arg
                 /\ loop.at \in {"open_failed", "read_failed"}
                 /\ (loop.at = "read_failed" => ~flushing)
        BY <2>2, <3>2 DEF ReadFailed, PhaseInv
      <3>3. QED
        BY <3>1, <3>2, LoopCauses
    <2>7. ASSUME ending' = "flush"
          PROVE  ~opened' /\ (status' = "ok" => loop'.at = "off" /\ task' # "started")
      <3>1. CASE Pause /\ loop.at \in Ends /\ loop.arg = "flush"
        <4>1. opened' = opened /\ loop'.at = "off" /\ task' # "started"
          BY <3>1 DEF Pause, IterationEnds, GoTo
        <4>2. QED
          BY <2>2, <3>1, <4>1
      <3>2. CASE ending = "flush" /\ UNCHANGED vars
        BY <2>2, <3>2 DEF vars, elementVars
      <3>3. CASE ending = "flush" /\ status = "ok"
        <4>1. ~opened /\ loop.at = "off" /\ task # "started"
          BY <2>2, <3>3
        <4>2. ~LoopStep
          BY <4>1 DEF LoopStep, LoopBegin, ReadWait, ReadPipe, ReadPull, AddPads, Open, CachedSeek,
                      UnknownPacket, Drop, PushPacket, KnownPacket, ReadFailed, Pause, Running
        <4>3. ~opened'
          BY <4>1, <4>2, <2>3 DEF LoopStep
        <4>4. CASE \E s \in Seekers : SeekFinish(s)
          BY <4>1, <4>3, <4>4 DEF SeekFinish
        <4>5. CASE ~\E s \in Seekers : SeekFinish(s)
          <5>1. loop' = loop
            BY <4>2, <4>5, OutsideLoop DEF Close
          <5>2. task' # "started"
            BY <2>1, <4>1, <4>2, <4>5, PullModeMoves
          <5>3. QED
            BY <4>1, <4>3, <5>1, <5>2
        <4>6. QED
          BY <4>4, <4>5
      <3>4. QED
        BY <2>7, <3>1, <3>2, <3>3, EndingCauses, PullModeMoves
    <2>8. QED
      BY <2>5, <2>6, <2>7
  <1>6. QED
    BY <1>4, <1>5

LEMMA FlushInit == Init => mode \in Modes /\ FlushInv
  <1> SUFFICES ASSUME Init PROVE mode \in Modes /\ FlushInv
    OBVIOUS
  <1>1. seek_event = {} /\ mode \in Modes /\ ending = "none" /\ loop.at = "off"
    BY DEF Init
  <1>2. \A s \in Seekers : seeker[s].at = "idle"
    BY DEF Init
  <1>3. sinkflush = FALSE /\ app = "stopped"
    BY DEF Init
  <1>4. SentInv /\ PushModeInv /\ PullModeInv
    BY <1>1, <1>2, <1>3 DEF SentInv, PushModeInv, PullModeInv, Ends
  <1>5. QED
    BY <1>1, <1>4 DEF FlushInv

(* Where two threads have sent a seek, more than one is not idle.          *)
LEMMA NotAlone ==
  ASSUME ~Alone
  PROVE  Cardinality({s \in Seekers : seeker[s].at # "idle"}) > 1
  <1> DEFINE Active == {s \in Seekers : seeker[s].at # "idle"}
  <1>1. PICK s, t \in Active : s # t
    BY DEF Alone
  <1>2. IsFiniteSet(Active) /\ Cardinality(Active) \in Nat
    <2>1. IsFiniteSet(Active)
      BY FS_Subset, DemuxAssumption
    <2>2. QED
      BY <2>1, FS_CardinalityType
  <1>3. Cardinality({s}) = 1 /\ IsFiniteSet({s})
    BY FS_Singleton
  <1>4. IsFiniteSet({s} \cup {t}) /\ Cardinality({s} \cup {t}) = 2
    <2>1. t \notin {s}
      BY <1>1
    <2>2. /\ IsFiniteSet({s} \cup {t})
          /\ t \notin {s} => Cardinality({s} \cup {t}) = Cardinality({s}) + 1
      BY <1>3, FS_AddElement
    <2>3. QED
      BY <1>3, <2>1, <2>2
  <1>5. Cardinality({s} \cup {t}) <= Cardinality(Active)
    BY <1>1, <1>2, <1>4, FS_Subset
  <1>6. QED
    BY <1>2, <1>4, <1>5

(* Unless two threads have sent seeks, an element that is running and      *)
(* opened never takes a read that was cut short by a flush for the end of  *)
(* the stream or for an error: gst_ffmpegdemux_perform_seek marks the      *)
(* element as flushing before it flushes the sink pad, and takes the mark  *)
(* back only with the lock of the task, which reads it in read_failed.     *)
THEOREM FlushedReadIsNoEnd == Spec => []FlushIsNoEnd
  <1> DEFINE Inv == /\ LockInv /\ EpochInv /\ PhaseInv
                    /\ mode \in Modes /\ FlushInv
  <1>1. Init => Inv
    BY LockInit, EpochInit, FlushInit DEF Init, PhaseInv
  <1>2. Inv /\ [Next]_vars => Inv'
    BY LockStep, EpochStep, PhaseStep, SentStep, PushModeStep, PullModeStep, EndingCauses
    DEF FlushInv
  <1>3. Inv => FlushIsNoEnd
    <2> SUFFICES ASSUME Inv, ending = "flush", opened, app = "running"
                 PROVE  Cardinality({s \in Seekers : seeker[s].at # "idle"}) > 1
      BY DEF FlushIsNoEnd
    <2>1. mode = "pull"
      BY DemuxAssumption DEF FlushInv, PushModeInv
    <2>2. ~Alone
      BY <2>1 DEF FlushInv, PullModeInv
    <2>3. QED
      BY <2>2, NotAlone
  <1>4. QED
    BY <1>1, <1>2, <1>3, PTL DEF Spec

-----------------------------------------------------------------------------
(* Types.  A number stays in its range because something else does: what   *)
(* is in the pipe was brought there by a call, an epoch was begun by an    *)
(* activation or by a seek of its own, and a pad's segment is of an epoch  *)
(* that has begun.                                                         *)

PipeInv ==
  /\ ffpipe.available <= calls /\ calls \in 0..MaxCalls
  /\ ffpipe.needed \in 0..MaxRead /\ size \in 0..MaxRead
  /\ up \in {"idle", "chain", "serialized", "flush_stop"}

(* What the pipe counts changes only with a call of the upstream thread,   *)
(* a read, or a reset.                                                     *)
LEMMA PipeMoves ==
  ASSUME [Next]_vars, ffpipe \in PipeT
  PROVE  \/ /\ ffpipe'.available = ffpipe.available \/ ffpipe'.available = 0
            /\ ffpipe'.needed = ffpipe.needed \/ ffpipe'.needed = 0
            /\ calls' = calls /\ size' = size
            /\ up' \in {up, "idle", "chain", "serialized", "flush_stop"}
         \/ /\ Call /\ size' = size
            /\ ffpipe'.available \in {ffpipe.available, ffpipe.available + 1}
            /\ ffpipe'.needed = ffpipe.needed
            /\ up' \in {up, "idle", "chain", "serialized", "flush_stop"}
         \/ \E n \in 1..MaxRead : PipeWait(n) \/ PipeGet(n)
  <1>1. CASE UNCHANGED pipeVars
    BY <1>1 DEF pipeVars
  <1>2. ASSUME NEW s \in Seekers, SendSeek(s) \/ SeekStep(s) PROVE UNCHANGED pipeVars
    BY <1>2 DEF SendSeek, SeekStep, MarkFlushing, PushFlushStart, PauseTask, LockStream,
                SeekFinish
  <1>3. CASE LoopBegin \/ ReadPull \/ AddPads \/ Open \/ CachedSeek \/ UnknownPacket
             \/ Drop \/ PushPacket \/ ReadFailed
    BY <1>1, <1>3 DEF LoopBegin, ReadPull, AddPads, Open, CachedSeek, UnknownPacket, Drop,
                      PushPacket, ReadFailed
  <1>4. CASE Pause
    BY <1>1, <1>4 DEF Pause, PipePause, PipeT
  <1>5. CASE ReadWait \/ ReadPipe
    BY <1>5 DEF ReadWait, ReadPipe
  <1>6. CASE ChainCall
    BY <1>6 DEF ChainCall, Chain, ChainIgnore, ChainWaits, Call, PipeT
  <1>7. CASE ChainReturn \/ SerializedStep \/ Wakeup
    BY <1>7 DEF ChainReturn, ChainWoken, ChainWaits, SerializedStep, SerializedWaits,
                Wakeup, SpuriousWakeup
  <1>8. CASE SerializedEvent
    BY <1>8 DEF SerializedEvent, SerializedCall, Call
  <1>9. CASE EosEvent
    BY <1>9 DEF EosEvent, PipeEos, Call, PipeT
  <1>10. CASE FlushStart \/ FlushStop \/ FlushRestart
    BY <1>10 DEF FlushStart, FlushStop, FlushRestart, PipeFlushStart,
                 FlushStopCall, PipeFlushStop, PipeT
  <1>11. CASE Activate \/ Deactivate \/ Close
    BY <1>1, <1>11 DEF Activate, Deactivate, Close, PipeActivate, PipeDeactivate, PipeClear, PipeT
  <1>12. CASE JoinTask \/ UNCHANGED vars
    BY <1>1, <1>12 DEF JoinTask, vars
  <1>13. QED
    BY <1>1, <1>2, <1>3, <1>4, <1>5, <1>6, <1>7, <1>8, <1>9, <1>10, <1>11, <1>12
    DEF Next, LoopStep

LEMMA PipeStep == WaitInv /\ PipeInv /\ [Next]_vars => PipeInv'
  <1> SUFFICES ASSUME WaitInv, PipeInv, [Next]_vars PROVE PipeInv'
    OBVIOUS
  <1>1. /\ MaxRead \in Nat /\ MaxCalls \in Nat /\ ffpipe \in PipeT
        /\ calls \in Nat /\ ffpipe.available \in Nat
    BY PipeAssumption DEF WaitInv, PipeInv, PipeT
  <1>2. ASSUME NEW n \in 1..MaxRead, PipeWait(n) PROVE PipeInv'
    <2>1. /\ ffpipe'.available = ffpipe.available /\ ffpipe'.needed = n
          /\ size' = n /\ up' = up /\ calls' = calls
      BY <1>1, <1>2 DEF PipeWait, PipeT
    <2>2. QED
      BY <1>1, <2>1 DEF PipeInv
  <1>3. ASSUME NEW n \in 1..MaxRead, PipeGet(n) PROVE PipeInv'
    <2>1. /\ ffpipe'.available = ffpipe.available - Got(n)
          /\ ffpipe'.needed \in {0, ffpipe.needed}
          /\ size' = 0 /\ up' = up /\ calls' = calls
      BY <1>1, <1>3 DEF PipeGet, PipeT
    <2>2. Got(n) \in Nat
      BY <1>1 DEF Got
    <2>3. QED
      BY <1>1, <2>1, <2>2 DEF PipeInv
  <1>4. CASE /\ ffpipe'.available = ffpipe.available \/ ffpipe'.available = 0
             /\ ffpipe'.needed = ffpipe.needed \/ ffpipe'.needed = 0
             /\ calls' = calls /\ size' = size
             /\ up' \in {up, "idle", "chain", "serialized", "flush_stop"}
    BY <1>1, <1>4 DEF PipeInv
  <1>5. CASE /\ Call /\ size' = size
             /\ ffpipe'.available \in {ffpipe.available, ffpipe.available + 1}
             /\ ffpipe'.needed = ffpipe.needed
             /\ up' \in {up, "idle", "chain", "serialized", "flush_stop"}
    BY <1>1, <1>5 DEF PipeInv, Call
  <1>6. QED
    BY <1>1, <1>2, <1>3, <1>4, <1>5, PipeMoves

(* What the element's other fields may hold.                               *)
StateInv ==
  /\ mode \in Modes
  /\ app \in {"stopped", "running", "joining", "closing"}
  /\ task \in {"none", "started", "paused"}
  /\ lock \in {"free", "loop"} \cup Seekers
  /\ cached \in {"NULL", "list", "segment", "freed"}
  /\ out \in {"none", "late", "bare", "upstream", "own", "stale"}
  /\ starts \in 0..MaxActivations

LEMMA StateStep == StateInv /\ [Next]_vars => StateInv'
  <1> SUFFICES ASSUME StateInv, [Next]_vars PROVE StateInv'
    OBVIOUS
  <1>1. mode' = mode /\ app' \in {app, "stopped", "running", "joining", "closing"}
    BY DEF Next, SendSeek, SeekStep, MarkFlushing, PushFlushStart, PauseTask, LockStream,
           SeekFinish, LoopStep, LoopBegin, ReadWait, ReadPipe, ReadPull, AddPads, Open, CachedSeek,
           UnknownPacket, Drop, PushPacket, ReadFailed, Pause, ChainCall, ChainReturn,
           SerializedEvent, SerializedStep, EosEvent, FlushStart, FlushStop, FlushRestart, Activate,
           Deactivate, JoinTask, Close, Wakeup, vars, elementVars
  <1>2. task' \in {task, "none", "started", "paused"}
    BY DEF Next, SendSeek, SeekStep, MarkFlushing, PushFlushStart, PauseTask, LockStream,
           SeekFinish, LoopStep, LoopBegin, ReadWait, ReadPipe, ReadPull, AddPads, Open, CachedSeek,
           UnknownPacket, Drop, PushPacket, ReadFailed, Pause, ChainCall, ChainReturn,
           SerializedEvent, SerializedStep, EosEvent, FlushStart, FlushStop, FlushRestart, Activate,
           Deactivate, JoinTask, Close, Wakeup, vars, elementVars
  <1>3. cached' \in {cached, "NULL", "list", "segment", "freed"}
        /\ (starts' = starts \/ (starts < MaxActivations /\ starts' = starts + 1))
    BY DEF Next, SendSeek, SeekStep, MarkFlushing, PushFlushStart, PauseTask, LockStream,
           SeekFinish, LoopStep, LoopBegin, ReadWait, ReadPipe, ReadPull, AddPads, Open, CachedSeek,
           UnknownPacket, Drop, PushPacket, ReadFailed, Pause, ChainCall, ChainReturn,
           SerializedEvent, SerializedStep, EosEvent, FlushStart, FlushStop, FlushRestart, Activate,
           Deactivate, JoinTask, Close, Wakeup, vars, elementVars
  <1>4. lock' \in {lock, "free", "loop"} \cup Seekers
    <2>1. ASSUME NEW s \in Seekers, SendSeek(s) \/ SeekStep(s)
          PROVE  lock' \in {lock, "free", s}
      BY <2>1 DEF SendSeek, SeekStep, MarkFlushing, PushFlushStart, PauseTask, LockStream,
                  SeekFinish
    <2>2. CASE PushPacket
      <3>1. PICK s \in Known :
              \E flow \in PushResult(pads[s]) :
                IF Combined(pads', flow) = "ok" THEN IterationEnds
                ELSE GoTo(Combined(pads', flow), "downstream") /\ lock' = lock
        BY <2>2 DEF PushPacket
      <3>2. QED
        BY <3>1 DEF IterationEnds
    <2>3. CASE LoopStep /\ ~PushPacket
      BY <2>3 DEF LoopStep, LoopBegin, ReadWait, ReadPipe, ReadPull, AddPads, Open, CachedSeek,
                  UnknownPacket, Drop, ReadFailed, Pause, IterationEnds, elementVars
    <2>4. CASE lock' = lock
      BY <2>4
    <2>5. CASE ChainCall \/ ChainReturn \/ SerializedEvent \/ SerializedStep \/ EosEvent
               \/ FlushStart \/ FlushStop \/ FlushRestart \/ Activate \/ Deactivate \/ JoinTask \/ Close
               \/ Wakeup \/ UNCHANGED vars
      BY <2>4, <2>5
      DEF ChainCall, ChainReturn, SerializedEvent, SerializedStep, EosEvent, FlushStart,
          FlushStop, FlushRestart, Activate, Deactivate, JoinTask, Close, Wakeup, vars, elementVars
    <2>6. QED
      BY <2>1, <2>2, <2>3, <2>5 DEF Next
  <1>5. out' \in {out, "none", "late", "bare", "upstream", "own", "stale"}
    <2>1. CASE PushPacket
      <3>1. PICK s \in Known : \E p : out' = IF pads[s].flushing THEN out ELSE Fit(p, loop.arg)
        BY <2>1 DEF PushPacket
      <3>2. QED
        BY <3>1 DEF Fit
    <2>2. CASE LoopStep /\ ~PushPacket
      BY <2>2 DEF LoopStep, LoopBegin, ReadWait, ReadPipe, ReadPull, AddPads, Open, CachedSeek,
                  UnknownPacket, Drop, ReadFailed, Pause, elementVars
    <2>3. CASE Close \/ \E s \in Seekers : SeekFinish(s)
      BY <2>3 DEF Close, SeekFinish
    <2>4. QED
      BY <2>1, <2>2, <2>3, OutsideLoop
  <1>6. starts' \in 0..MaxActivations
    BY <1>3, DemuxAssumption DEF StateInv
  <1>7. QED
    BY <1>1, <1>2, <1>3, <1>4, <1>5, <1>6 DEF StateInv

(* Seeks are ones that a thread may ask for, and so are their segments.    *)
RangeInv ==
  /\ seek_event \subseteq Seeks
  /\ segment.stop \in 0..FileLen /\ segment.segment \in BOOLEAN

LEMMA RangeStep == EpochInv /\ RangeInv /\ [Next]_vars => RangeInv'
  <1> SUFFICES ASSUME EpochInv, RangeInv, [Next]_vars PROVE RangeInv'
    OBVIOUS
  <1>1. seek_event' \subseteq Seeks
    BY DEF RangeInv, Next, SendSeek, SeekStep, MarkFlushing, PushFlushStart, PauseTask,
           LockStream, SeekFinish, LoopStep, LoopBegin, ReadWait, ReadPipe, ReadPull, AddPads, Open,
           CachedSeek, UnknownPacket, Drop, PushPacket, ReadFailed, Pause, ChainCall,
           ChainReturn, SerializedEvent, SerializedStep, EosEvent, FlushStart, FlushStop, FlushRestart,
           Activate, Deactivate, JoinTask, Close, Wakeup, vars, elementVars
  <1>2. ASSUME NEW k \in Seeks, NEW ps, SeekFrom(ps, k)
        PROVE  segment'.stop \in 0..FileLen /\ segment'.segment \in BOOLEAN
    <2>1. k.stop \in 0..FileLen /\ k.segment \in BOOLEAN
      BY DemuxAssumption
    <2>2. \/ segment' = segment
          \/ segment' = [epoch |-> av'.epoch, stop |-> k.stop, segment |-> k.segment]
      BY <1>2 DEF SeekFrom
    <2>3. QED
      BY <2>1, <2>2 DEF RangeInv
  <1>3. segment'.stop \in 0..FileLen /\ segment'.segment \in BOOLEAN
    <2>1. CASE segment' = segment
      BY <2>1 DEF RangeInv
    <2>2. ASSUME NEW s \in Seekers, SeekFinish(s)
          PROVE  segment'.stop \in 0..FileLen /\ segment'.segment \in BOOLEAN
      <3>1. seeker[s].seek \subseteq Seeks
        BY DEF EpochInv, EpochTypeOK, SeekerT
      <3>2. \/ segment' = segment
            \/ \E k \in Seeks : \E ps : SeekFrom(ps, k)
        BY <2>2, <3>1 DEF SeekFinish
      <3>3. QED
        BY <1>2, <2>1, <3>2
    <2>3. CASE CachedSeek
      <3>1. \E k \in Seeks : \E ps : SeekFrom(ps, k)
        BY <2>3 DEF CachedSeek, RangeInv
      <3>2. QED
        BY <1>2, <3>1
    <2>4. CASE Activate
      <3>1. segment' = [segment EXCEPT !.epoch = av.epoch + 1]
        BY <2>4 DEF Activate
      <3>2. segment = [epoch |-> av.epoch, stop |-> segment.stop,
                       segment |-> segment.segment]
        BY DEF EpochInv, EpochTypeOK
      <3>3. segment'.stop = segment.stop /\ segment'.segment = segment.segment
        BY <3>1, <3>2
      <3>4. QED
        BY <3>3 DEF RangeInv
    <2>5. CASE Close
      <3>1. segment' = [epoch |-> segment.epoch, stop |-> FileLen, segment |-> FALSE]
            \/ segment' = segment
        BY <2>5 DEF Close, InitialSegment
      <3>2. FileLen \in 0..FileLen
        BY DemuxAssumption
      <3>3. CASE segment' = [epoch |-> segment.epoch, stop |-> FileLen, segment |-> FALSE]
        <4>1. segment'.stop = FileLen /\ segment'.segment = FALSE
          BY <3>3
        <4>2. QED
          BY <3>2, <4>1
      <3>4. QED
        BY <2>1, <3>1, <3>3
    <2>6. ASSUME NEW s \in Seekers, SendSeek(s) \/ SeekStep(s), ~SeekFinish(s)
          PROVE  segment' = segment
      BY <2>6 DEF SendSeek, SeekStep, MarkFlushing, PushFlushStart, PauseTask, LockStream
    <2>7. CASE LoopStep /\ ~CachedSeek
      BY <2>1, <2>7
      DEF LoopStep, LoopBegin, ReadWait, ReadPipe, ReadPull, AddPads, Open, UnknownPacket, Drop,
          PushPacket, ReadFailed, Pause, elementVars
    <2>8. CASE ChainCall \/ ChainReturn \/ SerializedEvent \/ SerializedStep \/ EosEvent
               \/ FlushStart \/ FlushStop \/ FlushRestart \/ Deactivate \/ JoinTask \/ Wakeup
               \/ UNCHANGED vars
      BY <2>1, <2>8
      DEF ChainCall, ChainReturn, SerializedEvent, SerializedStep, EosEvent, FlushStart,
          FlushStop, FlushRestart, Deactivate, JoinTask, Wakeup, vars, elementVars
    <2>9. QED
      BY <2>1, <2>2, <2>3, <2>4, <2>5, <2>6, <2>7, <2>8 DEF Next
  <1>4. QED
    BY <1>1, <1>3 DEF RangeInv

(* Every epoch is an activation's or a seek's, each of which had its turn: *)
(* a cached seek was already sent and has its epoch still to come.         *)
Done == {s \in Seekers : seeker[s].at = "done"}
Pending == IF seek_event = {} THEN 0 ELSE 1

CountInv == av.epoch + Pending <= starts + Cardinality(Done)

LEMMA DoneIsFinite ==
  /\ IsFiniteSet(Done) /\ Cardinality(Done) \in Nat
  /\ Cardinality(Seekers) \in Nat /\ Cardinality(Done) <= Cardinality(Seekers)
  <1>1. Done \subseteq Seekers
    BY DEF Done
  <1>2. QED
    BY <1>1, DemuxAssumption, FS_Subset, FS_CardinalityType

(* One more thread is done.                                                *)
LEMMA OneMoreDone ==
  ASSUME seeker \in [Seekers -> SeekerT], NEW s \in Seekers, seeker[s].at # "done",
         seeker'[s].at = "done", \A t \in Seekers \ {s} : seeker'[t] = seeker[t]
  PROVE  Cardinality(Done') = Cardinality(Done) + 1
  <1>1. Done' = Done \cup {s} /\ s \notin Done
    BY DEF Done
  <1>2. QED
    BY <1>1, DoneIsFinite, FS_AddElement

(* The others leave the set of those that are done as it is.               *)
LEMMA DoneGrows ==
  ASSUME EpochInv, [Next]_vars
  PROVE  /\ Cardinality(Done') \in Nat /\ Cardinality(Done) <= Cardinality(Done')
  <1>1. Done \subseteq Done' /\ Done' \subseteq Seekers
    BY SeekersStayActive DEF Done
  <1>2. IsFiniteSet(Done')
    BY <1>1, DemuxAssumption, FS_Subset
  <1>3. QED
    BY <1>1, <1>2, FS_Subset, FS_CardinalityType

(* A seek begins the next epoch, with its segment, or none.                *)
LEMMA SeekMovesEpoch ==
  ASSUME NEW ps, NEW k, SeekFrom(ps, k)
  PROVE  \/ pads' = ResetFlows(ps) /\ av' = av
         \/ /\ av'.epoch = av.epoch + 1
            /\ pads' = PushEvent(ResetFlows(ps), <<"segment", av'.epoch>>)
  <1>1. CASE pads' = ResetFlows(ps) /\ UNCHANGED <<av, segment>>
    BY <1>1
  <1>2. ASSUME NEW p, av' = [pos |-> p, epoch |-> av.epoch + 1],
               pads' = PushEvent(ResetFlows(ps), <<"segment", av'.epoch>>)
        PROVE  /\ av'.epoch = av.epoch + 1
               /\ pads' = PushEvent(ResetFlows(ps), <<"segment", av'.epoch>>)
    <2>1. av'.epoch = av.epoch + 1
      BY <1>2
    <2>2. QED
      BY <1>2, <2>1
  <1>3. QED
    BY <1>1, <1>2 DEF SeekFrom

LEMMA CountStep == StateInv /\ EpochInv /\ CountInv /\ [Next]_vars => CountInv'
  <1> SUFFICES ASSUME StateInv, EpochInv, CountInv, [Next]_vars PROVE CountInv'
    OBVIOUS
  <1>1. /\ av.epoch \in Nat /\ starts \in Nat /\ MaxActivations \in Nat
        /\ Cardinality(Done) \in Nat /\ seeker \in [Seekers -> SeekerT]
    BY DoneIsFinite, DemuxAssumption DEF EpochInv, EpochTypeOK, StateInv
  <1>2. Cardinality(Done') \in Nat /\ Cardinality(Done) <= Cardinality(Done')
    BY DoneGrows
  <1>3. starts' = starts \/ starts' = starts + 1
    BY DEF Next, SendSeek, SeekStep, MarkFlushing, PushFlushStart, PauseTask, LockStream,
           SeekFinish, LoopStep, LoopBegin, ReadWait, ReadPipe, ReadPull, AddPads, Open, CachedSeek,
           UnknownPacket, Drop, PushPacket, ReadFailed, Pause, ChainCall, ChainReturn,
           SerializedEvent, SerializedStep, EosEvent, FlushStart, FlushStop, FlushRestart, Activate,
           Deactivate, JoinTask, Close, Wakeup, vars, elementVars
  <1>4. CASE av'.epoch = av.epoch /\ (seek_event' = {} \/ seek_event' = seek_event)
    BY <1>1, <1>2, <1>3, <1>4 DEF CountInv, Pending
  <1>5. ASSUME NEW s \in Seekers, SendSeek(s) PROVE CountInv'
    <2>1. av' = av /\ starts' = starts /\ seeker[s].at = "idle"
      BY <1>5 DEF SendSeek
    <2>2. CASE seek_event' = seek_event
      BY <1>4, <2>1, <2>2
    <2>3. CASE seek_event' # seek_event
      <3>1. seeker' = [seeker EXCEPT ![s].at = "done"]
        BY <1>5, <2>3 DEF SendSeek
      <3>2. seeker'[s].at = "done" /\ \A t \in Seekers \ {s} : seeker'[t] = seeker[t]
        BY <1>1, <3>1 DEF SeekerT
      <3>3. Cardinality(Done') = Cardinality(Done) + 1
        BY <1>1, <2>1, <3>2, OneMoreDone
      <3>4. QED
        BY <1>1, <2>1, <3>3 DEF CountInv, Pending
    <2>4. QED
      BY <2>2, <2>3
  <1>6. ASSUME NEW s \in Seekers, SeekFinish(s) PROVE CountInv'
    <2>1. /\ At(s, "seek", "done") /\ seek_event' = seek_event /\ starts' = starts
          /\ av'.epoch \in {av.epoch, av.epoch + 1}
      <3>1. \/ av' = av
            \/ \E ps, k : SeekFrom(ps, k)
        BY <1>6 DEF SeekFinish
      <3>2. av'.epoch \in {av.epoch, av.epoch + 1}
        BY <3>1, SeekMovesEpoch
      <3>3. QED
        BY <1>6, <3>2 DEF SeekFinish
    <2>2. /\ seeker[s].at # "done" /\ seeker'[s].at = "done"
          /\ \A t \in Seekers \ {s} : seeker'[t] = seeker[t]
      BY <2>1, SeekerMoves
    <2>3. Cardinality(Done') = Cardinality(Done) + 1
      BY <1>1, <2>2, OneMoreDone
    <2>4. QED
      BY <1>1, <2>1, <2>3 DEF CountInv, Pending
  <1>7. CASE CachedSeek
    <2>1. /\ seek_event # {} /\ seek_event' = {} /\ starts' = starts
          /\ av'.epoch \in {av.epoch, av.epoch + 1}
      <3>1. \E ps, k : SeekFrom(ps, k)
        BY <1>7 DEF CachedSeek
      <3>2. av'.epoch \in {av.epoch, av.epoch + 1}
        BY <3>1, SeekMovesEpoch
      <3>3. QED
        BY <1>7, <3>2 DEF CachedSeek
    <2>2. QED
      BY <1>1, <1>2, <2>1 DEF CountInv, Pending
  <1>8. CASE Activate
    <2>1. av'.epoch = av.epoch + 1 /\ starts' = starts + 1 /\ seek_event' = seek_event
      BY <1>8 DEF Activate
    <2>2. QED
      BY <1>1, <1>2, <2>1 DEF CountInv, Pending
  <1>9. CASE UnknownPacket \/ Drop \/ PushPacket
    <2>1. av' = [av EXCEPT !.pos = @ + 1] /\ seek_event' = seek_event
      BY <1>9 DEF UnknownPacket, Drop, PushPacket, KnownPacket
    <2>2. av'.epoch = av.epoch
      BY <2>1 DEF EpochInv, EpochTypeOK
    <2>3. QED
      BY <1>4, <2>1, <2>2
  <1>10. ASSUME NEW s \in Seekers, SeekStep(s), ~SeekFinish(s) PROVE CountInv'
    BY <1>4, <1>10 DEF SeekStep, MarkFlushing, PushFlushStart, PauseTask, LockStream
  <1>11. CASE LoopBegin \/ ReadWait \/ ReadPipe \/ ReadPull \/ AddPads \/ Open
              \/ ReadFailed \/ Pause
    BY <1>4, <1>11 DEF LoopBegin, ReadWait, ReadPipe, ReadPull, AddPads, Open, ReadFailed, Pause,
                       elementVars
  <1>12. CASE ChainCall \/ ChainReturn \/ SerializedEvent \/ SerializedStep \/ EosEvent
              \/ FlushStart \/ FlushStop \/ FlushRestart \/ Deactivate \/ JoinTask \/ Close \/ Wakeup
              \/ UNCHANGED vars
    BY <1>4, <1>12
    DEF ChainCall, ChainReturn, SerializedEvent, SerializedStep, EosEvent, FlushStart,
        FlushStop, FlushRestart, Deactivate, JoinTask, Close, Wakeup, vars, elementVars
  <1>13. QED
    BY <1>5, <1>6, <1>7, <1>8, <1>9, <1>10, <1>11, <1>12 DEF Next, LoopStep

(* A pad's segment is of an epoch that has begun.                          *)
SegmentsTo(e) == 0..e \cup {NoSegment, Upstream}
PadsTo(ps, e) == \A s \in Streams : ps[s].segment \in SegmentsTo(e)

(* Epochs only go up.                                                      *)
LEMMA EpochsGrow ==
  ASSUME EpochInv, [Next]_vars
  PROVE  av'.epoch \in {av.epoch, av.epoch + 1}
  <1>1. CASE UnknownPacket \/ Drop \/ PushPacket
    <2>1. av' = [av EXCEPT !.pos = @ + 1]
      BY <1>1 DEF UnknownPacket, Drop, PushPacket, KnownPacket
    <2>2. QED
      BY <2>1 DEF EpochInv, EpochTypeOK
  <1>2. CASE CachedSeek \/ \E s \in Seekers : SeekFinish(s)
    <2>1. av' = av \/ \E ps, k : SeekFrom(ps, k)
      BY <1>2 DEF CachedSeek, SeekFinish
    <2>2. QED
      BY <2>1, SeekMovesEpoch
  <1>3. CASE Activate
    BY <1>3 DEF Activate
  <1>4. CASE /\ ~(UnknownPacket \/ Drop \/ PushPacket \/ CachedSeek \/ Activate)
             /\ ~\E s \in Seekers : SeekFinish(s)
    <2>1. av' = av
      BY <1>4
      DEF Next, SendSeek, SeekStep, MarkFlushing, PushFlushStart, PauseTask, LockStream,
          LoopStep, LoopBegin, ReadWait, ReadPipe, ReadPull, AddPads, Open, ReadFailed, Pause,
          ChainCall, ChainReturn, SerializedEvent, SerializedStep, EosEvent, FlushStart,
          FlushStop, FlushRestart, Deactivate, JoinTask, Close, Wakeup, vars, elementVars
    <2>2. QED
      BY <2>1
  <1>5. QED
    BY <1>1, <1>2, <1>3, <1>4

LEMMA EventsTo ==
  ASSUME NEW ps \in [Streams -> PadT], NEW e \in Nat, PadsTo(ps, e),
         NEW event, event[1] = "segment" => event[2] \in SegmentsTo(e)
  PROVE  PadsTo(PushEvent(ps, event), e)
  <1> SUFFICES ASSUME NEW s \in Streams
               PROVE  PushEvent(ps, event)[s].segment \in SegmentsTo(e)
    BY DEF PadsTo
  <1>1. \/ PushEvent(ps, event)[s].segment \in {ps[s].segment, NoSegment}
        \/ event[1] = "segment" /\ PushEvent(ps, event)[s].segment = event[2]
    BY DEF PushEvent, PadT
  <1>2. QED
    BY <1>1 DEF PadsTo, SegmentsTo

LEMMA SeekTo ==
  ASSUME EpochInv, NEW ps \in [Streams -> PadT], PadsTo(ps, av.epoch),
         NEW k, SeekFrom(ps, k)
  PROVE  PadsTo(pads', av'.epoch)
  <1>1. av.epoch \in Nat
    BY DEF EpochInv, EpochTypeOK
  <1>2. /\ ResetFlows(ps) \in [Streams -> PadT]
        /\ \A s \in Streams : ResetFlows(ps)[s].segment = ps[s].segment
    BY DEF ResetFlows, PadT, Flows
  <1>3. \A e \in Nat : av.epoch <= e => PadsTo(ResetFlows(ps), e)
    BY <1>1, <1>2 DEF PadsTo, SegmentsTo
  <1>4. CASE pads' = ResetFlows(ps) /\ av' = av
    BY <1>1, <1>3, <1>4
  <1>5. CASE /\ av'.epoch = av.epoch + 1
             /\ pads' = PushEvent(ResetFlows(ps), <<"segment", av'.epoch>>)
    <2>1. av'.epoch \in Nat /\ av'.epoch \in SegmentsTo(av'.epoch)
          /\ PadsTo(ResetFlows(ps), av'.epoch)
      BY <1>1, <1>3, <1>5 DEF SegmentsTo
    <2>2. QED
      BY <1>2, <1>5, <2>1, EventsTo
  <1>6. QED
    BY <1>4, <1>5, SeekMovesEpoch

LEMMA PadsToStep ==
  EpochInv /\ PadsTo(pads, av.epoch) /\ [Next]_vars => PadsTo(pads', av'.epoch)
  <1> SUFFICES ASSUME EpochInv, PadsTo(pads, av.epoch), [Next]_vars
               PROVE  PadsTo(pads', av'.epoch)
    OBVIOUS
  <1>1. /\ av.epoch \in Nat /\ av'.epoch \in Nat /\ av.epoch <= av'.epoch
        /\ pads \in [Streams -> PadT] /\ segment.epoch = av.epoch
    BY EpochsGrow DEF EpochInv, EpochTypeOK
  <1>2. \A ps : PadsTo(ps, av.epoch) => PadsTo(ps, av'.epoch)
    BY <1>1 DEF PadsTo, SegmentsTo
  <1>3. CASE \A s \in Streams : pads'[s].segment \in {pads[s].segment, NoSegment}
    BY <1>2, <1>3 DEF PadsTo, SegmentsTo
  <1>4. ASSUME NEW event, pads' = PushEvent(pads, event),
               event[1] = "segment" => event[2] = Upstream
        PROVE  PadsTo(pads', av'.epoch)
    BY <1>1, <1>2, <1>4, EventsTo DEF SegmentsTo
  <1>5. CASE FlushStart \/ FlushStop \/ Pause \/ \E s \in Seekers : PushFlushStart(s)
    <2>1. \/ pads' = pads \/ pads' = PushEvent(pads, <<"flush_start">>)
          \/ pads' = PushEvent(pads, <<"flush_stop">>) \/ pads' = PushEvent(pads, <<"eos">>)
      BY <1>5 DEF FlushStart, FlushStop, Pause, PushFlushStart
    <2>2. QED
      BY <1>3, <1>4, <2>1
  <1>6. CASE SerializedStep
    <2>1. pads' = pads \/ pads' = PushEvent(pads, <<"segment", Upstream>>)
      BY <1>6 DEF SerializedStep
    <2>2. QED
      BY <1>3, <1>4, <2>1
  <1>7. ASSUME NEW s \in Seekers, SeekFinish(s) PROVE PadsTo(pads', av'.epoch)
    <2>1. CASE pads' = pads
      BY <1>3, <2>1
    <2>2. CASE pads' # pads
      <3>1. PICK k : SeekFrom(IF k.flush THEN PushEvent(pads, <<"flush_stop">>) ELSE pads, k)
        BY <1>7, <2>2 DEF SeekFinish
      <3>2. /\ PushEvent(pads, <<"flush_stop">>) \in [Streams -> PadT]
            /\ PadsTo(PushEvent(pads, <<"flush_stop">>), av.epoch)
        BY <1>1, FlushStops, EventsTo DEF EpochInv
      <3>3. PICK ps \in [Streams -> PadT] : PadsTo(ps, av.epoch) /\ SeekFrom(ps, k)
        BY <1>1, <3>1, <3>2
      <3>4. QED
        BY <3>3, SeekTo
    <2>3. QED
      BY <2>1, <2>2
  <1>8. CASE CachedSeek
    <2> DEFINE started == PushEvent(pads, <<"flush_start">>)
    <2>1. PICK k : SeekFrom(IF k.flush THEN PushEvent(started, <<"flush_stop">>) ELSE pads, k)
      BY <1>8 DEF CachedSeek
    <2>2. /\ started \in [Streams -> PadT] /\ PadsFit(streams, started, av.epoch)
          /\ PadsTo(started, av.epoch)
      BY <1>1, FlushStartsAndEnds, EventsTo DEF EpochInv
    <2>3. /\ PushEvent(started, <<"flush_stop">>) \in [Streams -> PadT]
          /\ PadsTo(PushEvent(started, <<"flush_stop">>), av.epoch)
      <3> HIDE DEF started
      <3>1. QED
        BY <1>1, <2>2, FlushStops, EventsTo DEF EpochInv
    <2>4. PICK ps \in [Streams -> PadT] : PadsTo(ps, av.epoch) /\ SeekFrom(ps, k)
      BY <1>1, <2>1, <2>3
    <2>5. QED
      BY <2>4, SeekTo
  <1>9. CASE AddPads
    BY <1>3, <1>9 DEF AddPads, NewPad
  <1>18. CASE Open
    <2>1. \/ pads' = pads
          \/ \E id \in {Upstream, av.epoch} : pads' = PushEvent(pads, <<"segment", id>>)
      BY <1>1, <1>18 DEF Open
    <2>2. Upstream \in SegmentsTo(av.epoch) /\ av.epoch \in SegmentsTo(av.epoch)
      BY <1>1 DEF SegmentsTo
    <2>3. QED
      BY <1>1, <1>2, <1>3, <2>1, <2>2, EventsTo
  <1>10. CASE Drop
    <2>1. \E s \in Known : pads' = [pads EXCEPT ![s].late = @ \/ ~streams[s].seen]
      BY <1>10 DEF Drop
    <2>2. QED
      BY <1>1, <1>3, <2>1, DemuxAssumption DEF PadT
  <1>11. CASE PushPacket
    <2>1. PICK s \in Known :
            \E flow : pads' = [pads EXCEPT ![s].flow = flow,
                                           ![s].late = @ \/ ~streams[s].seen]
      BY <1>11 DEF PushPacket
    <2>2. PICK flow : pads' = [pads EXCEPT ![s].flow = flow,
                                           ![s].late = @ \/ ~streams[s].seen]
      BY <2>1
    <2>3. QED
      BY <1>1, <1>3, <2>2, DemuxAssumption DEF PadT
  <1>12. CASE Deactivate
    BY <1>1, <1>3, <1>12 DEF Deactivate, PadT
  <1>13. CASE Close
    BY <1>3, <1>13 DEF Close, NewPad
  <1>14. ASSUME NEW s \in Seekers, SendSeek(s) \/ SeekStep(s),
                ~PushFlushStart(s), ~SeekFinish(s)
         PROVE  PadsTo(pads', av'.epoch)
    BY <1>3, <1>14 DEF SendSeek, SeekStep, MarkFlushing, PauseTask, LockStream
  <1>15. CASE LoopBegin \/ ReadWait \/ ReadPipe \/ ReadPull \/ UnknownPacket \/ ReadFailed
    BY <1>3, <1>15 DEF LoopBegin, ReadWait, ReadPipe, ReadPull, UnknownPacket, ReadFailed,
                       elementVars
  <1>16. CASE ChainCall \/ ChainReturn \/ SerializedEvent \/ EosEvent \/ Activate
              \/ JoinTask \/ Wakeup \/ UNCHANGED vars
    BY <1>3, <1>16 DEF ChainCall, ChainReturn, SerializedEvent, EosEvent, Activate,
                       JoinTask, Wakeup, vars, elementVars
  <1>19. CASE FlushRestart
    BY <1>3, <1>19 DEF FlushRestart
  <1>20. QED
    BY <1>5, <1>6, <1>7, <1>8, <1>9, <1>10, <1>11, <1>12, <1>13, <1>14, <1>15, <1>16,
       <1>18, <1>19
    DEF Next, LoopStep

TypeInv ==
  PipeInv /\ StateInv /\ RangeInv /\ CountInv /\ PadsTo(pads, av.epoch)

LEMMA TypeInit == Init => TypeInv
  <1> SUFFICES ASSUME Init PROVE TypeInv
    OBVIOUS
  <1> USE DEF Init
  <1>1. PipeInv
    BY PipeAssumption DEF PipeInit, PipeInv
  <1>2. StateInv
    BY DemuxAssumption DEF StateInv
  <1>3. RangeInv
    BY DemuxAssumption DEF RangeInv, InitialSegment
  <1>4. CountInv
    BY DoneIsFinite DEF CountInv, Pending
  <1>5. PadsTo(pads, av.epoch)
    BY DEF PadsTo, SegmentsTo, NewPad
  <1>6. QED
    BY <1>1, <1>2, <1>3, <1>4, <1>5 DEF TypeInv

LEMMA TypeStep == WaitInv /\ EpochInv /\ TypeInv /\ [Next]_vars => TypeInv'
  <1>1. PadsTo(pads, av.epoch)' <=> PadsTo(pads', av'.epoch)
    BY DEF PadsTo, SegmentsTo
  <1>2. QED
    BY <1>1, PipeStep, StateStep, RangeStep, CountStep, PadsToStep DEF TypeInv

(* Every variable keeps its type: the pipe holds no more than upstream     *)
(* brought, a read asks for what it may, and no segment is of an epoch     *)
(* that never began.                                                       *)
THEOREM TypeCorrect == Spec => []TypeOK
  <1>1. WaitInv /\ EpochInv /\ TypeInv => TypeOK
    <2> SUFFICES ASSUME WaitInv, EpochInv, TypeInv PROVE TypeOK
      OBVIOUS
    <2>1. PipeTypeOK
      <3>1. /\ ffpipe \in PipeT /\ ffpipe.available \in 0..MaxCalls
            /\ ffpipe.needed \in 0..MaxRead
        BY PipeAssumption DEF WaitInv, PipeT, TypeInv, PipeInv
      <3>2. QED
        BY <3>1 DEF WaitInv, TypeInv, PipeInv, PipeTypeOK, PipeT
    <2>2. av.epoch \in Nat /\ 0..av.epoch \subseteq Epochs
      <3>1. /\ av.epoch \in Nat /\ starts \in 0..MaxActivations
            /\ av.epoch + Pending <= starts + Cardinality(Done)
        BY DEF EpochInv, EpochTypeOK, TypeInv, StateInv, CountInv
      <3>2. Pending \in {0, 1}
        BY DEF Pending
      <3>3. av.epoch <= Cardinality(Seekers) + MaxActivations
        BY <3>1, <3>2, DoneIsFinite, DemuxAssumption
      <3>4. QED
        BY <3>1, <3>3, DoneIsFinite, DemuxAssumption DEF Epochs
    <2>3. pads \in [Streams -> [flushing : BOOLEAN, segment : SegmentIds,
                                eos : BOOLEAN, flow : Flows, late : BOOLEAN]]
      <3>1. pads \in [Streams -> PadT]
        BY DEF EpochInv, EpochTypeOK
      <3>2. \A s \in Streams : pads[s].segment \in SegmentIds
        BY <2>2 DEF TypeInv, PadsTo, SegmentsTo, SegmentIds
      <3>3. QED
        BY <3>1, <3>2 DEF PadT
    <2>4. segment \in [epoch : Epochs, stop : 0..FileLen, segment : BOOLEAN]
      <3>1. segment = [epoch |-> av.epoch, stop |-> segment.stop,
                       segment |-> segment.segment]
        BY DEF EpochInv, EpochTypeOK
      <3>2. av.epoch \in Epochs /\ segment.stop \in 0..FileLen /\ segment.segment \in BOOLEAN
        BY <2>2 DEF TypeInv, RangeInv
      <3>3. QED
        BY <3>1, <3>2
    <2>5. streams \in [Streams -> [seen : BOOLEAN, discont : BOOLEAN, eos : BOOLEAN,
                                   ts : BOOLEAN]]
      BY DEF EpochInv, EpochTypeOK, StreamT
    <2>6. QED
      BY <2>1, <2>3, <2>4, <2>5 DEF TypeOK, TypeInv, StateInv, RangeInv
  <1>2. QED
    BY <1>1, LockInit, LockStep, WaitInit, WaitStep, EpochInit, EpochStep, TypeInit,
       TypeStep, PTL DEF Spec
=============================================================================
