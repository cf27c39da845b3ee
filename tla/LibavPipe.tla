----------------------------- MODULE LibavPipe -----------------------------
(***************************************************************************)
(* The pipe between the thread that brings a demuxer its data and the task *)
(* that drives libavformat (GstFFMpegPipe of gstavprotocol.h).  All fields *)
(* are read and written under tlock, and one condition variable serves     *)
(* both directions, woken by g_cond_signal, that is for one waiter only.   *)
(* A critical section is one action; where it waits, it ends, and what     *)
(* follows the wait is another.                                            *)
(*                                                                         *)
(* Data are counted in units; what they hold is libavformat's affair.      *)
(***************************************************************************)
EXTENDS Naturals, FiniteSets

CONSTANTS
  MaxRead,  \* libavformat reads 1..MaxRead units at a time
  MaxCalls  \* bound: calls of the upstream thread

ASSUME PipeAssumption == MaxRead \in Nat \ {0} /\ MaxCalls \in Nat

VARIABLES
  ffpipe,  \* GstFFMpegPipe: available (in the adapter), needed, eos, srcresult
  cond,    \* the threads that wait on cond and were not signalled yet
  up,      \* the upstream thread: idle, or inside "chain", "serialized"
           \* or "flush_stop"
  size,    \* what the read in progress asked for; 0 when there is none
  calls    \* calls the upstream thread has made

pipeVars == <<ffpipe, cond, up, size, calls>>

Flows == {"ok", "eos", "flushing", "not_linked", "error"}

PipeTypeOK ==
  /\ ffpipe \in [available : 0..MaxCalls, needed : 0..MaxRead,
                 eos : BOOLEAN, srcresult : Flows]
  /\ cond \subseteq {"loop", "up"}
  /\ up \in {"idle", "chain", "serialized", "flush_stop"}
  /\ size \in 0..MaxRead
  /\ calls \in 0..MaxCalls

PipeInit ==
  /\ ffpipe = [available |-> 0, needed |-> 0, eos |-> FALSE, srcresult |-> "ok"]
  /\ cond = {}
  /\ up = "idle"
  /\ size = 0
  /\ calls = 0

(* g_cond_signal: the waiters that may be left. *)
Signalled == IF cond = {} THEN {{}} ELSE {cond \ {t} : t \in cond}

(* A wait may also return for no reason; every wait is in a loop. *)
SpuriousWakeup ==
  /\ \E t \in cond : cond' = cond \ {t}
  /\ UNCHANGED <<ffpipe, up, size, calls>>

Call == up = "idle" /\ calls < MaxCalls /\ calls' = calls + 1

-----------------------------------------------------------------------------
(* gst_ffmpegdemux_chain.  It keeps its caller until the task wants more    *)
(* than there is.                                                          *)

ChainMayGo(p) == p.available < p.needed

(* The loop of the chain function, from its condition to its wait. *)
ChainWaits(p) ==
  IF ChainMayGo(p) THEN cond' = cond /\ up' = "idle"
                   ELSE /\ \E c \in Signalled : cond' = c \cup {"up"}
                        /\ up' = "chain"

ChainRefused == ffpipe.eos \/ ffpipe.srcresult # "ok"

ChainIgnore ==
  /\ Call
  /\ ChainRefused
  /\ UNCHANGED <<ffpipe, cond, up, size>>

Chain ==
  /\ Call
  /\ ~ChainRefused
  /\ ffpipe' = [ffpipe EXCEPT !.available = @ + 1]
  /\ ChainWaits(ffpipe')
  /\ UNCHANGED size

ChainWoken ==
  /\ up = "chain" /\ "up" \notin cond
  /\ IF ffpipe.srcresult # "ok" THEN cond' = cond /\ up' = "idle"
                                ELSE ChainWaits(ffpipe)
  /\ UNCHANGED <<ffpipe, size, calls>>

-----------------------------------------------------------------------------
(* gst_ffmpegdemux_sink_event *)

(* A serialized event on an opened demuxer waits until the task wants      *)
(* data.  Whether it is opened was read before, without tlock.             *)
SerializedCall == Call /\ up' = "serialized" /\ UNCHANGED <<ffpipe, cond, size>>

SerializedWaits ==
  /\ up = "serialized" /\ "up" \notin cond
  /\ IF ffpipe.needed = 0 THEN cond' = cond \cup {"up"} /\ up' = up
                          ELSE cond' = cond /\ up' = "idle"
  /\ UNCHANGED <<ffpipe, size, calls>>

PipeEos ==
  /\ Call
  /\ ffpipe' = [ffpipe EXCEPT !.eos = TRUE]
  /\ cond' \in Signalled
  /\ UNCHANGED <<up, size>>

PipeFlushStart ==
  /\ ffpipe' = [ffpipe EXCEPT !.srcresult = "flushing"]
  /\ cond' \in Signalled
  /\ UNCHANGED <<up, size, calls>>

FlushStopCall ==
  /\ up = "idle" /\ up' = "flush_stop"
  /\ UNCHANGED <<ffpipe, cond, size, calls>>

PipeFlushStop ==
  /\ up = "flush_stop" /\ up' = "idle"
  /\ ffpipe' = [ffpipe EXCEPT !.available = 0, !.srcresult = "ok"]
  /\ UNCHANGED <<cond, size, calls>>

-----------------------------------------------------------------------------
(* The task's side *)

PipeHas(n) == ffpipe.available >= n \/ ffpipe.eos

(* Not the code: the task waits and the chain function is not told. *)
SilentPipeWait(n) ==
  /\ size = 0 \/ (size = n /\ "loop" \notin cond)
  /\ ~PipeHas(n)
  /\ ffpipe' = [ffpipe EXCEPT !.needed = n]
  /\ size' = n
  /\ cond' = cond \cup {"loop"}
  /\ UNCHANGED <<up, calls>>

(* gst_ffmpeg_pipe_read, when there is too little: says what is needed,    *)
(* and waits.                                                              *)
PipeWait(n) ==
  /\ size = 0 \/ (size = n /\ "loop" \notin cond)
  /\ ~PipeHas(n)
  /\ ffpipe' = [ffpipe EXCEPT !.needed = n]
  /\ size' = n
  /\ \E c \in Signalled : cond' = c \cup {"loop"}
  /\ UNCHANGED <<up, calls>>

(* Not the code: the end is not noticed. *)
GreedyGot(n) == n

Got(n) == IF ffpipe.available < n THEN ffpipe.available ELSE n

(* gst_ffmpeg_pipe_read, when there is enough or no more will come. *)
PipeGet(n) ==
  /\ size = 0 \/ (size = n /\ "loop" \notin cond)
  /\ PipeHas(n)
  /\ ffpipe' = [ffpipe EXCEPT
                  !.available = @ - Got(n),
                  !.needed = IF Got(n) > 0 THEN 0 ELSE @]
  /\ size' = 0
  /\ UNCHANGED <<cond, up, calls>>

(* gst_ffmpegdemux_loop, pause: the task tells its result, and no one is   *)
(* woken.                                                                  *)
PipePause(ret) ==
  /\ ffpipe' = [ffpipe EXCEPT !.srcresult = ret]
  /\ UNCHANGED <<cond, up, size, calls>>

(* gst_ffmpegdemux_sink_activate_push *)
PipeActivate ==
  /\ ffpipe' = [ffpipe EXCEPT !.eos = FALSE, !.srcresult = "ok", !.needed = 0]
  /\ UNCHANGED <<cond, up, size, calls>>

(* Not the code: nothing is signalled. *)
SilentDeactivate ==
  /\ ffpipe' = [ffpipe EXCEPT !.srcresult = "flushing", !.eos = TRUE]
  /\ UNCHANGED <<cond, up, size, calls>>

PipeDeactivate ==
  /\ ffpipe' = [ffpipe EXCEPT !.srcresult = "flushing", !.eos = TRUE]
  /\ cond' \in Signalled
  /\ UNCHANGED <<up, size, calls>>

PipeClear ==
  /\ ffpipe' = [ffpipe EXCEPT !.available = 0]
  /\ UNCHANGED <<cond, up, size, calls>>
=============================================================================
