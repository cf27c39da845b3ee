-------------------------- MODULE FusionThreadsProofs --------------------------
(***************************************************************************)
(* Proofs about FusionThreads, for any number of threads, calls, streams   *)
(* and allocations: types, what the mutex of unregister_stream protects,   *)
(* whose outputs a context may use, and when its two sources are together. *)
(***************************************************************************)
EXTENDS FusionThreads, TLAPS

LEMMA NullFacts ==
  /\ NULL \notin Threads /\ NULL \notin Streams
  /\ NULL \notin Contexts /\ NULL \notin Pipelines
  /\ Tracks \subseteq Kinds
BY ThreadsAssumption

LEMMA ContainsLines ==
  ASSUME NEW b \in ContainsAt
  PROVE
    \/ b[1] = "76" /\ b[2] = "78" /\ b[3] = "done"
    \/ b[1] = "415" /\ b[2] = "421" /\ b[3] = "done"
    \/ b[1] = "606" /\ b[2] = "608" /\ b[3] = "done"
    \/ b[1] = "rtsp 64" /\ b[2] = "rtsp 66" /\ b[3] = "done"
    \/ b[1] = "rtsp 82" /\ b[2] = "rtsp 111" /\ b[3] = "done"
    \/ b[1] = "662" /\ b[2] = "669" /\ b[3] = "next"
    \/ b[1] = "741" /\ b[2] = "744" /\ b[3] = "774"
<1>1. \/ b = <<"76", "78", "done">>
      \/ b = <<"415", "421", "done">>
      \/ b = <<"606", "608", "done">>
      \/ b = <<"rtsp 64", "rtsp 66", "done">>
      \/ b = <<"rtsp 82", "rtsp 111", "done">>
      \/ b = <<"662", "669", "next">>
      \/ b = <<"741", "744", "774">>
  BY DEF ContainsAt
<1>2. CASE b = <<"76", "78", "done">>
  BY <1>2
<1>3. CASE b = <<"415", "421", "done">>
  BY <1>3
<1>4. CASE b = <<"606", "608", "done">>
  BY <1>4
<1>5. CASE b = <<"rtsp 64", "rtsp 66", "done">>
  BY <1>5
<1>6. CASE b = <<"rtsp 82", "rtsp 111", "done">>
  BY <1>6
<1>7. CASE b = <<"662", "669", "next">>
  BY <1>7
<1>8. CASE b = <<"741", "744", "774">>
  BY <1>8
<1> QED
  BY <1>1, <1>2, <1>3, <1>4, <1>5, <1>6, <1>7, <1>8

LEMMA LookupLines ==
  ASSUME NEW b \in LookupAt
  PROVE
    \/ b[1] = "78" /\ b[2] = "79"
    \/ b[1] = "421" /\ b[2] = "217"
    \/ b[1] = "608" /\ b[2] = "610"
    \/ b[1] = "rtsp 66" /\ b[2] = "rtsp 68"
    \/ b[1] = "rtsp 111" /\ b[2] = "rtsp 118"
    \/ b[1] = "669" /\ b[2] = "674"
    \/ b[1] = "744" /\ b[2] = "745"
<1>1. \/ b = <<"78", "79">>
      \/ b = <<"421", "217">>
      \/ b = <<"608", "610">>
      \/ b = <<"rtsp 66", "rtsp 68">>
      \/ b = <<"rtsp 111", "rtsp 118">>
      \/ b = <<"669", "674">>
      \/ b = <<"744", "745">>
  BY DEF LookupAt
<1>2. CASE b = <<"78", "79">>
  BY <1>2
<1>3. CASE b = <<"421", "217">>
  BY <1>3
<1>4. CASE b = <<"608", "610">>
  BY <1>4
<1>5. CASE b = <<"rtsp 66", "rtsp 68">>
  BY <1>5
<1>6. CASE b = <<"rtsp 111", "rtsp 118">>
  BY <1>6
<1>7. CASE b = <<"669", "674">>
  BY <1>7
<1>8. CASE b = <<"744", "745">>
  BY <1>8
<1> QED
  BY <1>1, <1>2, <1>3, <1>4, <1>5, <1>6, <1>7, <1>8

(* The lines of the two kinds of reads are lines. *)
LEMMA ReadsAreLines ==
  {"76", "415", "606", "rtsp 64", "rtsp 82", "662", "78", "421", "608", "rtsp 66",
   "rtsp 111", "669"} \subseteq Lines
<1>1. \A b \in ContainsAt : b[1] \in Reads
  BY DEF Reads
<1>2. \A b \in LookupAt : b[1] \in Reads
  BY DEF Reads
<1>3. /\ <<"76", "78", "done">> \in ContainsAt /\ <<"415", "421", "done">> \in ContainsAt
      /\ <<"606", "608", "done">> \in ContainsAt
      /\ <<"rtsp 64", "rtsp 66", "done">> \in ContainsAt
      /\ <<"rtsp 82", "rtsp 111", "done">> \in ContainsAt
      /\ <<"662", "669", "next">> \in ContainsAt
  BY DEF ContainsAt
<1>4. /\ <<"78", "79">> \in LookupAt /\ <<"421", "217">> \in LookupAt
      /\ <<"608", "610">> \in LookupAt /\ <<"rtsp 66", "rtsp 68">> \in LookupAt
      /\ <<"rtsp 111", "rtsp 118">> \in LookupAt /\ <<"669", "674">> \in LookupAt
  BY DEF LookupAt
<1>5. /\ <<"76", "78", "done">>[1] = "76" /\ <<"415", "421", "done">>[1] = "415"
      /\ <<"606", "608", "done">>[1] = "606"
      /\ <<"rtsp 64", "rtsp 66", "done">>[1] = "rtsp 64"
      /\ <<"rtsp 82", "rtsp 111", "done">>[1] = "rtsp 82"
      /\ <<"662", "669", "next">>[1] = "662"
  OBVIOUS
<1>6. /\ <<"78", "79">>[1] = "78" /\ <<"421", "217">>[1] = "421"
      /\ <<"608", "610">>[1] = "608" /\ <<"rtsp 66", "rtsp 68">>[1] = "rtsp 66"
      /\ <<"rtsp 111", "rtsp 118">>[1] = "rtsp 111" /\ <<"669", "674">>[1] = "669"
  OBVIOUS
<1>7. {"76", "415", "606", "rtsp 64", "rtsp 82", "662"} \subseteq Reads
  BY <1>1, <1>3, <1>5
<1>8. {"78", "421", "608", "rtsp 66", "rtsp 111", "669"} \subseteq Reads
  BY <1>2, <1>4, <1>6
<1> QED
  BY <1>7, <1>8 DEF Lines

LEMMA ReadLines ==
  /\ \A b \in ContainsAt :
       /\ b[1] # "start" /\ b[2] \in Lines /\ b[3] \in Lines
       /\ b[2] \notin Checked /\ b[3] \notin Checked
       /\ b[2] # "745" /\ b[3] \notin {"744", "745"}
       /\ b[2] \in Locked \/ b[3] \in Locked => b[1] = "741"
  /\ \A b \in LookupAt :
       /\ b[1] # "start" /\ b[2] \in Lines \ {"744"}
       /\ b[2] \notin Checked
       /\ b[2] \in Locked => b[1] = "744" /\ b[2] = "745"
<1>1. \A b \in LookupAt : b[2] \in Uses
  BY DEF Uses
<1>2. ASSUME NEW b \in ContainsAt
      PROVE  /\ b[1] # "start" /\ b[2] \in Lines /\ b[3] \in Lines
             /\ b[2] \notin Checked /\ b[3] \notin Checked
             /\ b[2] # "745" /\ b[3] \notin {"744", "745"}
             /\ b[2] \in Locked \/ b[3] \in Locked => b[1] = "741"
  BY ReadsAreLines, ContainsLines DEF Lines, Locked, Checked
<1>3. ASSUME NEW b \in LookupAt
      PROVE  /\ b[1] # "start" /\ b[2] \in Lines \ {"744"}
             /\ b[2] \notin Checked
             /\ b[2] \in Locked => b[1] = "744" /\ b[2] = "745"
  BY <1>1, LookupLines DEF Lines, Locked, Checked
<1> QED
  BY <1>2, <1>3

-----------------------------------------------------------------------------
(* The types of what the threads share. *)
SharedOK ==
  /\ table \in [Streams -> Contexts \cup {NULL}]
  /\ writing \subseteq Threads
  /\ ctx \in [Contexts -> StreamMapT]
  /\ pipe \in [Pipelines -> PipelineT]
  /\ mounts \in [Streams -> FactoryT]
  /\ mutex \in Threads \cup {NULL}
  /\ torn \in BOOLEAN
  /\ status \in {"running", "segv", "abort", "ub"}

(* A step of one thread, by what ThreadsInv asks of its line and locals. *)
LEMMA ThreadSteps ==
  ASSUME ThreadsInv, NEW t \in Threads, NEW to \in Lines, NEW l \in LocalsT,
         pc' = [pc EXCEPT ![t] = to], me' = [me EXCEPT ![t] = l],
         l.stream \in Streams,
         to \in Checked => l.ctx # NULL,
         to \in Locked => mutex' = t,
         \A u \in Threads \ {t} : mutex = u => mutex' = u,
         to = "744" => table'[l.stream] # NULL,
         \A u \in Threads \ {t} : pc[u] = "744" => table'[me[u].stream] # NULL,
         torn => torn',
         to = "745" /\ l.ctx = NULL => torn',
         SharedOK'
  PROVE  ThreadsInv'
<1>1. /\ pc' \in [Threads -> Lines] /\ pc'[t] = to
      /\ \A u \in Threads \ {t} : pc'[u] = pc[u]
  BY DEF ThreadsInv, TypeOK
<1>2. /\ me' \in [Threads -> LocalsT] /\ me'[t] = l
      /\ \A u \in Threads \ {t} : me'[u] = me[u]
  BY DEF ThreadsInv, TypeOK
<1>3. TypeOK'
  BY <1>1, <1>2 DEF TypeOK, SharedOK
<1>4. Given'
  BY <1>1, <1>2 DEF ThreadsInv, Given
<1>5. ContextsChecked'
  BY <1>1, <1>2 DEF ThreadsInv, ContextsChecked, HasContext
<1>6. Holders'
  BY <1>1, <1>2 DEF ThreadsInv, Holders
<1>7. EntryStays'
  BY <1>1, <1>2 DEF ThreadsInv, EntryStays
<1>8. UnregisterSafe'
  BY <1>1, <1>2 DEF ThreadsInv, UnregisterSafe
<1> QED
  BY <1>3, <1>4, <1>5, <1>6, <1>7, <1>8 DEF ThreadsInv

(* A step that leaves the table and the mutex alone. *)
LEMMA Moves ==
  ASSUME ThreadsInv, NEW t \in Threads, NEW from, NEW to \in Lines \ {"744", "745"},
         NEW l \in LocalsT,
         Step(t, from, to), me' = [me EXCEPT ![t] = l], l.stream \in Streams,
         UNCHANGED <<table, mutex>>, torn => torn',
         to \in Checked => l.ctx # NULL,
         to \in Locked => from \in Locked,
         SharedOK'
  PROVE  ThreadsInv'
<1>1. pc[t] = from /\ pc' = [pc EXCEPT ![t] = to]
  BY DEF Step
<1>2. to \in Locked => mutex' = t
  BY <1>1 DEF ThreadsInv, Holders
<1>3. \A u \in Threads \ {t} : pc[u] = "744" => table'[me[u].stream] # NULL
  BY DEF ThreadsInv, EntryStays
<1> QED
  BY <1>1, <1>2, <1>3, ThreadSteps

(* ... and the thread's locals. *)
LEMMA Passes ==
  ASSUME ThreadsInv, NEW t \in Threads, NEW from, NEW to \in Lines \ {"744", "745"},
         Step(t, from, to), from # "start",
         UNCHANGED <<table, mutex, me, torn>>,
         to \in Checked => HasContext(t),
         to \in Locked => from \in Locked,
         SharedOK'
  PROVE  ThreadsInv'
<1>1. pc[t] = from
  BY DEF Step
<1>2. me[t] \in LocalsT /\ me[t].stream \in Streams /\ me' = [me EXCEPT ![t] = me[t]]
  BY <1>1 DEF ThreadsInv, TypeOK, Given
<1> QED
  BY <1>2, Moves DEF HasContext

(* The locals and the context of a thread at a line. *)
LEMMA Locals ==
  ASSUME ThreadsInv, NEW t \in Threads
  PROVE  /\ me[t] \in LocalsT /\ me[t].kind \in Kinds
         /\ pc[t] # "start" => me[t].stream \in Streams
         /\ pc[t] \in Checked => HasContext(t)
         /\ me[t].ctx \in Contexts \cup {NULL}
         /\ HasContext(t) => me[t].ctx \in Contexts /\ Mine(t) \in StreamMapT
         /\ pc[t] # "start" => Found(t) \subseteq Contexts \cup {NULL}
BY DEF ThreadsInv, TypeOK, Given, LocalsT, HasContext, Mine, Found, ContextsChecked

LEMMA SharedTypes == ThreadsInv => SharedOK
BY DEF ThreadsInv, TypeOK, SharedOK

(* A process that dies keeps everything but its status. *)
LEMMA DiesInv ==
  ASSUME ThreadsInv, NEW t \in Threads, NEW from, NEW how \in {"segv", "abort", "ub"},
         Dies(t, from, how)
  PROVE  ThreadsInv'
BY DEF Dies, shared, ThreadsInv, TypeOK, Given, ContextsChecked, HasContext, Holders,
       EntryStays, UnregisterSafe

-----------------------------------------------------------------------------
(* Types of what the lines write. *)
LEMMA NewTypes ==
  /\ NoLocals \in LocalsT /\ NoFactory \in FactoryT
  /\ \A s \in Streams \cup {NULL} : NewContext(s) \in StreamMapT
  /\ \A s \in Streams, c \in Contexts, tracks \in SUBSET Kinds, mounted \in BOOLEAN :
       Announced(s, c, tracks, mounted) \in StreamMapT
  /\ \A state \in {"free", "null", "playing"}, c \in Contexts \cup {NULL},
        kinds \in SUBSET Kinds : NewPipeline(state, c, kinds) \in PipelineT
<1>1. NoLocals \in LocalsT /\ NoFactory \in FactoryT
  BY DEF NoLocals, LocalsT, NoFactory, FactoryT, Kinds
<1>2. \A s \in Streams \cup {NULL} : NewContext(s) \in StreamMapT
  BY DEF NewContext, StreamMapT
<1>3. ASSUME NEW s \in Streams, NEW c \in Contexts, NEW tracks \in SUBSET Kinds,
             NEW mounted \in BOOLEAN
      PROVE  Announced(s, c, tracks, mounted) \in StreamMapT
  <2> DEFINE filter == "video" \in tracks
             caps   == IF mounted THEN tracks ELSE {}
             r1 == [NewContext(s) EXCEPT !.par = tracks]
             r2 == [r1 EXCEPT !.filter = filter]
             r3 == [r2 EXCEPT !.caps = caps]
             r4 == [r3 EXCEPT !.rtsp_mountpoint = mounted]
             r5 == [r4 EXCEPT !.lineage = {c}]
  <2>1. filter \in BOOLEAN /\ caps \in SUBSET Kinds
    OBVIOUS
  <2>2. Announced(s, c, tracks, mounted) = r5
    BY DEF Announced
  <2> HIDE DEF filter, caps
  <2>3. r1 \in StreamMapT
    BY <1>2 DEF StreamMapT
  <2> HIDE DEF r1
  <2>4. r2 \in StreamMapT
    BY <2>1, <2>3 DEF StreamMapT
  <2> HIDE DEF r2
  <2>5. r3 \in StreamMapT
    BY <2>1, <2>4 DEF StreamMapT
  <2> HIDE DEF r3
  <2>6. r4 \in StreamMapT
    BY <2>5 DEF StreamMapT
  <2> HIDE DEF r4
  <2> QED
    BY <2>2, <2>6 DEF StreamMapT
<1>4. \A state \in {"free", "null", "playing"}, c \in Contexts \cup {NULL},
        kinds \in SUBSET Kinds : NewPipeline(state, c, kinds) \in PipelineT
  BY DEF NewPipeline, PipelineT
<1> QED
  BY <1>1, <1>2, <1>3, <1>4

(* What a field of a record is replaced by. *)
LEMMA LocalFields ==
  ASSUME NEW l \in LocalsT
  PROVE  /\ \A c \in Contexts \cup {NULL} :
              LET m == [l EXCEPT !.ctx = c]
              IN  /\ m \in LocalsT /\ m.ctx = c /\ m.stream = l.stream
                  /\ m.gen = l.gen /\ m.pipe = l.pipe
         /\ \A p \in Pipelines \cup {NULL} :
              LET m == [l EXCEPT !.pipe = p]
              IN  /\ m \in LocalsT /\ m.pipe = p /\ m.stream = l.stream
                  /\ m.ctx = l.ctx /\ m.gen = l.gen
BY DEF LocalsT

LEMMA ContextFields ==
  ASSUME NEW r \in StreamMapT
  PROVE  /\ \A k \in Kinds : [r EXCEPT !.par = @ \cup {k}] \in StreamMapT
         /\ [r EXCEPT !.filter = TRUE] \in StreamMapT
         /\ \A caps \in SUBSET Kinds : [r EXCEPT !.caps = caps] \in StreamMapT
         /\ \A p \in Pipelines \cup {NULL}, b \in BOOLEAN :
              [r EXCEPT !.pipeline = p, !.contended = b] \in StreamMapT
         /\ \A k \in Kinds, p \in Pipelines : [r EXCEPT !.appsrc[k] = p] \in StreamMapT
         /\ [r EXCEPT !.pipeline_initialized = TRUE] \in StreamMapT
         /\ [r EXCEPT !.rtsp_mountpoint = TRUE] \in StreamMapT
         /\ \A l \in SUBSET Contexts : [r EXCEPT !.lineage = l] \in StreamMapT
<1>1. ASSUME NEW k \in Kinds, NEW p \in Pipelines
      PROVE  [r EXCEPT !.appsrc[k] = p] \in StreamMapT
  <2> DEFINE src == [r.appsrc EXCEPT ![k] = p]
  <2>1. [r EXCEPT !.appsrc[k] = p] = [r EXCEPT !.appsrc = src]
    BY DEF StreamMapT
  <2>2. src \in [Kinds -> Pipelines \cup {NULL}]
    BY DEF StreamMapT
  <2> HIDE DEF src
  <2> QED
    BY <2>1, <2>2 DEF StreamMapT
<1>2. ASSUME NEW p \in Pipelines \cup {NULL}, NEW b \in BOOLEAN
      PROVE  [r EXCEPT !.pipeline = p, !.contended = b] \in StreamMapT
  BY DEF StreamMapT
<1>3. TRUE \in BOOLEAN
  OBVIOUS
<1>4. /\ \A k \in Kinds : [r EXCEPT !.par = @ \cup {k}] \in StreamMapT
      /\ [r EXCEPT !.filter = TRUE] \in StreamMapT
      /\ \A caps \in SUBSET Kinds : [r EXCEPT !.caps = caps] \in StreamMapT
  BY <1>3 DEF StreamMapT
<1>5. /\ [r EXCEPT !.pipeline_initialized = TRUE] \in StreamMapT
      /\ [r EXCEPT !.rtsp_mountpoint = TRUE] \in StreamMapT
      /\ \A l \in SUBSET Contexts : [r EXCEPT !.lineage = l] \in StreamMapT
  BY <1>3 DEF StreamMapT
<1> QED
  BY <1>1, <1>2, <1>4, <1>5

LEMMA PipelineFields ==
  ASSUME NEW q \in PipelineT
  PROVE  /\ \A st \in {"free", "null", "playing"} :
              [q EXCEPT !.state = st] \in PipelineT
         /\ \A c \in Contexts : [q EXCEPT !.fed = @ \cup {c}] \in PipelineT
BY DEF PipelineT

(* One context, or one pipeline, replaced. *)
LEMMA ContextReplaced ==
  ASSUME ThreadsInv, NEW c \in Contexts, NEW r \in StreamMapT,
         ctx' = [ctx EXCEPT ![c] = r]
  PROVE  /\ ctx' \in [Contexts -> StreamMapT]
         /\ ctx'[c] = r
         /\ \A d \in Contexts \ {c} : ctx'[d] = ctx[d]
BY DEF ThreadsInv, TypeOK

LEMMA PipelineReplaced ==
  ASSUME ThreadsInv, NEW p \in Pipelines, NEW q \in PipelineT,
         pipe' = [pipe EXCEPT ![p] = q]
  PROVE  /\ pipe' \in [Pipelines -> PipelineT]
         /\ pipe'[p] = q
         /\ \A x \in Pipelines \ {p} : pipe'[x] = pipe[x]
BY DEF ThreadsInv, TypeOK

-----------------------------------------------------------------------------
(* What the steps do to the contexts and the pipelines. *)

(* The fields that the proofs follow stay, but for caps, which may come. *)
Plain ==
  /\ ctx' \in [Contexts -> StreamMapT]
  /\ \A c \in Contexts :
       /\ ctx'[c].stream = ctx[c].stream /\ ctx'[c].lineage = ctx[c].lineage
       /\ ctx'[c].pipeline = ctx[c].pipeline /\ ctx'[c].appsrc = ctx[c].appsrc
       /\ ctx'[c].contended = ctx[c].contended /\ ctx[c].caps \subseteq ctx'[c].caps

Kept(q, r) ==
  /\ r \in StreamMapT
  /\ r.stream = q.stream /\ r.lineage = q.lineage /\ r.pipeline = q.pipeline
  /\ r.appsrc = q.appsrc /\ q.caps \subseteq r.caps
  /\ r.contended = q.contended

LEMMA FieldsKept ==
  ASSUME NEW q \in StreamMapT
  PROVE  /\ \A k \in Kinds : Kept(q, [q EXCEPT !.par = @ \cup {k}])
         /\ Kept(q, [q EXCEPT !.filter = TRUE])
         /\ \A caps \in SUBSET Kinds : q.caps \subseteq caps => Kept(q, [q EXCEPT !.caps = caps])
         /\ Kept(q, [q EXCEPT !.rtsp_mountpoint = TRUE])
         /\ Kept(q, [q EXCEPT !.pipeline_initialized = TRUE])
<1>1. ASSUME NEW k \in Kinds PROVE Kept(q, [q EXCEPT !.par = @ \cup {k}])
  <2> DEFINE r == [q EXCEPT !.par = @ \cup {k}]
  <2>1. r \in StreamMapT /\ r.contended = q.contended
    BY DEF StreamMapT
  <2>2. /\ r.stream = q.stream /\ r.lineage = q.lineage /\ r.pipeline = q.pipeline
        /\ r.appsrc = q.appsrc /\ q.caps \subseteq r.caps
    BY DEF StreamMapT
  <2> HIDE DEF r
  <2> Kept(q, r)
    BY <2>1, <2>2 DEF Kept
  <2> QED
    BY DEF r
<1>2. Kept(q, [q EXCEPT !.filter = TRUE])
  <2> DEFINE r == [q EXCEPT !.filter = TRUE]
  <2>1. r \in StreamMapT
    BY ContextFields
  <2>2. r.contended = q.contended
    BY DEF StreamMapT
  <2>3. /\ r.stream = q.stream /\ r.lineage = q.lineage /\ r.pipeline = q.pipeline
        /\ r.appsrc = q.appsrc /\ q.caps \subseteq r.caps
    BY DEF StreamMapT
  <2> HIDE DEF r
  <2> Kept(q, r)
    BY <2>1, <2>2, <2>3 DEF Kept
  <2> QED
    BY DEF r
<1>3. ASSUME NEW caps \in SUBSET Kinds, q.caps \subseteq caps
      PROVE  Kept(q, [q EXCEPT !.caps = caps])
  <2> DEFINE r == [q EXCEPT !.caps = caps]
  <2>1. r \in StreamMapT /\ r.contended = q.contended
    BY DEF StreamMapT
  <2>2. /\ r.stream = q.stream /\ r.lineage = q.lineage /\ r.pipeline = q.pipeline
        /\ r.appsrc = q.appsrc /\ q.caps \subseteq r.caps
    BY <1>3 DEF StreamMapT
  <2> HIDE DEF r
  <2> Kept(q, r)
    BY <2>1, <2>2 DEF Kept
  <2> QED
    BY DEF r
<1>4. Kept(q, [q EXCEPT !.rtsp_mountpoint = TRUE])
  <2> DEFINE r == [q EXCEPT !.rtsp_mountpoint = TRUE]
  <2>1. r \in StreamMapT
    BY ContextFields
  <2>2. r.contended = q.contended
    BY DEF StreamMapT
  <2>3. /\ r.stream = q.stream /\ r.lineage = q.lineage /\ r.pipeline = q.pipeline
        /\ r.appsrc = q.appsrc /\ q.caps \subseteq r.caps
    BY DEF StreamMapT
  <2> HIDE DEF r
  <2> Kept(q, r)
    BY <2>1, <2>2, <2>3 DEF Kept
  <2> QED
    BY DEF r
<1>5. Kept(q, [q EXCEPT !.pipeline_initialized = TRUE])
  <2> DEFINE r == [q EXCEPT !.pipeline_initialized = TRUE]
  <2>1. r \in StreamMapT
    BY ContextFields
  <2>2. r.contended = q.contended
    BY DEF StreamMapT
  <2>3. /\ r.stream = q.stream /\ r.lineage = q.lineage /\ r.pipeline = q.pipeline
        /\ r.appsrc = q.appsrc /\ q.caps \subseteq r.caps
    BY DEF StreamMapT
  <2> HIDE DEF r
  <2> Kept(q, r)
    BY <2>1, <2>2, <2>3 DEF Kept
  <2> QED
    BY DEF r
<1> QED
  BY <1>1, <1>2, <1>3, <1>4, <1>5

LEMMA PlainWrite ==
  ASSUME ThreadsInv, NEW c \in Contexts, NEW r, Kept(ctx[c], r),
         ctx' = [ctx EXCEPT ![c] = r]
  PROVE  Plain
<1>1. /\ ctx' \in [Contexts -> StreamMapT] /\ ctx'[c] = r
      /\ \A d \in Contexts \ {c} : ctx'[d] = ctx[d]
  BY ContextReplaced DEF Kept
<1> QED
  BY <1>1 DEF Plain, Kept

LEMMA PlainUnchanged == ThreadsInv /\ UNCHANGED ctx => Plain
BY DEF ThreadsInv, TypeOK, Plain

(* The lines that write another field of a context. *)
LEMMA PlainSteps ==
  ASSUME ThreadsInv, NEW t \in Threads, HasContext(t),
         \/ SetStreamInfo(t) \/ InitCodec(t) \/ ParseAudio(t) \/ SetMountpoint(t)
         \/ SetInitialized(t)
         \/ ctx' = [ctx EXCEPT ![me[t].ctx].caps = @ \cup (Mine(t).par \cap {"video"})]
  PROVE  Plain
<1> DEFINE c == me[t].ctx
<1>1. /\ c \in Contexts /\ ctx[c] \in StreamMapT /\ me[t].kind \in Kinds
      /\ Mine(t).caps \in SUBSET Kinds
  BY Locals DEF Mine, StreamMapT
<1>2. CASE SetStreamInfo(t)
  <2>1. ctx' = [ctx EXCEPT ![c] = [ctx[c] EXCEPT !.par = @ \cup {me[t].kind}]]
    BY <1>2 DEF SetStreamInfo
  <2> HIDE DEF c
  <2> QED
    BY <1>1, <2>1, FieldsKept, PlainWrite
<1>3. CASE InitCodec(t)
  <2>1. ctx' = [ctx EXCEPT ![c] = [ctx[c] EXCEPT !.filter = TRUE]]
    BY <1>3 DEF InitCodec
  <2> HIDE DEF c
  <2> QED
    BY <1>1, <2>1, FieldsKept, PlainWrite
<1>4. CASE ParseAudio(t)
  <2> DEFINE caps == Mine(t).caps \cup (Mine(t).par \cap {"audio"})
  <2>1. ctx' = [ctx EXCEPT ![c] = [ctx[c] EXCEPT !.caps = caps]]
    BY <1>4 DEF ParseAudio
  <2>2. caps \in SUBSET Kinds /\ ctx[c].caps \subseteq caps
    BY <1>1 DEF Mine, Kinds
  <2> HIDE DEF c, caps
  <2> QED
    BY <1>1, <2>1, <2>2, FieldsKept, PlainWrite
<1>5. CASE SetMountpoint(t)
  <2>1. ctx' = [ctx EXCEPT ![c] = [ctx[c] EXCEPT !.rtsp_mountpoint = TRUE]]
    BY <1>5 DEF SetMountpoint
  <2> HIDE DEF c
  <2> QED
    BY <1>1, <2>1, FieldsKept, PlainWrite
<1>6. CASE SetInitialized(t)
  <2>1. ctx' = [ctx EXCEPT ![c] = [ctx[c] EXCEPT !.pipeline_initialized = TRUE]]
    BY <1>6 DEF SetInitialized
  <2> HIDE DEF c
  <2> QED
    BY <1>1, <2>1, FieldsKept, PlainWrite
<1>7. CASE ctx' = [ctx EXCEPT ![me[t].ctx].caps = @ \cup (Mine(t).par \cap {"video"})]
  <2> DEFINE caps == ctx[c].caps \cup (Mine(t).par \cap {"video"})
  <2>1. ctx' = [ctx EXCEPT ![c] = [ctx[c] EXCEPT !.caps = caps]]
    BY <1>7
  <2>2. caps \in SUBSET Kinds /\ ctx[c].caps \subseteq caps
    BY <1>1 DEF Mine, Kinds
  <2> HIDE DEF c, caps
  <2> QED
    BY <1>1, <2>1, <2>2, FieldsKept, PlainWrite
<1> QED
  BY <1>2, <1>3, <1>4, <1>5, <1>6, <1>7

LEMMA PipelineWritten ==
  ASSUME ThreadsInv, NEW t \in Threads, HasContext(t),
         NEW p \in Pipelines \cup {NULL}, SetPipeline(t, p)
  PROVE  /\ ctx' \in [Contexts -> StreamMapT]
         /\ \A d \in Contexts :
              /\ ctx'[d].stream = ctx[d].stream /\ ctx'[d].lineage = ctx[d].lineage
              /\ ctx'[d].appsrc = ctx[d].appsrc /\ ctx'[d].caps = ctx[d].caps
              /\ ctx'[d].pipeline = IF d = me[t].ctx THEN p ELSE ctx[d].pipeline
              /\ ctx[d].contended => ctx'[d].contended
              /\ d # me[t].ctx => ctx'[d].contended = ctx[d].contended
              /\ d = me[t].ctx /\ SettingSources(d) => ctx'[d].contended
<1> DEFINE c == me[t].ctx
           q == ctx[c]
           b == q.contended \/ SettingSources(c)
           r == [q EXCEPT !.pipeline = p, !.contended = b]
<1>1. c \in Contexts /\ q \in StreamMapT
  BY Locals DEF Mine
<1>2. ctx' = [ctx EXCEPT ![c] = r]
  BY DEF SetPipeline
<1>3. b \in BOOLEAN /\ (q.contended => b) /\ (SettingSources(c) => b)
  OBVIOUS
<1> HIDE DEF b
<1>4. /\ r \in StreamMapT /\ r.stream = q.stream /\ r.lineage = q.lineage
      /\ r.pipeline = p /\ r.appsrc = q.appsrc /\ r.caps = q.caps
      /\ (r.contended <=> b)
  BY <1>1, <1>3 DEF StreamMapT
<1> HIDE DEF r
<1>5. /\ ctx' \in [Contexts -> StreamMapT] /\ ctx'[c] = r
      /\ \A d \in Contexts \ {c} : ctx'[d] = ctx[d]
  BY <1>1, <1>2, <1>4, ContextReplaced
<1> QED
  BY <1>1, <1>3, <1>4, <1>5

SourceSet(t, k, p) == ctx' = [ctx EXCEPT ![me[t].ctx].appsrc[k] = p]

LEMMA SourceWritten ==
  ASSUME ThreadsInv, NEW t \in Threads, HasContext(t), NEW k \in Kinds,
         NEW p \in Pipelines, SourceSet(t, k, p)
  PROVE  /\ ctx' \in [Contexts -> StreamMapT]
         /\ \A d \in Contexts :
              /\ ctx'[d].stream = ctx[d].stream /\ ctx'[d].lineage = ctx[d].lineage
              /\ ctx'[d].pipeline = ctx[d].pipeline /\ ctx'[d].caps = ctx[d].caps
              /\ ctx'[d].contended = ctx[d].contended
              /\ d # me[t].ctx => ctx'[d].appsrc = ctx[d].appsrc
              /\ \A j \in Kinds \ {k} : ctx'[d].appsrc[j] = ctx[d].appsrc[j]
         /\ ctx'[me[t].ctx].appsrc[k] = p
<1> DEFINE c == me[t].ctx
           q == ctx[c]
           src == [q.appsrc EXCEPT ![k] = p]
           r == [q EXCEPT !.appsrc = src]
<1>1. c \in Contexts /\ q \in StreamMapT
  BY Locals DEF Mine
<1>2. ctx' = [ctx EXCEPT ![c] = r]
  BY DEF SourceSet
<1>3. /\ src \in [Kinds -> Pipelines \cup {NULL}] /\ src[k] = p
      /\ \A j \in Kinds \ {k} : src[j] = q.appsrc[j]
  BY <1>1 DEF StreamMapT
<1> HIDE DEF src
<1>4. /\ r \in StreamMapT /\ r.stream = q.stream /\ r.lineage = q.lineage
      /\ r.pipeline = q.pipeline /\ r.appsrc = src /\ r.caps = q.caps
      /\ r.contended = q.contended
  BY <1>1, <1>3 DEF StreamMapT
<1> HIDE DEF r
<1>5. /\ ctx' \in [Contexts -> StreamMapT] /\ ctx'[c] = r
      /\ \A d \in Contexts \ {c} : ctx'[d] = ctx[d]
  BY <1>1, <1>2, <1>4, ContextReplaced
<1> QED
  BY <1>1, <1>3, <1>4, <1>5

LEMMA StateSet ==
  ASSUME ThreadsInv, NEW p, NEW st \in {"null", "playing"}, pipe' = InState(p, st)
  PROVE  /\ pipe' \in [Pipelines -> PipelineT]
         /\ \A q \in Pipelines :
              /\ pipe'[q].gen = pipe[q].gen /\ pipe'[q].kinds = pipe[q].kinds
              /\ pipe'[q].fed = pipe[q].fed
              /\ pipe'[q].state = "free" => pipe[q].state = "free"
<1>1. ASSUME NEW q \in Pipelines
      PROVE  /\ pipe'[q] \in PipelineT
             /\ pipe'[q].gen = pipe[q].gen /\ pipe'[q].kinds = pipe[q].kinds
             /\ pipe'[q].fed = pipe[q].fed
             /\ pipe'[q].state = "free" => pipe[q].state = "free"
  <2>1. pipe[q] \in PipelineT
    BY DEF ThreadsInv, TypeOK
  <2>2. CASE q = p
    <3>1. pipe'[q] = [pipe[q] EXCEPT !.state = st]
      BY <2>2 DEF InState
    <3> QED
      BY <2>1, <3>1 DEF PipelineT
  <2>3. CASE q # p
    <3>1. pipe'[q] = pipe[q]
      BY <2>3 DEF InState
    <3> QED
      BY <2>1, <3>1
  <2> QED
    BY <2>2, <2>3
<1>2. DOMAIN pipe' = Pipelines /\ pipe' = [q \in Pipelines |-> pipe'[q]]
  BY DEF InState
<1> QED
  BY <1>1, <1>2

(* A pipeline made from a launch line. *)
LEMMA PipelineBuilt ==
  ASSUME ThreadsInv, NEW p \in Pipelines, NEW st \in {"null", "playing"},
         NEW c \in Contexts \cup {NULL}, NEW kinds \in SUBSET Kinds,
         pipe' = [pipe EXCEPT ![p] = NewPipeline(st, c, kinds)]
  PROVE  /\ pipe' \in [Pipelines -> PipelineT]
         /\ \A q \in Pipelines \ {p} : pipe'[q] = pipe[q]
         /\ pipe'[p].state = st /\ pipe'[p].gen = c /\ pipe'[p].fed = {}
<1>1. /\ NewPipeline(st, c, kinds) \in PipelineT
      /\ NewPipeline(st, c, kinds).state = st /\ NewPipeline(st, c, kinds).gen = c
      /\ NewPipeline(st, c, kinds).fed = {}
  BY NewTypes DEF NewPipeline
<1> QED
  BY <1>1, PipelineReplaced

-----------------------------------------------------------------------------
(* ThreadsInv: initially, and by the lines that every call has. *)

LEMMA InitThreads == Init => ThreadsInv
<1> SUFFICES ASSUME Init PROVE ThreadsInv
  OBVIOUS
<1>1. TypeOK
  <2>1. PICK Registered \in SUBSET Streams, home \in [Streams -> Contexts],
             tracks \in SUBSET Tracks \ {{}} : \E Mounted \in SUBSET Registered :
         /\ \A s, t \in Registered : home[s] = home[t] => s = t
         /\ table = [s \in Streams |-> IF s \in Registered THEN home[s] ELSE NULL]
         /\ ctx = [c \in Contexts |->
                     IF \E s \in Registered : home[s] = c
                     THEN LET s == CHOOSE s \in Registered : home[s] = c
                          IN  Announced(s, c, tracks, s \in Mounted)
                     ELSE NewContext(NULL)]
         /\ mounts = [s \in Streams |->
                        IF s \in Mounted THEN [gen |-> home[s], kinds |-> tracks]
                        ELSE NoFactory]
    BY DEF Init
  <2>2. PICK Mounted \in SUBSET Registered :
         /\ table = [s \in Streams |-> IF s \in Registered THEN home[s] ELSE NULL]
         /\ ctx = [c \in Contexts |->
                     IF \E s \in Registered : home[s] = c
                     THEN LET s == CHOOSE s \in Registered : home[s] = c
                          IN  Announced(s, c, tracks, s \in Mounted)
                     ELSE NewContext(NULL)]
         /\ mounts = [s \in Streams |->
                        IF s \in Mounted THEN [gen |-> home[s], kinds |-> tracks]
                        ELSE NoFactory]
    BY <2>1
  <2>3. tracks \in SUBSET Kinds
    BY NullFacts
  <2>4. table \in [Streams -> Contexts \cup {NULL}]
    BY <2>2
  <2>5. mounts \in [Streams -> FactoryT]
    BY <2>2, <2>3, NewTypes DEF FactoryT
  <2>6. ASSUME NEW c \in Contexts PROVE ctx[c] \in StreamMapT
    <3>1. CASE \E s \in Registered : home[s] = c
      <4> DEFINE s == CHOOSE s \in Registered : home[s] = c
                 m == s \in Mounted
      <4>1. s \in Streams /\ m \in BOOLEAN
        BY <3>1
      <4>2. ctx[c] = Announced(s, c, tracks, m)
        BY <2>2, <3>1
      <4> HIDE DEF s, m
      <4> QED
        BY <4>1, <4>2, <2>3, NewTypes
    <3>2. CASE ~\E s \in Registered : home[s] = c
      <4>1. ctx[c] = NewContext(NULL)
        BY <2>2, <3>2
      <4> QED
        BY <4>1, NewTypes
    <3> QED
      BY <3>1, <3>2
  <2>7. ctx \in [Contexts -> StreamMapT]
    BY <2>2, <2>6
  <2>8. pipe \in [Pipelines -> PipelineT] /\ me \in [Threads -> LocalsT]
    BY NewTypes DEF Init
  <2>9. /\ writing = {} /\ mutex = NULL /\ torn = FALSE /\ status = "running"
        /\ pc = [t \in Threads |-> "start"]
    BY DEF Init
  <2> QED
    BY <2>4, <2>5, <2>7, <2>8, <2>9 DEF TypeOK, Lines
<1>2. \A t \in Threads : pc[t] = "start"
  BY DEF Init
<1>3. Given /\ ContextsChecked /\ Holders /\ EntryStays /\ UnregisterSafe
  BY <1>2 DEF Given, ContextsChecked, Checked, Holders, Locked, EntryStays, UnregisterSafe
<1> QED
  BY <1>1, <1>3 DEF ThreadsInv

LEMMA CallInv ==
  ASSUME ThreadsInv, NEW t \in Threads, Call(t)
  PROVE  ThreadsInv'
<1>1. PICK line \in {"76", "696", "415", "738", "rtsp 64"}, l \in LocalsT :
        /\ Step(t, "start", line) /\ me' = [me EXCEPT ![t] = l] /\ l.stream \in Streams
        /\ UNCHANGED <<table, writing, ctx, mounts, mutex, torn, status>>
        /\ pipe' \in [Pipelines -> PipelineT]
  <2>0. SharedOK
    BY SharedTypes
  <2>1. CASE CallOnPacket(t)
    <3>1. PICK s \in Streams, k \in Tracks :
            /\ Enter(t, "onPacket", "76", [NoLocals EXCEPT !.stream = s, !.kind = k])
            /\ UNCHANGED shared
      BY <2>1 DEF CallOnPacket
    <3> DEFINE l == [NoLocals EXCEPT !.stream = s, !.kind = k]
    <3>2. l \in LocalsT /\ l.stream = s
      BY NullFacts DEF NoLocals, LocalsT
    <3>3. Step(t, "start", "76") /\ me' = [me EXCEPT ![t] = l]
      BY <3>1 DEF Enter
    <3>4. UNCHANGED shared /\ UNCHANGED <<torn, status>>
      BY <3>1 DEF Enter, Quiet
    <3> HIDE DEF l
    <3> QED
      BY <3>2, <3>3, <3>4, <2>0 DEF shared, SharedOK
  <2>2. CASE CallStreamStarted(t)
    <3>1. PICK s \in Streams, kinds \in SUBSET Tracks :
            /\ Enter(t, "streamStarted", "696",
                     [NoLocals EXCEPT !.stream = s, !.kinds = kinds])
            /\ UNCHANGED shared
      BY <2>2 DEF CallStreamStarted
    <3> DEFINE l == [NoLocals EXCEPT !.stream = s, !.kinds = kinds]
    <3>2. l \in LocalsT /\ l.stream = s
      BY NullFacts DEF NoLocals, LocalsT, Kinds
    <3>3. Step(t, "start", "696") /\ me' = [me EXCEPT ![t] = l]
      BY <3>1 DEF Enter
    <3>4. UNCHANGED shared /\ UNCHANGED <<torn, status>>
      BY <3>1 DEF Enter, Quiet
    <3> HIDE DEF l
    <3> QED
      BY <3>2, <3>3, <3>4, <2>0 DEF shared, SharedOK
  <2>3. CASE CallRegisterPipeline(t) \/ CallUnregisterStream(t)
    <3>1. PICK s \in Streams, line \in {"415", "738"} :
            /\ Step(t, "start", line) /\ me' = [me EXCEPT ![t] = [NoLocals EXCEPT !.stream = s]]
            /\ Quiet /\ UNCHANGED shared
      BY <2>3 DEF CallRegisterPipeline, CallUnregisterStream, Enter
    <3> DEFINE l == [NoLocals EXCEPT !.stream = s]
    <3>2. l \in LocalsT /\ l.stream = s
      BY NullFacts DEF NoLocals, LocalsT, Kinds
    <3>3. me' = [me EXCEPT ![t] = l]
      BY <3>1
    <3>4. Step(t, "start", line) /\ UNCHANGED shared /\ UNCHANGED <<torn, status>>
      BY <3>1 DEF Quiet
    <3> HIDE DEF l
    <3> QED
      BY <3>2, <3>3, <3>4, <2>0 DEF shared, SharedOK
  <2>4. CASE CallMediaConfigure(t)
    <3>1. PICK s \in Streams, p \in Pipelines :
            /\ pipe' = [pipe EXCEPT ![p] = NewPipeline("playing", mounts[s].gen, mounts[s].kinds)]
            /\ Enter(t, "media_configure", "rtsp 64",
                     [NoLocals EXCEPT !.stream = s, !.pipe = p, !.gen = mounts[s].gen])
            /\ UNCHANGED <<table, writing, ctx, mounts, mutex>>
      BY <2>4 DEF CallMediaConfigure
    <3> DEFINE g == mounts[s].gen
               l == [NoLocals EXCEPT !.stream = s, !.pipe = p, !.gen = g]
    <3>2. g \in Contexts \cup {NULL} /\ mounts[s].kinds \in SUBSET Kinds
      BY <2>0 DEF SharedOK, FactoryT
    <3>3. pipe' \in [Pipelines -> PipelineT]
      BY <3>1, <3>2, PipelineBuilt
    <3> HIDE DEF g
    <3>4. l \in LocalsT /\ l.stream = s
      BY <3>2 DEF NoLocals, LocalsT, Kinds
    <3>5. me' = [me EXCEPT ![t] = l]
      BY <3>1 DEF Enter, g
    <3> HIDE DEF l
    <3> QED
      BY <3>1, <3>3, <3>4, <3>5 DEF Enter, Quiet
  <2> QED
    BY <2>1, <2>2, <2>3, <2>4 DEF Call
<1>2. line \in Lines /\ line \notin Checked \cup Locked \cup {"744", "745"}
  BY ReadsAreLines DEF Lines, Checked, Locked
<1>3. SharedOK'
  BY <1>1, SharedTypes DEF SharedOK
<1> QED
  BY <1>1, <1>2, <1>3, Moves

LEMMA ContainsInv ==
  ASSUME ThreadsInv, NEW t \in Threads, Contains(t)
  PROVE  ThreadsInv'
<1>1. PICK b \in ContainsAt, c \in Found(t) :
        /\ pc[t] = b[1]
        /\ Step(t, b[1], IF c # NULL THEN b[2] ELSE b[3])
  BY DEF Contains
<1> DEFINE to == IF c # NULL THEN b[2] ELSE b[3]
<1>2. /\ UNCHANGED <<table, writing, ctx, pipe, mounts, mutex, me, status>>
      /\ torn' = (torn \/ Overlaps(t))
  BY DEF Contains, shared
<1>3. /\ to \in Lines /\ to \notin Checked /\ to # "745"
      /\ to \in Locked => b[1] = "741"
      /\ to = "744" => c # NULL
      /\ pc[t] # "start"
  BY <1>1, ReadLines
<1>4. pc' = [pc EXCEPT ![t] = to]
  BY <1>1 DEF Step
<1>5. to = "744" => table[me[t].stream] # NULL
  BY <1>3 DEF Found
<1> HIDE DEF to
<1>6. to \in Locked => mutex' = t
  BY <1>1, <1>2, <1>3 DEF ThreadsInv, Holders, Locked
<1>7. me[t] \in LocalsT /\ me[t].stream \in Streams /\ me' = [me EXCEPT ![t] = me[t]]
  BY <1>2, <1>3, Locals DEF ThreadsInv, TypeOK
<1>8. SharedOK' /\ (torn => torn')
  BY <1>2 DEF ThreadsInv, TypeOK, SharedOK
<1>9. \A u \in Threads \ {t} : pc[u] = "744" => table'[me[u].stream] # NULL
  BY <1>2 DEF ThreadsInv, EntryStays
<1> QED
  BY <1>2, <1>3, <1>4, <1>5, <1>6, <1>7, <1>8, <1>9, ThreadSteps

LEMMA LookupInv ==
  ASSUME ThreadsInv, NEW t \in Threads, Lookup(t)
  PROVE  ThreadsInv'
<1>1. PICK b \in LookupAt : Step(t, b[1], b[2])
  BY DEF Lookup
<1>2. PICK c \in Found(t) : me' = [me EXCEPT ![t].ctx = c]
  BY DEF Lookup
<1>3. /\ UNCHANGED <<table, writing, ctx, pipe, mounts, mutex, status>>
      /\ torn' = (torn \/ Overlaps(t))
  BY DEF Lookup, shared
<1>4. /\ b[2] \in Lines \ {"744"} /\ b[2] \notin Checked /\ b[1] # "start"
      /\ b[2] \in Locked => b[1] = "744" /\ b[2] = "745"
  BY ReadLines
<1>5. pc[t] = b[1] /\ pc' = [pc EXCEPT ![t] = b[2]]
  BY <1>1 DEF Step
<1> DEFINE l == [me[t] EXCEPT !.ctx = c]
<1>6. me[t] \in LocalsT /\ me[t].stream \in Streams /\ c \in Contexts \cup {NULL}
  BY <1>4, <1>5, Locals
<1>7. l \in LocalsT /\ l.ctx = c /\ l.stream = me[t].stream
  BY <1>6, LocalFields
<1>8. b[2] \in Locked => mutex' = t
  BY <1>3, <1>4, <1>5 DEF ThreadsInv, Holders, Locked
<1>9. ASSUME b[2] = "745", c = NULL PROVE torn'
  <2>1. pc[t] = "744"
    BY <1>4, <1>5, <1>9 DEF Locked
  <2>2. table[me[t].stream] # NULL
    BY <2>1 DEF ThreadsInv, EntryStays
  <2> QED
    BY <2>2, <1>2, <1>3, <1>9 DEF Found
<1>10. SharedOK' /\ (torn => torn')
  BY <1>3 DEF ThreadsInv, TypeOK, SharedOK
<1>11. \A u \in Threads \ {t} : pc[u] = "744" => table'[me[u].stream] # NULL
  BY <1>3 DEF ThreadsInv, EntryStays
<1>12. me' = [me EXCEPT ![t] = l]
  BY <1>2
<1> HIDE DEF l
<1> QED
  BY <1>3, <1>4, <1>5, <1>6, <1>7, <1>8, <1>9, <1>10, <1>11, <1>12, ThreadSteps

LEMMA DeathsInv ==
  ASSUME ThreadsInv, NEW t \in Threads, NullContext(t) \/ TableRace(t)
  PROVE  ThreadsInv'
BY DiesInv DEF NullContext, TableRace

-----------------------------------------------------------------------------
(* streamStarted *)

LEMMA RegisterStreamInv ==
  ASSUME ThreadsInv, NEW t \in Threads, RegisterStream(t)
  PROVE  ThreadsInv'
<1>1. PICK c \in Contexts :
        /\ ctx' = [ctx EXCEPT ![c] = NewContext(me[t].stream)]
        /\ me' = [me EXCEPT ![t].ctx = c]
  BY DEF RegisterStream
<1>2. /\ Step(t, "696", "696 in") /\ pc[t] = "696"
      /\ writing' = writing \cup {t} /\ torn' = (torn \/ Overlaps(t))
      /\ UNCHANGED <<table, pipe, mounts, mutex, status>>
  BY DEF RegisterStream, Step, Writes
<1> DEFINE l == [me[t] EXCEPT !.ctx = c]
<1>3. me[t] \in LocalsT /\ me[t].stream \in Streams
  BY <1>2, Locals
<1>4. ctx' \in [Contexts -> StreamMapT]
  BY <1>1, <1>3, NewTypes DEF ThreadsInv, TypeOK
<1>5. l \in LocalsT /\ l.ctx = c /\ l.stream = me[t].stream
  BY <1>3, LocalFields
<1>6. SharedOK' /\ (torn => torn')
  BY <1>2, <1>4 DEF ThreadsInv, TypeOK, SharedOK
<1>7. "696 in" \in Lines /\ "696 in" \notin Locked \cup {"744", "745"}
  BY DEF Lines, Locked
<1>8. me' = [me EXCEPT ![t] = l]
  BY <1>1
<1> HIDE DEF l
<1> QED
  BY <1>1, <1>2, <1>3, <1>5, <1>6, <1>7, <1>8, NullFacts, Moves

(* A thread that leaves the hash table with its entry written, or lost. *)
LEMMA WrittenInv ==
  ASSUME ThreadsInv, NEW t \in Threads, NEW from, NEW to \in Lines \ {"744", "745"},
         NEW entry \in Contexts \cup {NULL},
         Step(t, from, to), from # "start", Leaves(t),
         table' = [table EXCEPT ![me[t].stream] = entry] \/ UNCHANGED table,
         ctx' \in [Contexts -> StreamMapT],
         to \notin Checked, to \in Locked => from \in Locked,
         entry = NULL => from \in Locked
  PROVE  ThreadsInv'
<1>1. /\ pc[t] = from /\ pc' = [pc EXCEPT ![t] = to]
      /\ writing' = writing \ {t}
      /\ UNCHANGED <<pipe, mounts, mutex, me, torn, status>>
  BY DEF Step, Leaves, Quiet
<1>2. me[t] \in LocalsT /\ me[t].stream \in Streams /\ me' = [me EXCEPT ![t] = me[t]]
  BY <1>1, Locals DEF ThreadsInv, TypeOK
<1>3. to \in Locked => mutex' = t
  BY <1>1 DEF ThreadsInv, Holders
<1>4. table' \in [Streams -> Contexts \cup {NULL}]
  BY DEF ThreadsInv, TypeOK
<1>5. SharedOK'
  BY <1>1, <1>4 DEF ThreadsInv, TypeOK, SharedOK
<1>6. ASSUME NEW u \in Threads \ {t}, pc[u] = "744"
      PROVE  table'[me[u].stream] # NULL
  <2>1. mutex = u
    BY <1>6 DEF ThreadsInv, Holders, Locked
  <2>2. entry # NULL
    BY <2>1, <1>1, <1>6 DEF ThreadsInv, Holders
  <2>3. table[me[u].stream] # NULL /\ me[u].stream \in Streams
    BY <1>6 DEF ThreadsInv, EntryStays, Given
  <2> QED
    BY <2>2, <2>3, <1>1 DEF ThreadsInv, TypeOK
<1> QED
  BY <1>1, <1>2, <1>3, <1>5, <1>6, ThreadSteps

(* What the end of an insertion does to the contexts. *)
LEMMA LineageWritten ==
  ASSUME ThreadsInv, NEW t \in Threads, RegisterStreamEnd(t)
  PROVE  LET c == me[t].ctx
             s == me[t].stream
         IN  /\ c \in Contexts /\ s \in Streams
             /\ ctx' \in [Contexts -> StreamMapT]
             /\ \A d \in Contexts :
                  /\ ctx'[d].stream = ctx[d].stream /\ ctx'[d].pipeline = ctx[d].pipeline
                  /\ ctx'[d].appsrc = ctx[d].appsrc /\ ctx'[d].caps = ctx[d].caps
                  /\ ctx'[d].contended = ctx[d].contended
                  /\ d # c => ctx'[d].lineage = ctx[d].lineage
             /\ \/ /\ ctx'[c].lineage = Known(s) \cup {c}
                   /\ table' = [table EXCEPT ![s] = c]
                \/ UNCHANGED <<table, ctx>>
<1> DEFINE c == me[t].ctx
           s == me[t].stream
           l == Known(s) \cup {c}
           r == [ctx[c] EXCEPT !.lineage = l]
<1>1. pc[t] = "696 in"
  BY DEF RegisterStreamEnd, Step
<1>2. c \in Contexts /\ ctx[c] \in StreamMapT /\ s \in Streams
  BY <1>1, Locals DEF Checked, Mine
<1>3. l \in SUBSET Contexts
  BY <1>2 DEF Known
<1>4. CASE UNCHANGED <<table, ctx>>
  BY <1>2, <1>4 DEF ThreadsInv, TypeOK
<1>5. CASE table' = [table EXCEPT ![s] = c] /\ ctx' = [ctx EXCEPT ![c].lineage = l]
  <2>1. ctx' = [ctx EXCEPT ![c] = r]
    BY <1>5
  <2> HIDE DEF l
  <2>2. r \in StreamMapT
    BY <1>2, <1>3 DEF StreamMapT
  <2>3. /\ r.stream = ctx[c].stream /\ r.pipeline = ctx[c].pipeline
        /\ r.appsrc = ctx[c].appsrc /\ r.caps = ctx[c].caps /\ r.lineage = l
    BY <1>2 DEF StreamMapT
  <2>4. r.contended = ctx[c].contended
    BY <1>2 DEF StreamMapT
  <2> HIDE DEF r
  <2>5. /\ ctx' \in [Contexts -> StreamMapT] /\ ctx'[c] = r
        /\ \A d \in Contexts \ {c} : ctx'[d] = ctx[d]
    BY <1>2, <2>1, <2>2, ContextReplaced
  <2>6. ctx'[c].lineage = Known(s) \cup {c}
    BY <2>3, <2>5 DEF l
  <2> QED
    BY <1>2, <1>5, <2>3, <2>4, <2>5, <2>6
<1> QED
  BY <1>4, <1>5 DEF RegisterStreamEnd

LEMMA RegisterStreamEndInv ==
  ASSUME ThreadsInv, NEW t \in Threads, RegisterStreamEnd(t)
  PROVE  ThreadsInv'
<1>1. Step(t, "696 in", "next") /\ Leaves(t)
  BY DEF RegisterStreamEnd
<1>2. /\ table' = [table EXCEPT ![me[t].stream] = me[t].ctx] \/ UNCHANGED table
      /\ me[t].ctx \in Contexts /\ ctx' \in [Contexts -> StreamMapT]
  BY LineageWritten
<1>3. "next" \in Lines /\ "next" \notin Checked \cup Locked \cup {"744", "745"}
  BY DEF Lines, Checked, Locked
<1> QED
  BY <1>1, <1>2, <1>3, NullFacts, WrittenInv

LEMMA NextTrackInv ==
  ASSUME ThreadsInv, NEW t \in Threads, NextTrack(t)
  PROVE  ThreadsInv'
<1>1. pc[t] = "next" /\ UNCHANGED shared /\ UNCHANGED <<torn, status>>
  BY DEF NextTrack, Step, Quiet
<1>2. me[t] \in LocalsT /\ me[t].stream \in Streams
  BY <1>1, Locals
<1>3. PICK to \in {"662", "415", "done"}, l \in LocalsT :
        /\ Step(t, "next", to) /\ me' = [me EXCEPT ![t] = l] /\ l.stream \in Streams
  <2> DEFINE kinds == me[t].kinds
             k     == IF "video" \in kinds THEN "video" ELSE "audio"
             l     == [me[t] EXCEPT !.kind = k, !.kinds = @ \ {k}]
  <2>1. k \in Kinds
    BY DEF Kinds
  <2>2. CASE Step(t, "next", "662") /\ me' = [me EXCEPT ![t].kind = k, ![t].kinds = @ \ {k}]
    <3>1. me' = [me EXCEPT ![t] = l]
      BY <2>2 DEF ThreadsInv, TypeOK
    <3> HIDE DEF k
    <3>2. l \in LocalsT /\ l.stream = me[t].stream
      BY <1>2, <2>1 DEF LocalsT
    <3> HIDE DEF l
    <3> QED
      BY <1>2, <2>2, <3>1, <3>2
  <2>3. CASE UNCHANGED me /\ \E to \in {"415", "done"} : Step(t, "next", to)
    <3>1. me' = [me EXCEPT ![t] = me[t]]
      BY <2>3 DEF ThreadsInv, TypeOK
    <3> QED
      BY <1>2, <2>3, <3>1
  <2> QED
    BY <2>2, <2>3 DEF NextTrack
<1>4. to \in Lines /\ to \notin Checked \cup Locked \cup {"744", "745"}
  BY ReadsAreLines DEF Lines, Checked, Locked
<1>5. SharedOK' /\ UNCHANGED <<table, mutex>>
  BY <1>1, SharedTypes DEF SharedOK, shared
<1> QED
  BY <1>1, <1>3, <1>4, <1>5, Moves

-----------------------------------------------------------------------------
(* The lines that write one field of the context, and go on. *)
LEMMA FieldsInv ==
  ASSUME ThreadsInv, NEW t \in Threads,
         \/ SetStreamInfo(t) \/ InitCodec(t) \/ ParseVideo(t) \/ SetMountpoint(t)
         \/ SetInitialized(t)
  PROVE  ThreadsInv'
<1>1. CASE Dies(t, "217", "segv")
  BY <1>1, DiesInv
<1>2. ASSUME NEW from \in {"674", "676", "217", "rtsp 118", "194"},
             NEW to \in {"676", "next", "231", "rtsp 119", "done"},
             Step(t, from, to), HasContext(t), OnlyContext, Plain
      PROVE  ThreadsInv'
  <2>1. SharedOK' /\ UNCHANGED <<table, mutex, me, torn>>
    BY <1>2 DEF OnlyContext, Quiet, Plain, ThreadsInv, TypeOK, SharedOK
  <2>2. to \in Lines \ {"744", "745"} /\ to \notin Locked
    BY DEF Lines, Locked
  <2> QED
    BY <1>2, <2>1, <2>2, Passes
<1>3. CASE SetStreamInfo(t)
  <2>1. HasContext(t) /\ OnlyContext /\ \E to \in {"676", "next"} : Step(t, "674", to)
    BY <1>3 DEF SetStreamInfo
  <2> QED
    BY <1>2, <1>3, <2>1, PlainSteps
<1>4. CASE InitCodec(t)
  <2>1. OnlyContext /\ Step(t, "676", "next") /\ pc[t] = "676"
    BY <1>4 DEF InitCodec, Step
  <2>2. HasContext(t)
    BY <2>1, Locals DEF Checked
  <2> QED
    BY <1>2, <1>4, <2>1, <2>2, PlainSteps
<1>5. CASE ParseVideo(t) /\ ~Dies(t, "217", "segv")
  <2>1. /\ HasContext(t) /\ OnlyContext /\ Step(t, "217", "231")
        /\ ctx' = [ctx EXCEPT ![me[t].ctx].caps = @ \cup (Mine(t).par \cap {"video"})]
    BY <1>5 DEF ParseVideo
  <2> QED
    BY <1>2, <2>1, PlainSteps
<1>6. CASE SetMountpoint(t)
  <2>1. HasContext(t) /\ OnlyContext /\ Step(t, "rtsp 118", "rtsp 119")
    BY <1>6 DEF SetMountpoint
  <2> QED
    BY <1>2, <1>6, <2>1, PlainSteps
<1>7. CASE SetInitialized(t)
  <2>1. OnlyContext /\ Step(t, "194", "done") /\ pc[t] = "194"
    BY <1>7 DEF SetInitialized, Step
  <2>2. HasContext(t)
    BY <2>1, Locals DEF Checked
  <2> QED
    BY <1>2, <1>7, <2>1, <2>2, PlainSteps
<1> QED
  BY <1>1, <1>3, <1>4, <1>5, <1>6, <1>7

LEMMA ParseAudioInv ==
  ASSUME ThreadsInv, NEW t \in Threads, ParseAudio(t)
  PROVE  ThreadsInv'
<1> DEFINE caps == Mine(t).caps \cup (Mine(t).par \cap {"audio"})
           c == me[t].ctx
           l == [me[t] EXCEPT !.text = caps, !.gen = c]
<1>1. PICK to \in {"done", "606", "rtsp 82"} : Step(t, "231", to)
  BY DEF ParseAudio
<1>2. /\ pc[t] = "231" /\ me' = [me EXCEPT ![t] = l]
      /\ UNCHANGED <<table, writing, pipe, mounts, mutex, torn, status>>
  BY <1>1 DEF ParseAudio, Step, Quiet
<1>3. HasContext(t)
  BY <1>2, Locals DEF Checked
<1>4. /\ c \in Contexts /\ me[t] \in LocalsT /\ me[t].stream \in Streams
      /\ caps \in SUBSET Kinds
  BY <1>2, <1>3, Locals DEF StreamMapT
<1>5. Plain
  BY <1>3, PlainSteps
<1> HIDE DEF caps, c
<1>6. l \in LocalsT /\ l.stream = me[t].stream
  BY <1>4 DEF LocalsT
<1>7. to \in Lines /\ to \notin Checked \cup Locked \cup {"744", "745"}
  BY ReadsAreLines DEF Lines, Checked, Locked
<1>8. SharedOK'
  BY <1>2, <1>5, SharedTypes DEF SharedOK, Plain
<1> HIDE DEF l
<1> QED
  BY <1>1, <1>2, <1>4, <1>6, <1>7, <1>8, Moves

-----------------------------------------------------------------------------
(* ctx->pipeline and the pipelines. *)

LEMMA ParseLaunchInv ==
  ASSUME ThreadsInv, NEW t \in Threads, ParseLaunch(t)
  PROVE  ThreadsInv'
<1>1. /\ HasContext(t) /\ pc[t] = "610"
      /\ UNCHANGED <<table, writing, mounts, mutex, me, torn, status>>
  BY DEF ParseLaunch, Step, Quiet
<1>2. me[t].text \in SUBSET Kinds /\ me[t].gen \in Contexts \cup {NULL}
  BY Locals DEF LocalsT
<1>3. PICK to \in {"624", "done"}, p \in Pipelines \cup {NULL} :
        /\ Step(t, "610", to) /\ SetPipeline(t, p)
        /\ pipe' \in [Pipelines -> PipelineT]
  <2>1. CASE \E p \in Pipelines, kinds \in SUBSET me[t].text, to \in {"624", "done"} :
               /\ Step(t, "610", to) /\ SetPipeline(t, p)
               /\ pipe' = [pipe EXCEPT ![p] = NewPipeline("null", me[t].gen, kinds)]
    BY <2>1, <1>2, PipelineBuilt
  <2>2. CASE Step(t, "610", "done") /\ SetPipeline(t, NULL) /\ UNCHANGED pipe
    BY <2>2 DEF ThreadsInv, TypeOK
  <2> QED
    BY <2>1, <2>2 DEF ParseLaunch
<1>4. SharedOK'
  <2>1. ctx' \in [Contexts -> StreamMapT]
    BY <1>1, <1>3, PipelineWritten
  <2> QED
    BY <1>1, <1>3, <2>1, SharedTypes DEF SharedOK
<1>5. to \in Lines /\ to \notin Locked \cup {"744", "745"}
  BY DEF Lines, Locked
<1> QED
  BY <1>1, <1>3, <1>4, <1>5, Passes

LEMMA MediaConfigureInv ==
  ASSUME ThreadsInv, NEW t \in Threads, MediaConfigure(t)
  PROVE  ThreadsInv'
<1>1. /\ HasContext(t) /\ Step(t, "rtsp 68", "175") /\ SetPipeline(t, me[t].pipe)
      /\ UNCHANGED <<table, writing, pipe, mounts, mutex, me, torn, status>>
  BY DEF MediaConfigure, OnlyContext, Quiet
<1>2. me[t].pipe \in Pipelines \cup {NULL}
  BY Locals DEF LocalsT
<1>3. ctx' \in [Contexts -> StreamMapT]
  BY <1>1, <1>2, PipelineWritten
<1>4. SharedOK'
  BY <1>1, <1>3, SharedTypes DEF SharedOK
<1>5. "175" \in Lines /\ "175" \notin Locked \cup {"744", "745"}
  BY DEF Lines, Locked
<1> QED
  BY <1>1, <1>4, <1>5, Passes

LEMMA ForgetPipelineInv ==
  ASSUME ThreadsInv, NEW t \in Threads, ForgetPipeline(t)
  PROVE  ThreadsInv'
<1>1. /\ Step(t, "748", "752") /\ SetPipeline(t, NULL) /\ pc[t] = "748"
      /\ UNCHANGED <<table, writing, pipe, mounts, mutex, me, torn, status>>
  BY DEF ForgetPipeline, OnlyContext, Quiet, Step
<1>2. HasContext(t)
  BY <1>1, Locals DEF Checked
<1>3. ctx' \in [Contexts -> StreamMapT]
  BY <1>1, <1>2, PipelineWritten
<1>4. SharedOK'
  BY <1>1, <1>3, SharedTypes DEF SharedOK
<1>5. "752" \in Lines \ {"744", "745"} /\ "748" \in Locked
  BY DEF Lines, Locked
<1> QED
  BY <1>1, <1>2, <1>4, <1>5, Passes

LEMMA StatesInv ==
  ASSUME ThreadsInv, NEW t \in Threads, SetPlaying(t) \/ SetNull(t)
  PROVE  ThreadsInv'
<1>1. PICK from \in {"624 call", "747"}, to \in {"175", "748"},
           st \in {"playing", "null"}, p \in {me[t].pipe, Mine(t).pipeline} :
        /\ Step(t, from, to) /\ pipe' = InState(p, st)
        /\ to = "748" => from = "747"
        /\ UNCHANGED <<table, writing, ctx, mounts, mutex, me, torn, status>>
  BY DEF SetPlaying, SetNull, OnlyPipelines, Quiet
<1>2. pc[t] = from
  BY <1>1 DEF Step
<1>3. HasContext(t)
  BY <1>2, Locals DEF Checked
<1>4. pipe' \in [Pipelines -> PipelineT]
  BY <1>1, StateSet
<1>5. SharedOK'
  BY <1>1, <1>4, SharedTypes DEF SharedOK
<1>6. to \in Lines \ {"744", "745"} /\ (to \in Locked => from \in Locked)
  BY <1>1 DEF Lines, Locked
<1> QED
  BY <1>1, <1>3, <1>5, <1>6, Passes

LEMMA PushBufferInv ==
  ASSUME ThreadsInv, NEW t \in Threads, PushBuffer(t)
  PROVE  ThreadsInv'
<1> DEFINE src == Mine(t).appsrc[me[t].kind]
<1>1. CASE Dies(t, "push", "abort")
  BY <1>1, DiesInv
<1>2. CASE /\ Step(t, "push", "done") /\ src # NULL
           /\ pipe' = [pipe EXCEPT ![src].fed = @ \cup {me[t].ctx}]
           /\ OnlyPipelines
  <2>1. HasContext(t)
    BY <1>2, Locals DEF Step, Checked
  <2>2. me[t].ctx \in Contexts /\ src \in Pipelines
    BY <1>2, <2>1, Locals DEF StreamMapT
  <2> DEFINE q == [pipe[src] EXCEPT !.fed = @ \cup {me[t].ctx}]
  <2>3. q \in PipelineT
    BY <2>2, PipelineFields DEF ThreadsInv, TypeOK
  <2>4. pipe' = [pipe EXCEPT ![src] = q]
    BY <1>2
  <2> HIDE DEF src, q
  <2>5. pipe' \in [Pipelines -> PipelineT]
    BY <2>2, <2>3, <2>4, PipelineReplaced
  <2>6. SharedOK' /\ UNCHANGED <<table, mutex, me, torn>>
    BY <1>2, <2>5, SharedTypes DEF SharedOK, OnlyPipelines, Quiet
  <2>7. "done" \in Lines /\ "done" \notin Checked \cup Locked \cup {"744", "745"}
    BY DEF Lines, Checked, Locked
  <2> QED
    BY <1>2, <2>6, <2>7, Passes
<1> QED
  BY <1>1, <1>2 DEF PushBuffer

-----------------------------------------------------------------------------
(* Reads of the context. *)

LEMMA ReadsInv ==
  ASSUME ThreadsInv, NEW t \in Threads, HasContext(t),
         NEW from \in Lines \ {"start"}, NEW to \in Lines,
         to \notin Locked, Step(t, from, to),
         me' = [me EXCEPT ![t].pipe = Mine(t).pipeline], UNCHANGED shared, Quiet
  PROVE  ThreadsInv'
<1> DEFINE l == [me[t] EXCEPT !.pipe = Mine(t).pipeline]
<1>1. pc[t] # "start"
  BY DEF Step
<1>2. /\ me[t] \in LocalsT /\ me[t].stream \in Streams
      /\ Mine(t).pipeline \in Pipelines \cup {NULL}
  BY <1>1, Locals DEF StreamMapT
<1>3. l \in LocalsT /\ l.stream = me[t].stream /\ l.ctx = me[t].ctx
  BY <1>2, LocalFields
<1>4. me' = [me EXCEPT ![t] = l]
  OBVIOUS
<1>5. SharedOK' /\ UNCHANGED <<table, mutex, torn>>
  BY SharedTypes DEF SharedOK, shared, Quiet
<1>6. to \notin {"744", "745"}
  BY DEF Locked
<1> HIDE DEF l
<1> QED
  BY <1>2, <1>3, <1>4, <1>5, <1>6, Moves DEF HasContext

LEMMA ReadPipelineInv ==
  ASSUME ThreadsInv, NEW t \in Threads, ReadPipeline(t)
  PROVE  ThreadsInv'
<1>1. pc[t] = "624" /\ Step(t, "624", "624 call")
  BY DEF ReadPipeline, Step
<1>2. HasContext(t)
  BY <1>1, Locals DEF Checked
<1>3. {"624", "624 call"} \subseteq Lines \ Locked
  BY DEF Lines, Locked
<1> QED
  BY <1>1, <1>2, <1>3, ReadsInv DEF ReadPipeline

(* Lines that only decide where the thread goes on. *)
LEMMA ChecksInv ==
  ASSUME ThreadsInv, NEW t \in Threads,
         CheckPipeline(t) \/ CheckSources(t) \/ CheckOutput(t)
  PROVE  ThreadsInv'
<1>1. PICK from \in {"175", "79", "745"}, to \in {"done", "180", "push", "761", "747"} :
        /\ Step(t, from, to)
        /\ from = "175" \/ HasContext(t)
        /\ to \in {"761", "747"} => from = "745"
  BY DEF CheckPipeline, CheckSources, CheckOutput
<1>2. OnlyHere
  BY DEF CheckPipeline, CheckSources, CheckOutput
<1>3. SharedOK' /\ UNCHANGED <<table, mutex, me, torn>>
  BY <1>2, SharedTypes DEF SharedOK, OnlyHere, shared, Quiet
<1>4. HasContext(t)
  BY <1>1, Locals DEF Step, Checked
<1>5. to \in Lines \ {"744", "745"} /\ (to \in Locked => from \in Locked)
  BY <1>1 DEF Lines, Locked
<1> QED
  BY <1>1, <1>3, <1>4, <1>5, Passes

LEMMA ReadOutputInv ==
  ASSUME ThreadsInv, NEW t \in Threads,
         NEW from \in {"180", "187"}, NEW found \in {"184", "191"},
         NEW next \in {"187", "194"}, NEW k \in Kinds,
         ReadOutput(t, from, found, next, k)
  PROVE  ThreadsInv'
<1>1. PICK to \in {found, next} : Step(t, from, to)
  BY DEF ReadOutput
<1>2. HasContext(t)
  BY <1>1, Locals DEF Step, Checked
<1>3. from \in Lines \ {"start"} /\ to \in Lines \ Locked
  BY DEF Lines, Locked
<1> QED
  BY <1>1, <1>2, <1>3, ReadsInv DEF ReadOutput

LEMMA SetSourceInv ==
  ASSUME ThreadsInv, NEW t \in Threads,
         NEW from \in {"184", "191"}, NEW next \in {"187", "194"}, NEW k \in Kinds,
         SetSource(t, from, next, k)
  PROVE  ThreadsInv'
<1>1. CASE Dies(t, from, "abort")
  BY <1>1, DiesInv
<1>2. CASE /\ HasElement(me[t].pipe, k) /\ Step(t, from, next) /\ OnlyContext
           /\ SourceSet(t, k, me[t].pipe)
  <2>1. HasContext(t)
    BY <1>2, Locals DEF Step, Checked
  <2>2. me[t].pipe \in Pipelines
    BY <1>2, Locals DEF HasElement, LocalsT
  <2>3. ctx' \in [Contexts -> StreamMapT]
    BY <1>2, <2>1, <2>2, SourceWritten
  <2>4. SharedOK' /\ UNCHANGED <<table, mutex, me, torn>>
    BY <1>2, <2>3, SharedTypes DEF SharedOK, OnlyContext, Quiet
  <2>5. next \in Lines /\ next \notin Locked \cup {"744", "745"}
    BY DEF Lines, Locked
  <2> QED
    BY <1>2, <2>1, <2>4, <2>5, Passes
<1> QED
  BY <1>1, <1>2 DEF SetSource, SourceSet

LEMMA SetAppsrcInv ==
  ASSUME ThreadsInv, NEW t \in Threads, SetAppsrc(t)
  PROVE  ThreadsInv'
BY ReadOutputInv, SetSourceInv DEF SetAppsrc, Kinds

-----------------------------------------------------------------------------
(* unregister_stream, and the mount points *)

LEMMA FactoriesInv ==
  ASSUME ThreadsInv, NEW t \in Threads, AddFactory(t) \/ RemoveFactory(t)
  PROVE  ThreadsInv'
<1>1. /\ \/ Step(t, "rtsp 119", "done")
         \/ Step(t, "752", "761")
      /\ UNCHANGED <<table, writing, ctx, pipe, mutex, me, torn, status>>
  BY DEF AddFactory, RemoveFactory, Quiet
<1>2. mounts' \in [Streams -> FactoryT]
  <2>1. CASE AddFactory(t)
    <3>1. [gen |-> me[t].gen, kinds |-> me[t].text] \in FactoryT
      BY Locals DEF LocalsT, FactoryT
    <3> QED
      BY <2>1, <3>1 DEF AddFactory, ThreadsInv, TypeOK
  <2>2. CASE RemoveFactory(t)
    BY <2>2, NewTypes DEF RemoveFactory, ThreadsInv, TypeOK
  <2> QED
    BY <2>1, <2>2
<1>3. SharedOK'
  BY <1>1, <1>2, SharedTypes DEF SharedOK
<1>4. "done" \in Lines /\ "done" \notin Checked \cup Locked \cup {"744", "745"}
  BY DEF Lines, Checked, Locked
<1>5. "761" \in Lines \ {"744", "745"} /\ "761" \notin Checked /\ "752" \in Locked
  BY DEF Lines, Checked, Locked
<1> QED
  BY <1>1, <1>3, <1>4, <1>5, Passes

LEMMA LockInv ==
  ASSUME ThreadsInv, NEW t \in Threads, Lock(t)
  PROVE  ThreadsInv'
<1>1. /\ pc[t] = "738" /\ pc' = [pc EXCEPT ![t] = "741"]
      /\ mutex = NULL /\ mutex' = t
      /\ UNCHANGED <<table, writing, ctx, pipe, mounts, me, torn, status>>
  BY DEF Lock, Step, Quiet
<1>2. me[t] \in LocalsT /\ me[t].stream \in Streams /\ me' = [me EXCEPT ![t] = me[t]]
  BY <1>1, Locals DEF ThreadsInv, TypeOK
<1>3. SharedOK'
  BY <1>1, SharedTypes DEF SharedOK
<1>4. \A u \in Threads \ {t} : pc[u] = "744" => table'[me[u].stream] # NULL
  BY <1>1 DEF ThreadsInv, EntryStays
<1>5. "741" \in Lines /\ "741" \notin Checked
  BY DEF Lines, Locked, Checked
<1> QED
  BY <1>1, <1>2, <1>3, <1>4, <1>5, NullFacts, ThreadSteps

LEMMA RemoveInv ==
  ASSUME ThreadsInv, NEW t \in Threads, Remove(t)
  PROVE  ThreadsInv'
<1>1. /\ Step(t, "761", "761 in")
      /\ writing' = writing \cup {t} /\ torn' = (torn \/ Overlaps(t))
      /\ UNCHANGED <<table, ctx, pipe, mounts, mutex, me, status>>
  BY DEF Remove, Writes
<1>2. me[t] \in LocalsT /\ me[t].stream \in Streams /\ me' = [me EXCEPT ![t] = me[t]]
  BY <1>1, Locals DEF Step, ThreadsInv, TypeOK
<1>3. SharedOK' /\ (torn => torn')
  BY <1>1 DEF ThreadsInv, TypeOK, SharedOK
<1>4. "761 in" \in Lines \ {"744", "745"} /\ "761 in" \notin Checked /\ "761" \in Locked
  BY DEF Lines, Locked, Checked
<1> QED
  BY <1>1, <1>2, <1>3, <1>4, Moves

LEMMA RemoveEndInv ==
  ASSUME ThreadsInv, NEW t \in Threads, RemoveEnd(t)
  PROVE  ThreadsInv'
<1>1. /\ Step(t, "761 in", "774") /\ Leaves(t)
      /\ table' = [table EXCEPT ![me[t].stream] = NULL] \/ UNCHANGED table
      /\ ctx' \in [Contexts -> StreamMapT]
  BY DEF RemoveEnd, ThreadsInv, TypeOK
<1>2. "774" \in Lines \ {"744", "745"} /\ "774" \notin Checked /\ "761 in" \in Locked
  BY DEF Lines, Locked, Checked
<1> QED
  BY <1>1, <1>2, WrittenInv

LEMMA UnlockInv ==
  ASSUME ThreadsInv, NEW t \in Threads, Unlock(t)
  PROVE  ThreadsInv'
<1>1. /\ pc[t] = "774" /\ pc' = [pc EXCEPT ![t] = "done"] /\ mutex' = NULL
      /\ UNCHANGED <<table, writing, ctx, pipe, mounts, me, torn, status>>
  BY DEF Unlock, Step, Quiet
<1>2. me[t] \in LocalsT /\ me[t].stream \in Streams /\ me' = [me EXCEPT ![t] = me[t]]
  BY <1>1, Locals DEF ThreadsInv, TypeOK
<1>3. mutex = t
  BY <1>1 DEF ThreadsInv, Holders, Locked
<1>4. SharedOK'
  BY <1>1, SharedTypes DEF SharedOK
<1>5. \A u \in Threads \ {t} : pc[u] = "744" => table'[me[u].stream] # NULL
  BY <1>1 DEF ThreadsInv, EntryStays
<1>6. "done" \in Lines /\ "done" \notin Checked \cup Locked \cup {"744", "745"}
  BY DEF Lines, Locked, Checked
<1> QED
  BY <1>1, <1>2, <1>3, <1>4, <1>5, <1>6, ThreadSteps

LEMMA ThreadsStep == ThreadsInv /\ [Next]_vars => ThreadsInv'
<1> SUFFICES ASSUME ThreadsInv, [Next]_vars PROVE ThreadsInv'
  OBVIOUS
<1>1. CASE UNCHANGED vars
  BY <1>1 DEF vars, ThreadsInv, TypeOK, Given, ContextsChecked, HasContext, Holders,
              EntryStays, UnregisterSafe
<1>2. ASSUME NEW t \in Threads, Call(t) \/ Run(t) PROVE ThreadsInv'
  BY <1>2, CallInv, ContainsInv, LookupInv, DeathsInv, RegisterStreamInv,
     RegisterStreamEndInv, NextTrackInv, FieldsInv, ParseAudioInv, ParseLaunchInv,
     MediaConfigureInv, ForgetPipelineInv, StatesInv, PushBufferInv, ReadPipelineInv,
     ChecksInv, SetAppsrcInv, FactoriesInv, LockInv, RemoveInv, RemoveEndInv, UnlockInv
     DEF Run
<1> QED
  BY <1>1, <1>2 DEF Next

THEOREM ThreadsInvHolds == Spec => []ThreadsInv
<1> QED
  BY InitThreads, ThreadsStep, PTL DEF Spec

(* Shared memory and locals have their types, for any threads and calls. *)
THEOREM TypeCorrect == Spec => []TypeOK
<1>1. ThreadsInv => TypeOK
  BY DEF ThreadsInv
<1> QED
  BY <1>1, ThreadsInvHolds, PTL

(***************************************************************************)
(* What the mutex of unregister_stream is for: between its contains and    *)
(* its lookup no other unregister_stream removes the entry; a NULL context *)
(* comes from a read that register_stream has torn, or not at all.         *)
(***************************************************************************)
THEOREM UnregisterIsSafe == Spec => []UnregisterSafe
<1>1. ThreadsInv => UnregisterSafe
  BY DEF ThreadsInv
<1> QED
  BY <1>1, ThreadsInvHolds, PTL

-----------------------------------------------------------------------------
(***************************************************************************)
(* NoLaterOutput.  Registrations of an id are only ever added to what its  *)
(* later ones know, and the launch line of a pipeline in use never changes.*)
(***************************************************************************)
Grows ==
  /\ \A c \in Contexts :
       /\ ctx'[c].stream = ctx[c].stream \/ ctx[c].stream = NULL
       /\ ctx[c].lineage \subseteq ctx'[c].lineage
  /\ \A p \in Pipelines : pipe[p].gen # NULL => pipe'[p].gen = pipe[p].gen

OthersStay(t) ==
  \A u \in Threads \ {t} : pc'[u] = pc[u] /\ me'[u] = me[u]

LEMMA KnownGrows ==
  ASSUME Registrations, Grows, NEW s
  PROVE  Known(s) \subseteq Known(s)'
BY DEF Registrations, Grows, Known

LEMMA KnownSame ==
  ASSUME Registrations, Grows, \A c \in Contexts : ctx'[c].lineage = ctx[c].lineage,
         NEW s
  PROVE  Known(s)' = Known(s)
BY DEF Registrations, Grows, Known

LEMMA RegistrationsKept ==
  ASSUME ThreadsInv, Registrations, Grows,
         \A c \in Contexts : ctx'[c].lineage = ctx[c].lineage,
         \A s \in Streams : table'[s] = table[s] \/ table'[s] = NULL
  PROVE  Registrations'
<1>1. \A s : Known(s)' = Known(s)
  BY KnownSame
<1>2. ASSUME NEW c \in Contexts
      PROVE  /\ ctx'[c].lineage # {} => ctx'[c].stream # NULL
             /\ \A d \in ctx'[c].lineage :
                  /\ d \in Contexts /\ ctx'[d].stream = ctx'[c].stream
                  /\ ctx'[d].lineage # {}
  <2>1. CASE ctx[c].lineage = {}
    BY <2>1
  <2>2. CASE ctx[c].lineage # {}
    <3>1. ctx'[c].stream = ctx[c].stream /\ ctx[c].stream # NULL
      BY <2>2 DEF Registrations, Grows
    <3>2. ASSUME NEW d \in ctx[c].lineage
          PROVE  d \in Contexts /\ ctx[d].stream = ctx[c].stream /\ ctx[d].lineage # {}
      BY DEF Registrations, Known
    <3>3. ASSUME NEW d \in ctx[c].lineage PROVE ctx'[d].stream = ctx[d].stream
      BY <3>1, <3>2 DEF Grows
    <3> QED
      BY <3>1, <3>2, <3>3
  <2> QED
    BY <2>1, <2>2
<1>3. ASSUME NEW s \in Streams, table'[s] # NULL
      PROVE  table'[s] \in Known(s)' /\ Known(s)' \subseteq ctx'[table'[s]].lineage
  <2>1. table'[s] = table[s] /\ table[s] \in Contexts
    BY <1>3 DEF ThreadsInv, TypeOK
  <2> QED
    BY <2>1, <1>1, <1>3 DEF Registrations
<1> QED
  BY <1>2, <1>3 DEF Registrations, Known

LEMMA OutputsKept ==
  ASSUME ThreadsInv, OutputsInv, ThreadsInv', NEW t \in Threads, OthersStay(t),
         Grows, Registrations',
         \A s \in Streams : mounts'[s].gen \in Known(s)' \cup {NULL, mounts[s].gen},
         \A p \in Pipelines : pipe'[p].state = "free" =>
           pipe[p].state = "free" /\ pipe'[p].gen = pipe[p].gen /\ pipe'[p].fed = pipe[p].fed,
         \A p \in Pipelines : \A c \in pipe'[p].fed :
           c \in pipe[p].fed \/ pipe'[p].gen \in ctx'[c].lineage,
         \A c \in Contexts :
           \/ ctx'[c].pipeline \in {NULL, ctx[c].pipeline}
           \/ pipe'[ctx'[c].pipeline].gen \in ctx'[c].lineage,
         \A c \in Contexts, k \in Kinds :
           \/ ctx'[c].appsrc[k] \in {NULL, ctx[c].appsrc[k]}
           \/ pipe'[ctx'[c].appsrc[k]].gen \in ctx'[c].lineage,
         OwnContext(t)', OwnLine(t)', OwnPipeline(t)'
  PROVE  OutputsInv'
<1>1. \A s : Known(s) \subseteq Known(s)'
  BY KnownGrows DEF OutputsInv
<1>2. ASSUME NEW p \in Pipelines, NEW c \in Contexts, pipe[p].gen \in ctx[c].lineage
      PROVE  pipe'[p].gen \in ctx'[c].lineage
  <2>1. ctx[c].lineage \subseteq Contexts
    BY DEF ThreadsInv, TypeOK, StreamMapT
  <2>2. pipe[p].gen # NULL
    BY <1>2, <2>1, NullFacts
  <2> QED
    BY <1>2, <2>2 DEF Grows
<1>3. /\ \A c \in Contexts : ctx[c].pipeline \in Pipelines \cup {NULL}
      /\ \A c \in Contexts, k \in Kinds : ctx[c].appsrc[k] \in Pipelines \cup {NULL}
      /\ \A p \in Pipelines : pipe[p].fed \subseteq Contexts
  BY DEF ThreadsInv, TypeOK, StreamMapT, PipelineT
<1>4. Outputs'
  <2>1. ASSUME NEW s \in Streams, mounts'[s].gen # NULL PROVE mounts'[s].gen \in Known(s)'
    BY <2>1, <1>1 DEF OutputsInv, Outputs
  <2>2. ASSUME NEW p \in Pipelines, pipe'[p].state = "free"
        PROVE  pipe'[p].gen = NULL /\ pipe'[p].fed = {}
    BY <2>2 DEF OutputsInv, Outputs
  <2>3. ASSUME NEW c \in Contexts, ctx'[c].pipeline # NULL
        PROVE  pipe'[ctx'[c].pipeline].gen \in ctx'[c].lineage
    BY <2>3, <1>2, <1>3 DEF OutputsInv, Outputs
  <2> QED
    BY <2>1, <2>2, <2>3 DEF Outputs
<1>5. NoLaterOutput'
  <2>1. ASSUME NEW c \in Contexts, NEW k \in Kinds, ctx'[c].appsrc[k] # NULL
        PROVE  pipe'[ctx'[c].appsrc[k]].gen \in ctx'[c].lineage
    BY <2>1, <1>2, <1>3 DEF OutputsInv, NoLaterOutput
  <2>2. ASSUME NEW p \in Pipelines, NEW c \in pipe'[p].fed
        PROVE  pipe'[p].gen \in ctx'[c].lineage
    BY <1>2, <1>3 DEF OutputsInv, NoLaterOutput
  <2> QED
    BY <2>1, <2>2 DEF NoLaterOutput
<1>6. ASSUME NEW u \in Threads \ {t}
      PROVE  OwnContext(u)' /\ OwnLine(u)' /\ OwnPipeline(u)'
  <2>1. pc'[u] = pc[u] /\ me'[u] = me[u] /\ OwnContext(u) /\ OwnLine(u) /\ OwnPipeline(u)
    BY DEF OthersStay, OutputsInv
  <2>2. /\ me[u].ctx \in Contexts \cup {NULL} /\ me[u].pipe \in Pipelines \cup {NULL}
        /\ me[u].ctx # NULL => me[u].ctx \in Contexts
        /\ me[u].pipe # NULL => me[u].pipe \in Pipelines
    BY DEF ThreadsInv, TypeOK, LocalsT
  <2>3. OwnContext(u)'
    BY <2>1, <2>2 DEF OwnContext, HasContext, Mine, Grows
  <2>4. OwnLine(u)'
    BY <2>1, <2>2, <1>1 DEF OwnLine, HasContext, Mine, Grows
  <2>5. ASSUME pc'[u] \in {"rtsp 64", "rtsp 66", "rtsp 68"}
        PROVE  me'[u].pipe # NULL /\ pipe'[me'[u].pipe].gen = me'[u].gen
    <3>1. me[u].pipe # NULL /\ pipe[me[u].pipe].gen = me[u].gen
      BY <2>1, <2>5 DEF OwnPipeline
    <3>2. me[u].gen \in Contexts
      BY <2>1, <2>5 DEF OwnLine, WithLine, Known
    <3> QED
      BY <2>1, <2>2, <3>1, <3>2, NullFacts DEF Grows
  <2>6. ASSUME pc'[u] \in {"184", "191"}, me'[u].pipe # NULL
        PROVE  pipe'[me'[u].pipe].gen \in ctx'[me'[u].ctx].lineage
    <3>1. me[u].ctx \in Contexts /\ me[u].pipe \in Pipelines
      BY <2>1, <2>2, <2>6, Locals DEF Checked, HasContext
    <3> QED
      BY <2>1, <2>6, <3>1, <1>2 DEF OwnPipeline, Mine
  <2>7. OwnPipeline(u)'
    BY <2>5, <2>6 DEF OwnPipeline, Mine
  <2> QED
    BY <2>3, <2>4, <2>7
<1> QED
  BY <1>4, <1>5, <1>6 DEF OutputsInv

(* Of a step that touches no pipeline, no mount and, of the contexts, what *)
(* Plain allows. *)
LEMMA QuietOutputs ==
  ASSUME ThreadsInv, OutputsInv, ThreadsInv', NEW t \in Threads, OthersStay(t),
         Plain, UNCHANGED <<pipe, mounts>>,
         \A s \in Streams : table'[s] = table[s] \/ table'[s] = NULL,
         OwnContext(t)', OwnLine(t)', OwnPipeline(t)'
  PROVE  OutputsInv'
<1>1. Grows
  BY DEF Plain, Grows
<1>2. Registrations'
  BY <1>1, RegistrationsKept DEF Plain, OutputsInv
<1> QED
  BY <1>1, <1>2, OutputsKept DEF Plain

(* The lines at which OutputsInv asks something of a thread. *)
Special == WithLine \cup {"217", "231", "184", "191"}

LEMMA Unspecial ==
  ASSUME ThreadsInv, OutputsInv, NEW t \in Threads, Grows,
         pc'[t] \notin Special,
         me'[t].ctx = me[t].ctx, me'[t].stream = me[t].stream
  PROVE  OwnContext(t)' /\ OwnLine(t)' /\ OwnPipeline(t)'
<1>1. me[t].ctx \in Contexts \cup {NULL}
  BY Locals
<1>2. OwnContext(t)'
  BY <1>1 DEF OutputsInv, OwnContext, HasContext, Mine, Grows
<1>3. OwnLine(t)' /\ OwnPipeline(t)'
  BY DEF OwnLine, OwnPipeline, Special, WithLine
<1> QED
  BY <1>2, <1>3

(* A step of one thread, and what is left of the others. *)
LEMMA StepFrame ==
  ASSUME ThreadsInv, NEW t \in Threads, NEW from, NEW to, NEW l, Step(t, from, to),
         me' = [me EXCEPT ![t] = l]
  PROVE  pc[t] = from /\ pc'[t] = to /\ me'[t] = l /\ OthersStay(t)
BY DEF ThreadsInv, TypeOK, Step, OthersStay

LEMMA PassFrame ==
  ASSUME ThreadsInv, NEW t \in Threads, NEW from, NEW to, Step(t, from, to), UNCHANGED me
  PROVE  pc[t] = from /\ pc'[t] = to /\ me'[t] = me[t] /\ OthersStay(t)
BY DEF ThreadsInv, TypeOK, Step, OthersStay

LEMMA InitOutputs == Init => OutputsInv
<1> SUFFICES ASSUME Init PROVE OutputsInv
  OBVIOUS
<1>1. PICK Registered \in SUBSET Streams, home \in [Streams -> Contexts],
           tracks \in SUBSET Tracks \ {{}} : \E Mounted \in SUBSET Registered :
       /\ \A s, t \in Registered : home[s] = home[t] => s = t
       /\ table = [s \in Streams |-> IF s \in Registered THEN home[s] ELSE NULL]
       /\ ctx = [c \in Contexts |->
                   IF \E s \in Registered : home[s] = c
                   THEN LET s == CHOOSE s \in Registered : home[s] = c
                        IN  Announced(s, c, tracks, s \in Mounted)
                   ELSE NewContext(NULL)]
       /\ mounts = [s \in Streams |->
                      IF s \in Mounted THEN [gen |-> home[s], kinds |-> tracks]
                      ELSE NoFactory]
  BY DEF Init
<1>2. PICK Mounted \in SUBSET Registered :
       /\ \A s, t \in Registered : home[s] = home[t] => s = t
       /\ table = [s \in Streams |-> IF s \in Registered THEN home[s] ELSE NULL]
       /\ ctx = [c \in Contexts |->
                   IF \E s \in Registered : home[s] = c
                   THEN LET s == CHOOSE s \in Registered : home[s] = c
                        IN  Announced(s, c, tracks, s \in Mounted)
                   ELSE NewContext(NULL)]
       /\ mounts = [s \in Streams |->
                      IF s \in Mounted THEN [gen |-> home[s], kinds |-> tracks]
                      ELSE NoFactory]
  BY <1>1
<1>3. ASSUME NEW s \in Registered
      PROVE  /\ ctx[home[s]].stream = s /\ ctx[home[s]].lineage = {home[s]}
             /\ ctx[home[s]].pipeline = NULL
             /\ ctx[home[s]].appsrc = [k \in Kinds |-> NULL]
  <2>1. (CHOOSE x \in Registered : home[x] = home[s]) = s
    BY <1>2
  <2>2. ctx[home[s]] = Announced(s, home[s], tracks, s \in Mounted)
    BY <1>2, <2>1
  <2> QED
    BY <2>2 DEF Announced, NewContext
<1>4. ASSUME NEW c \in Contexts, ~\E s \in Registered : home[s] = c
      PROVE  /\ ctx[c].stream = NULL /\ ctx[c].lineage = {} /\ ctx[c].pipeline = NULL
             /\ ctx[c].appsrc = [k \in Kinds |-> NULL]
  BY <1>2, <1>4 DEF NewContext
<1>5. ASSUME NEW s \in Registered PROVE Known(s) = {home[s]}
  <2>1. home[s] \in Known(s)
    BY <1>3 DEF Known
  <2>2. ASSUME NEW c \in Known(s) PROVE c = home[s]
    <3>1. c \in Contexts /\ ctx[c].stream = s /\ ctx[c].lineage # {}
      BY DEF Known
    <3>2. PICK x \in Registered : home[x] = c
      BY <3>1, <1>4
    <3> QED
      BY <3>1, <3>2, <1>3
  <2> QED
    BY <2>1, <2>2
<1>6. Registrations
  <2>1. ASSUME NEW c \in Contexts
        PROVE  /\ ctx[c].lineage # {} => ctx[c].stream # NULL
               /\ ctx[c].lineage \subseteq Known(ctx[c].stream)
    <3>1. CASE \E s \in Registered : home[s] = c
      BY <3>1, <1>3, <1>5, NullFacts
    <3>2. CASE ~\E s \in Registered : home[s] = c
      BY <3>2, <1>4
    <3> QED
      BY <3>1, <3>2
  <2>2. ASSUME NEW s \in Streams, table[s] # NULL
        PROVE  table[s] \in Known(s) /\ Known(s) \subseteq ctx[table[s]].lineage
    <3>1. s \in Registered /\ table[s] = home[s]
      BY <2>2, <1>2
    <3> QED
      BY <3>1, <1>3, <1>5
  <2> QED
    BY <2>1, <2>2 DEF Registrations
<1>7. Outputs /\ NoLaterOutput
  <2>1. ASSUME NEW s \in Streams, mounts[s].gen # NULL PROVE mounts[s].gen \in Known(s)
    <3>1. s \in Registered /\ mounts[s].gen = home[s]
      BY <2>1, <1>2 DEF NoFactory
    <3> QED
      BY <3>1, <1>5
  <2>2. \A c \in Contexts : ctx[c].pipeline = NULL /\ \A k \in Kinds : ctx[c].appsrc[k] = NULL
    BY <1>3, <1>4
  <2>3. \A p \in Pipelines : pipe[p].gen = NULL /\ pipe[p].fed = {}
    BY DEF Init, NewPipeline
  <2> QED
    BY <2>1, <2>2, <2>3 DEF Outputs, NoLaterOutput
<1>8. ASSUME NEW t \in Threads PROVE OwnContext(t) /\ OwnLine(t) /\ OwnPipeline(t)
  <2>1. pc[t] = "start" /\ me[t].ctx = NULL
    BY DEF Init, NoLocals
  <2> QED
    BY <2>1 DEF OwnContext, HasContext, OwnLine, WithLine, OwnPipeline
<1> QED
  BY <1>6, <1>7, <1>8 DEF OutputsInv

-----------------------------------------------------------------------------
(* OutputsInv, line by line. *)

LEMMA CallOutputs ==
  ASSUME ThreadsInv, OutputsInv, ThreadsInv', NEW t \in Threads,
         \/ CallOnPacket(t) \/ CallStreamStarted(t) \/ CallRegisterPipeline(t)
         \/ CallUnregisterStream(t)
  PROVE  OutputsInv'
<1>1. PICK line \in {"76", "696", "415", "738"} :
        \E l : Step(t, "start", line) /\ me' = [me EXCEPT ![t] = l] /\ l.ctx = NULL
  <2>1. ASSUME NEW s, NEW k
        PROVE  /\ [NoLocals EXCEPT !.stream = s].ctx = NULL
               /\ [NoLocals EXCEPT !.stream = s, !.kind = k].ctx = NULL
               /\ [NoLocals EXCEPT !.stream = s, !.kinds = k].ctx = NULL
    BY DEF NoLocals
  <2>2. CASE CallOnPacket(t)
    <3>1. PICK s \in Streams, k \in Tracks :
            Enter(t, "onPacket", "76", [NoLocals EXCEPT !.stream = s, !.kind = k])
      BY <2>2 DEF CallOnPacket
    <3> QED
      BY <2>1, <3>1 DEF Enter
  <2>3. CASE CallStreamStarted(t)
    <3>1. PICK s \in Streams, k \in SUBSET Tracks :
            Enter(t, "streamStarted", "696", [NoLocals EXCEPT !.stream = s, !.kinds = k])
      BY <2>3 DEF CallStreamStarted
    <3> QED
      BY <2>1, <3>1 DEF Enter
  <2>4. CASE CallRegisterPipeline(t) \/ CallUnregisterStream(t)
    <3>1. PICK s \in Streams, line \in {"415", "738"} :
            /\ Step(t, "start", line)
            /\ me' = [me EXCEPT ![t] = [NoLocals EXCEPT !.stream = s]]
      BY <2>4 DEF CallRegisterPipeline, CallUnregisterStream, Enter
    <3> QED
      BY <2>1, <3>1
  <2> QED
    BY <2>2, <2>3, <2>4
<1>2. UNCHANGED <<table, writing, ctx, pipe, mounts, mutex>>
  BY DEF CallOnPacket, CallStreamStarted, CallRegisterPipeline, CallUnregisterStream, shared
<1>3. pc'[t] = line /\ me'[t].ctx = NULL /\ OthersStay(t)
  BY <1>1, StepFrame
<1>4. OwnContext(t)' /\ OwnLine(t)' /\ OwnPipeline(t)'
  BY <1>3 DEF OwnContext, HasContext, OwnLine, WithLine, OwnPipeline
<1> QED
  BY <1>2, <1>3, <1>4, PlainUnchanged, QuietOutputs

(* A pipeline in use, made from a line that is known, for a context. *)
LEMMA BuiltGrows ==
  ASSUME ThreadsInv, OutputsInv, NEW p \in Pipelines, pipe[p].state = "free",
         \A q \in Pipelines \ {p} : pipe'[q] = pipe[q],
         \A c \in Contexts : ctx'[c].stream = ctx[c].stream /\ ctx'[c].lineage = ctx[c].lineage
  PROVE  Grows
BY DEF OutputsInv, Outputs, Grows

LEMMA CallMediaConfigureOutputs ==
  ASSUME ThreadsInv, OutputsInv, ThreadsInv', NEW t \in Threads, CallMediaConfigure(t)
  PROVE  OutputsInv'
<1>1. PICK s \in Streams, p \in Pipelines :
        /\ mounts[s].gen # NULL /\ pipe[p].state = "free"
        /\ pipe' = [pipe EXCEPT ![p] = NewPipeline("playing", mounts[s].gen, mounts[s].kinds)]
        /\ Enter(t, "media_configure", "rtsp 64",
                 [NoLocals EXCEPT !.stream = s, !.pipe = p, !.gen = mounts[s].gen])
        /\ UNCHANGED <<table, writing, ctx, mounts, mutex>>
  BY DEF CallMediaConfigure
<1> DEFINE g == mounts[s].gen
           l == [NoLocals EXCEPT !.stream = s, !.pipe = p, !.gen = g]
<1>2. g \in Contexts \cup {NULL} /\ mounts[s].kinds \in SUBSET Kinds /\ g \in Known(s)
  BY <1>1 DEF ThreadsInv, TypeOK, FactoryT, OutputsInv, Outputs
<1>3. /\ \A q \in Pipelines \ {p} : pipe'[q] = pipe[q]
      /\ pipe'[p].state = "playing" /\ pipe'[p].gen = g /\ pipe'[p].fed = {}
  BY <1>1, <1>2, PipelineBuilt
<1>4. Grows
  BY <1>1, <1>3, BuiltGrows
<1>5. Registrations'
  BY <1>1, <1>4, RegistrationsKept DEF OutputsInv
<1>6. Step(t, "start", "rtsp 64") /\ me' = [me EXCEPT ![t] = l]
  BY <1>1 DEF Enter
<1>7. l.stream = s /\ l.pipe = p /\ l.gen = g /\ l.ctx = NULL
  BY DEF NoLocals
<1> HIDE DEF l
<1>8. /\ pc'[t] = "rtsp 64" /\ me'[t].stream = s /\ me'[t].pipe = p /\ me'[t].gen = g
      /\ me'[t].ctx = NULL /\ OthersStay(t)
  BY <1>6, <1>7, StepFrame
<1>9. Known(s)' = Known(s)
  BY <1>1 DEF Known
<1>10. OwnContext(t)' /\ OwnLine(t)' /\ OwnPipeline(t)'
  BY <1>2, <1>3, <1>8, <1>9, NullFacts DEF OwnContext, HasContext, OwnLine, WithLine, OwnPipeline
<1> HIDE DEF g
<1> QED
  BY <1>1, <1>3, <1>4, <1>5, <1>8, <1>10, OutputsKept

LEMMA ContainsOutputs ==
  ASSUME ThreadsInv, OutputsInv, ThreadsInv', NEW t \in Threads, Contains(t)
  PROVE  OutputsInv'
<1>0. PICK b \in ContainsAt : \E to \in {b[2], b[3]} : Step(t, b[1], to)
  BY DEF Contains
<1>1. PICK to \in {b[2], b[3]} : Step(t, b[1], to)
  BY <1>0
<1>2. UNCHANGED <<table, writing, ctx, pipe, mounts, mutex, me>>
  BY DEF Contains, shared
<1>3. pc[t] = b[1] /\ pc'[t] = to /\ me'[t] = me[t] /\ OthersStay(t)
  BY <1>1, <1>2, PassFrame
<1>4. /\ to \notin {"217", "231", "610", "rtsp 68", "184", "191"}
      /\ to \in WithLine => b[1] \in WithLine
      /\ to \in {"rtsp 64", "rtsp 66", "rtsp 68"} => b[1] = "rtsp 64"
  BY ContainsLines DEF WithLine
<1>5. OwnContext(t) /\ OwnLine(t) /\ OwnPipeline(t)
  BY DEF OutputsInv
<1>6. OwnContext(t)' /\ OwnLine(t)' /\ OwnPipeline(t)'
  BY <1>2, <1>3, <1>4, <1>5
     DEF OwnContext, HasContext, Mine, OwnLine, Known, OwnPipeline
<1> QED
  BY <1>2, <1>3, <1>6, PlainUnchanged, QuietOutputs

LEMMA LookupOutputs ==
  ASSUME ThreadsInv, OutputsInv, ThreadsInv', NEW t \in Threads, Lookup(t)
  PROVE  OutputsInv'
<1>1. PICK b \in LookupAt : Step(t, b[1], b[2])
  BY DEF Lookup
<1>2. PICK c \in Found(t) : me' = [me EXCEPT ![t].ctx = c]
  BY DEF Lookup
<1>3. UNCHANGED <<table, writing, ctx, pipe, mounts, mutex>>
  BY DEF Lookup, shared
<1>0. PICK s : s = me[t].stream
  OBVIOUS
<1> DEFINE l == [me[t] EXCEPT !.ctx = c]
<1>4. b[1] # "start" /\ pc[t] = b[1]
  BY <1>1, ReadLines DEF Step
<1>5. me[t] \in LocalsT /\ s \in Streams /\ c \in Contexts \cup {NULL}
  BY <1>0, <1>4, Locals
<1>6. l.ctx = c /\ l.stream = s /\ l.gen = me[t].gen /\ l.pipe = me[t].pipe
  BY <1>0, <1>5, LocalFields
<1>7. me' = [me EXCEPT ![t] = l]
  BY <1>2
<1> HIDE DEF l
<1>8. PICK from, to : from = b[1] /\ to = b[2]
  OBVIOUS
<1>9. Step(t, from, to)
  BY <1>1, <1>8
<1>10. pc'[t] = to /\ me'[t] = l /\ OthersStay(t)
  BY <1>7, <1>9, StepFrame
<1>11. /\ pc'[t] = b[2] /\ me'[t].ctx = c /\ me'[t].stream = s
      /\ me'[t].gen = me[t].gen /\ me'[t].pipe = me[t].pipe /\ OthersStay(t)
  BY <1>6, <1>8, <1>10
<1>12. c # NULL => c \in Known(s) /\ Known(s) \subseteq ctx[c].lineage
  BY <1>0, <1>5 DEF Found, OutputsInv, Registrations
<1>13. s # NULL
  BY <1>5, NullFacts
<1>14. OwnContext(t)'
  BY <1>3, <1>11, <1>12, <1>13 DEF OwnContext, HasContext, Mine, Known
<1>15. /\ b[2] \notin {"231", "184", "191", "rtsp 64", "rtsp 66"}
       /\ b[2] \in WithLine => b[1] \in WithLine
       /\ b[2] = "rtsp 68" => b[1] = "rtsp 66"
  BY LookupLines DEF WithLine
<1>16. OwnLine(t) /\ OwnPipeline(t)
  BY DEF OutputsInv
<1>17. Known(s)' = Known(s)
  BY <1>3 DEF Known
<1>18. b[2] \in WithLine => me[t].gen \in Known(s)
  BY <1>0, <1>4, <1>15, <1>16 DEF OwnLine
<1>19. b[2] \in {"610", "rtsp 68"} => b[2] \in WithLine
  BY DEF WithLine
<1>20. OwnLine(t)'
  BY <1>3, <1>11, <1>12, <1>17, <1>18, <1>19 DEF OwnLine, HasContext, Mine
<1>21. OwnPipeline(t)'
  BY <1>3, <1>4, <1>11, <1>15, <1>16 DEF OwnPipeline
<1> QED
  BY <1>3, <1>11, <1>14, <1>20, <1>21, PlainUnchanged, QuietOutputs

(* What stays when nothing but the status of the process changes. *)
LEMMA OutputsStay ==
  ASSUME OutputsInv, UNCHANGED <<table, writing, ctx, pipe, mounts, pc, me>>
  PROVE  OutputsInv'
<1>1. Registrations' /\ Outputs'
  BY DEF OutputsInv, Registrations, Outputs, Known
<1>2. NoLaterOutput'
  BY DEF OutputsInv, NoLaterOutput
<1>3. ASSUME NEW u \in Threads PROVE OwnContext(u)' /\ OwnLine(u)' /\ OwnPipeline(u)'
  <2>1. OwnContext(u) /\ OwnLine(u) /\ OwnPipeline(u)
    BY DEF OutputsInv
  <2> QED
    BY <2>1 DEF OwnContext, OwnLine, OwnPipeline, HasContext, Mine, Known
<1> QED
  BY <1>1, <1>2, <1>3 DEF OutputsInv

LEMMA DiesOutputs ==
  ASSUME OutputsInv, NEW t \in Threads, NEW from, NEW how, Dies(t, from, how)
  PROVE  OutputsInv'
BY OutputsStay DEF Dies, shared

LEMMA RegisterStreamOutputs ==
  ASSUME ThreadsInv, OutputsInv, ThreadsInv', NEW t \in Threads, RegisterStream(t)
  PROVE  OutputsInv'
<1> DEFINE s == me[t].stream
<1>1. PICK c \in Contexts :
        /\ ctx[c].stream = NULL
        /\ ctx' = [ctx EXCEPT ![c] = NewContext(s)]
        /\ me' = [me EXCEPT ![t].ctx = c]
  BY DEF RegisterStream
<1>2. Step(t, "696", "696 in") /\ UNCHANGED <<table, pipe, mounts>> /\ pc[t] = "696"
  BY DEF RegisterStream, Writes, Step
<1> DEFINE l == [me[t] EXCEPT !.ctx = c]
<1>3. me[t] \in LocalsT /\ s \in Streams /\ s # NULL
  BY <1>2, Locals, NullFacts
<1>4. l.ctx = c /\ l.stream = s
  BY <1>3, LocalFields
<1>5. me' = [me EXCEPT ![t] = l]
  BY <1>1
<1> HIDE DEF l
<1>6. pc'[t] = "696 in" /\ me'[t].ctx = c /\ me'[t].stream = s /\ OthersStay(t)
  BY <1>2, <1>4, <1>5, StepFrame
<1>7. /\ ctx'[c].stream = s /\ ctx'[c].lineage = {} /\ ctx'[c].pipeline = NULL
      /\ ctx'[c].appsrc = [k \in Kinds |-> NULL]
      /\ \A d \in Contexts \ {c} : ctx'[d] = ctx[d]
  BY <1>1 DEF NewContext, ThreadsInv, TypeOK
<1>8. ctx[c].lineage = {}
  BY <1>1 DEF OutputsInv, Registrations
<1>9. Grows
  BY <1>1, <1>2, <1>7, <1>8 DEF Grows
<1>10. Registrations'
  BY <1>2, <1>7, <1>8, <1>9, RegistrationsKept DEF OutputsInv
<1>11. OwnContext(t)' /\ OwnLine(t)' /\ OwnPipeline(t)'
  BY <1>3, <1>6, <1>7 DEF OwnContext, HasContext, Mine, OwnLine, WithLine, OwnPipeline
<1>12. \A d \in Contexts : ctx'[d].pipeline \in {NULL, ctx[d].pipeline}
  BY <1>7
<1>13. \A d \in Contexts, k \in Kinds : ctx'[d].appsrc[k] \in {NULL, ctx[d].appsrc[k]}
  BY <1>7
<1> QED
  BY <1>2, <1>6, <1>9, <1>10, <1>11, <1>12, <1>13, OutputsKept

LEMMA RegisterStreamEndOutputs ==
  ASSUME ThreadsInv, OutputsInv, ThreadsInv', NEW t \in Threads, RegisterStreamEnd(t)
  PROVE  OutputsInv'
<1>0. PICK c, s : c = me[t].ctx /\ s = me[t].stream
  OBVIOUS
<1>1. /\ c \in Contexts /\ s \in Streams
      /\ \A d \in Contexts :
           /\ ctx'[d].stream = ctx[d].stream /\ ctx'[d].pipeline = ctx[d].pipeline
           /\ ctx'[d].appsrc = ctx[d].appsrc
           /\ ctx'[d].contended = ctx[d].contended /\ ctx'[d].caps = ctx[d].caps
           /\ d # c => ctx'[d].lineage = ctx[d].lineage
      /\ \/ ctx'[c].lineage = Known(s) \cup {c} /\ table' = [table EXCEPT ![s] = c]
         \/ UNCHANGED <<table, ctx>>
  BY <1>0, LineageWritten
<1>2. Step(t, "696 in", "next") /\ UNCHANGED <<pipe, mounts, me>>
  BY DEF RegisterStreamEnd, Leaves
<1>3. pc[t] = "696 in" /\ pc'[t] = "next" /\ me'[t] = me[t] /\ OthersStay(t)
  BY <1>2, PassFrame
<1>4. ctx[c].stream = s /\ s # NULL /\ c # NULL
  BY <1>0, <1>1, <1>3, NullFacts DEF OutputsInv, OwnContext, HasContext, Mine
<1>5. ctx[c].lineage \subseteq Known(s)
  BY <1>1, <1>4 DEF OutputsInv, Registrations
<1>6. Grows
  BY <1>1, <1>2, <1>5 DEF Grows
<1>7. Registrations'
  <2>1. CASE UNCHANGED <<table, ctx>>
    BY <2>1, <1>6, RegistrationsKept DEF OutputsInv
  <2>2. CASE ctx'[c].lineage = Known(s) \cup {c} /\ table' = [table EXCEPT ![s] = c]
    <3>1. Known(s)' = Known(s) \cup {c}
      BY <2>2, <1>1, <1>4 DEF Known
    <3>2. ASSUME NEW x, x # s PROVE Known(x)' = Known(x)
      BY <3>2, <1>1, <1>4 DEF Known
    <3>3. ASSUME NEW d \in Contexts
          PROVE  /\ ctx'[d].lineage # {} => ctx'[d].stream # NULL
                 /\ \A e \in ctx'[d].lineage :
                      /\ e \in Contexts /\ ctx'[e].stream = ctx'[d].stream
                      /\ ctx'[e].lineage # {}
      <4>1. CASE d = c
        <5>1. ASSUME NEW e \in Known(s) \cup {c}
              PROVE  e \in Contexts /\ ctx'[e].stream = s /\ ctx'[e].lineage # {}
          BY <5>1, <1>1, <1>4, <2>2 DEF Known
        <5> QED
          BY <4>1, <5>1, <1>1, <1>4, <2>2
      <4>2. CASE d # c
        <5>1. /\ ctx'[d].lineage = ctx[d].lineage /\ ctx'[d].stream = ctx[d].stream
              /\ ctx[d].lineage # {} => ctx[d].stream # NULL
              /\ \A e \in ctx[d].lineage :
                   e \in Contexts /\ ctx[e].stream = ctx[d].stream /\ ctx[e].lineage # {}
          BY <4>2, <1>1 DEF OutputsInv, Registrations, Known
        <5>2. ASSUME NEW e \in ctx[d].lineage PROVE ctx'[e].lineage # {}
          <6>1. ctx[e].lineage \subseteq ctx'[e].lineage
            BY <5>1, <1>6 DEF Grows
          <6> QED
            BY <5>1, <6>1
        <5> QED
          BY <5>1, <5>2, <1>1
      <4> QED
        BY <4>1, <4>2
    <3>4. ASSUME NEW x \in Streams, table'[x] # NULL
          PROVE  table'[x] \in Known(x)' /\ Known(x)' \subseteq ctx'[table'[x]].lineage
      <4>1. CASE x = s
        <5>1. table'[x] = c
          BY <4>1, <2>2, <1>1 DEF ThreadsInv, TypeOK
        <5> QED
          BY <4>1, <5>1, <3>1, <2>2
      <4>2. CASE x # s
        <5>1. table'[x] = table[x]
          BY <4>2, <2>2, <1>1 DEF ThreadsInv, TypeOK
        <5>2. table[x] \in Known(x) /\ Known(x) \subseteq ctx[table[x]].lineage
          BY <3>4, <5>1 DEF OutputsInv, Registrations
        <5>3. table[x] # c /\ table[x] \in Contexts
          BY <4>2, <5>2, <1>4 DEF Known
        <5> QED
          BY <4>2, <5>1, <5>2, <5>3, <3>2, <1>1
      <4> QED
        BY <4>1, <4>2
    <3> QED
      BY <3>3, <3>4 DEF Registrations, Known
  <2> QED
    BY <1>1, <2>1, <2>2
<1>8. OwnContext(t)' /\ OwnLine(t)' /\ OwnPipeline(t)'
  BY <1>3, <1>6, Unspecial DEF Special, WithLine
<1> QED
  BY <1>1, <1>2, <1>3, <1>6, <1>7, <1>8, OutputsKept

LEMMA NextTrackOutputs ==
  ASSUME ThreadsInv, OutputsInv, ThreadsInv', NEW t \in Threads, NextTrack(t)
  PROVE  OutputsInv'
<1>1. UNCHANGED <<table, writing, ctx, pipe, mounts, mutex>>
  BY DEF NextTrack, shared
<1>2. PICK to \in {"662", "415", "done"} : \E l :
        /\ Step(t, "next", to) /\ me' = [me EXCEPT ![t] = l]
        /\ l.stream = me[t].stream /\ l.ctx = me[t].ctx
  <2> DEFINE kinds == me[t].kinds
             k     == IF "video" \in kinds THEN "video" ELSE "audio"
             l     == [me[t] EXCEPT !.kind = k, !.kinds = @ \ {k}]
  <2>1. CASE Step(t, "next", "662") /\ me' = [me EXCEPT ![t].kind = k, ![t].kinds = @ \ {k}]
    <3>1. me' = [me EXCEPT ![t] = l]
      BY <2>1 DEF ThreadsInv, TypeOK
    <3> HIDE DEF k
    <3>2. l.stream = me[t].stream /\ l.ctx = me[t].ctx
      BY Locals DEF LocalsT
    <3> HIDE DEF l
    <3> QED
      BY <2>1, <3>1, <3>2
  <2>2. CASE UNCHANGED me /\ \E to \in {"415", "done"} : Step(t, "next", to)
    <3>1. me' = [me EXCEPT ![t] = me[t]]
      BY <2>2 DEF ThreadsInv, TypeOK
    <3> QED
      BY <2>2, <3>1
  <2> QED
    BY <2>1, <2>2 DEF NextTrack
<1>3. /\ pc'[t] = to /\ me'[t].stream = me[t].stream /\ me'[t].ctx = me[t].ctx
      /\ OthersStay(t)
  BY <1>2, StepFrame
<1>4. Grows
  BY <1>1 DEF Grows
<1>5. OwnContext(t)' /\ OwnLine(t)' /\ OwnPipeline(t)'
  BY <1>3, <1>4, Unspecial DEF Special, WithLine
<1> QED
  BY <1>1, <1>3, <1>5, PlainUnchanged, QuietOutputs


(* The lines that leave the locals and all that OutputsInv is about. *)
LEMMA PassOutputs ==
  ASSUME ThreadsInv, OutputsInv, ThreadsInv', NEW t \in Threads, NEW from, NEW to,
         Step(t, from, to), Plain, UNCHANGED <<pipe, mounts, me>>,
         \A s \in Streams : table'[s] = table[s] \/ table'[s] = NULL,
         \/ to \notin Special
         \/ from = "217" /\ to = "231"
         \/ from = "rtsp 118" /\ to = "rtsp 119"
  PROVE  OutputsInv'
<1>1. pc[t] = from /\ pc'[t] = to /\ me'[t] = me[t] /\ OthersStay(t)
  BY PassFrame
<1>2. Grows
  BY DEF Plain, Grows
<1>3. \A s : Known(s) \subseteq Known(s)'
  BY <1>2, KnownGrows DEF OutputsInv
<1>4. OwnContext(t)' /\ OwnLine(t)' /\ OwnPipeline(t)'
  <2>1. CASE to \notin Special
    BY <2>1, <1>1, <1>2, Unspecial
  <2>2. CASE \/ from = "217" /\ to = "231"
             \/ from = "rtsp 118" /\ to = "rtsp 119"
    <3>1. me[t].ctx \in Contexts \cup {NULL} /\ OwnContext(t) /\ OwnLine(t)
      BY Locals DEF OutputsInv
    <3>2. OwnContext(t)'
      BY <1>1, <1>2, <3>1 DEF OwnContext, HasContext, Mine, Grows
    <3>3. OwnLine(t)'
      BY <2>2, <1>1, <1>3, <3>1 DEF OwnLine, HasContext, WithLine
    <3>4. OwnPipeline(t)'
      BY <2>2, <1>1 DEF OwnPipeline
    <3> QED
      BY <3>2, <3>3, <3>4
  <2> QED
    BY <2>1, <2>2
<1> QED
  BY <1>1, <1>4, QuietOutputs

LEMMA FieldsOutputs ==
  ASSUME ThreadsInv, OutputsInv, ThreadsInv', NEW t \in Threads,
         \/ SetStreamInfo(t) \/ InitCodec(t) \/ ParseVideo(t) \/ SetMountpoint(t)
         \/ SetInitialized(t)
  PROVE  OutputsInv'
<1>1. /\ "676" \notin Special /\ "next" \notin Special /\ "done" \notin Special
  BY DEF Special, WithLine
<1>2. pc[t] \in {"676", "194"} => HasContext(t)
  BY Locals DEF Checked
<1>3. CASE SetStreamInfo(t)
  <2>1. PICK to \in {"676", "next"} : Step(t, "674", to)
    BY <1>3 DEF SetStreamInfo
  <2>2. HasContext(t) /\ UNCHANGED <<table, pipe, mounts, me>>
    BY <1>3 DEF SetStreamInfo, OnlyContext
  <2> QED
    BY <1>1, <1>3, <2>1, <2>2, PlainSteps, PassOutputs
<1>4. CASE InitCodec(t)
  <2>1. Step(t, "676", "next") /\ UNCHANGED <<table, pipe, mounts, me>> /\ HasContext(t)
    BY <1>2, <1>4 DEF InitCodec, OnlyContext, Step
  <2> QED
    BY <1>1, <1>4, <2>1, PlainSteps, PassOutputs
<1>5. CASE ParseVideo(t)
  <2>1. CASE Dies(t, "217", "segv")
    BY <2>1, DiesOutputs
  <2>2. CASE /\ Step(t, "217", "231") /\ OnlyContext /\ HasContext(t)
             /\ ctx' = [ctx EXCEPT ![me[t].ctx].caps = @ \cup (Mine(t).par \cap {"video"})]
    BY <2>2, PlainSteps, PassOutputs DEF OnlyContext
  <2> QED
    BY <1>5, <2>1, <2>2 DEF ParseVideo
<1>6. CASE SetMountpoint(t)
  BY <1>6, PlainSteps, PassOutputs DEF SetMountpoint, OnlyContext
<1>7. CASE SetInitialized(t)
  <2>1. Step(t, "194", "done") /\ UNCHANGED <<table, pipe, mounts, me>> /\ HasContext(t)
    BY <1>2, <1>7 DEF SetInitialized, OnlyContext, Step
  <2> QED
    BY <1>1, <1>7, <2>1, PlainSteps, PassOutputs
<1> QED
  BY <1>3, <1>4, <1>5, <1>6, <1>7

LEMMA ChecksOutputs ==
  ASSUME ThreadsInv, OutputsInv, ThreadsInv', NEW t \in Threads,
         \/ CheckPipeline(t) \/ CheckSources(t) \/ CheckOutput(t)
         \/ Lock(t) \/ Remove(t) \/ RemoveEnd(t) \/ Unlock(t)
  PROVE  OutputsInv'
<1>1. PICK from, to :
        /\ Step(t, from, to)
        /\ to \in {"done", "180", "push", "761", "747", "741", "761 in", "774"}
  BY DEF CheckPipeline, CheckSources, CheckOutput, Lock, Remove, RemoveEnd, Unlock
<1>2. UNCHANGED <<ctx, pipe, mounts, me>>
  BY DEF CheckPipeline, CheckSources, CheckOutput, Lock, Remove, RemoveEnd, Unlock,
         OnlyHere, shared, Writes, Leaves
<1>3. \A s \in Streams : table'[s] = table[s] \/ table'[s] = NULL
  BY DEF CheckPipeline, CheckSources, CheckOutput, Lock, Remove, RemoveEnd, Unlock,
         OnlyHere, shared, Writes, Leaves, ThreadsInv, TypeOK
<1>4. to \notin Special
  BY <1>1 DEF Special, WithLine
<1> QED
  BY <1>1, <1>2, <1>3, <1>4, PlainUnchanged, PassOutputs

LEMMA StatesOutputs ==
  ASSUME ThreadsInv, OutputsInv, ThreadsInv', NEW t \in Threads,
         SetPlaying(t) \/ SetNull(t)
  PROVE  OutputsInv'
<1>1. PICK from, to, p, st :
        /\ Step(t, from, to) /\ to \in {"175", "748"}
        /\ st \in {"null", "playing"} /\ pipe' = InState(p, st)
        /\ UNCHANGED <<table, ctx, mounts, me>>
  BY DEF SetPlaying, SetNull, OnlyPipelines
<1>2. \A q \in Pipelines :
        /\ pipe'[q].gen = pipe[q].gen /\ pipe'[q].fed = pipe[q].fed
        /\ pipe'[q].state = "free" => pipe[q].state = "free"
  BY <1>1, StateSet
<1>3. Grows
  BY <1>1, <1>2 DEF Grows
<1>4. Registrations'
  BY <1>1, <1>3, RegistrationsKept DEF OutputsInv
<1>5. pc'[t] = to /\ me'[t] = me[t] /\ OthersStay(t)
  BY <1>1, PassFrame
<1>6. OwnContext(t)' /\ OwnLine(t)' /\ OwnPipeline(t)'
  BY <1>1, <1>3, <1>5, Unspecial DEF Special, WithLine
<1> QED
  BY <1>1, <1>2, <1>3, <1>4, <1>5, <1>6, OutputsKept

LEMMA FactoriesOutputs ==
  ASSUME ThreadsInv, OutputsInv, ThreadsInv', NEW t \in Threads,
         AddFactory(t) \/ RemoveFactory(t)
  PROVE  OutputsInv'
<1>1. PICK from, to : Step(t, from, to) /\ to \in {"done", "761"}
  BY DEF AddFactory, RemoveFactory
<1>2. UNCHANGED <<table, ctx, pipe, me>>
  BY DEF AddFactory, RemoveFactory
<1>3. \A s \in Streams : mounts'[s].gen \in Known(s) \cup {NULL, mounts[s].gen}
  <2>1. CASE AddFactory(t)
    <3>1. me[t].gen \in Known(me[t].stream)
      BY <2>1 DEF AddFactory, Step, OutputsInv, OwnLine, WithLine
    <3>2. mounts' = [mounts EXCEPT ![me[t].stream] = [gen |-> me[t].gen, kinds |-> me[t].text]]
      BY <2>1 DEF AddFactory
    <3> QED
      BY <3>1, <3>2 DEF ThreadsInv, TypeOK
  <2>2. CASE RemoveFactory(t)
    BY <2>2 DEF RemoveFactory, NoFactory, ThreadsInv, TypeOK
  <2> QED
    BY <2>1, <2>2
<1>4. Grows
  BY <1>2 DEF Grows
<1>5. Registrations'
  BY <1>2, <1>4, RegistrationsKept DEF OutputsInv
<1>6. pc'[t] = to /\ me'[t] = me[t] /\ OthersStay(t)
  BY <1>1, <1>2, PassFrame
<1>7. OwnContext(t)' /\ OwnLine(t)' /\ OwnPipeline(t)'
  BY <1>1, <1>4, <1>6, Unspecial DEF Special, WithLine
<1>8. \A s \in Streams : mounts'[s].gen \in Known(s)' \cup {NULL, mounts[s].gen}
  BY <1>2, <1>3 DEF Known
<1> QED
  BY <1>2, <1>4, <1>5, <1>6, <1>7, <1>8, OutputsKept

(* A line that writes ctx->pipeline: with nothing, or with a pipeline of a *)
(* line that the context knows. *)
LEMMA PipelineOutputs ==
  ASSUME ThreadsInv, OutputsInv, ThreadsInv', NEW t \in Threads, HasContext(t),
         NEW from, NEW to, Step(t, from, to), to \notin Special,
         UNCHANGED <<table, mounts, me>>,
         NEW p \in Pipelines \cup {NULL}, SetPipeline(t, p),
         p # NULL => pipe'[p].gen \in Mine(t).lineage,
         \/ UNCHANGED pipe
         \/ /\ p # NULL /\ pipe[p].state = "free"
            /\ pipe'[p].state # "free" /\ pipe'[p].fed = {}
            /\ \A q \in Pipelines \ {p} : pipe'[q] = pipe[q]
  PROVE  OutputsInv'
<1>1. \A d \in Contexts :
        /\ ctx'[d].stream = ctx[d].stream /\ ctx'[d].lineage = ctx[d].lineage
        /\ ctx'[d].appsrc = ctx[d].appsrc
        /\ ctx'[d].pipeline = IF d = me[t].ctx THEN p ELSE ctx[d].pipeline
  BY PipelineWritten
<1>2. Grows
  <2>1. CASE UNCHANGED pipe
    BY <1>1, <2>1 DEF Grows
  <2>2. CASE p # NULL /\ pipe[p].state = "free" /\ \A q \in Pipelines \ {p} : pipe'[q] = pipe[q]
    BY <1>1, <2>2, BuiltGrows
  <2> QED
    BY <2>1, <2>2
<1>3. Registrations'
  BY <1>1, <1>2, RegistrationsKept DEF OutputsInv
<1>4. pc'[t] = to /\ me'[t] = me[t] /\ OthersStay(t)
  BY PassFrame
<1>5. OwnContext(t)' /\ OwnLine(t)' /\ OwnPipeline(t)'
  BY <1>2, <1>4, Unspecial
<1>6. ASSUME NEW q \in Pipelines
      PROVE  /\ pipe'[q].state = "free" => /\ pipe[q].state = "free"
                                           /\ pipe'[q].gen = pipe[q].gen
                                           /\ pipe'[q].fed = pipe[q].fed
             /\ pipe'[q].fed \subseteq pipe[q].fed
  OBVIOUS
<1>7. me[t].ctx \in Contexts
  BY Locals
<1>8. ASSUME NEW c \in Contexts
      PROVE  \/ ctx'[c].pipeline \in {NULL, ctx[c].pipeline}
             \/ pipe'[ctx'[c].pipeline].gen \in ctx'[c].lineage
  BY <1>1, <1>7 DEF Mine
<1>9. \A p_1 \in Pipelines : \A c \in pipe'[p_1].fed : c \in pipe[p_1].fed
  BY <1>6
<1> QED
  BY <1>1, <1>2, <1>3, <1>4, <1>5, <1>6, <1>8, <1>9, OutputsKept

LEMMA ParseLaunchOutputs ==
  ASSUME ThreadsInv, OutputsInv, ThreadsInv', NEW t \in Threads, ParseLaunch(t)
  PROVE  OutputsInv'
<1>1. HasContext(t) /\ UNCHANGED <<table, mounts, me>> /\ pc[t] = "610"
  BY DEF ParseLaunch, Step
<1>2. "624" \notin Special /\ "done" \notin Special
  BY DEF Special, WithLine
<1>3. me[t].gen \in Mine(t).lineage
  BY <1>1 DEF OutputsInv, OwnLine
<1>4. me[t].text \in SUBSET Kinds /\ me[t].gen \in Contexts \cup {NULL}
  BY Locals DEF LocalsT
<1>5. ASSUME NEW p \in Pipelines, NEW kinds \in SUBSET me[t].text, NEW to \in {"624", "done"},
             Step(t, "610", to), pipe[p].state = "free", SetPipeline(t, p),
             pipe' = [pipe EXCEPT ![p] = NewPipeline("null", me[t].gen, kinds)]
      PROVE  OutputsInv'
  <2>1. /\ \A q \in Pipelines \ {p} : pipe'[q] = pipe[q]
        /\ pipe'[p].state = "null" /\ pipe'[p].gen = me[t].gen /\ pipe'[p].fed = {}
    BY <1>4, <1>5, PipelineBuilt
  <2>2. p # NULL /\ to \notin Special
    BY <1>2, NullFacts
  <2> QED
    BY <1>1, <1>3, <1>5, <2>1, <2>2, PipelineOutputs
<1>6. ASSUME Step(t, "610", "done"), SetPipeline(t, NULL), UNCHANGED pipe
      PROVE  OutputsInv'
  BY <1>1, <1>2, <1>6, PipelineOutputs
<1> QED
  BY <1>5, <1>6 DEF ParseLaunch

LEMMA MediaConfigureOutputs ==
  ASSUME ThreadsInv, OutputsInv, ThreadsInv', NEW t \in Threads, MediaConfigure(t)
  PROVE  OutputsInv'
<1>1. /\ HasContext(t) /\ Step(t, "rtsp 68", "175") /\ SetPipeline(t, me[t].pipe)
      /\ UNCHANGED <<table, pipe, mounts, me>> /\ pc[t] = "rtsp 68"
  BY DEF MediaConfigure, OnlyContext, Step
<1>2. me[t].pipe \in Pipelines \cup {NULL}
  BY Locals DEF LocalsT
<1>3. OwnLine(t) /\ OwnPipeline(t)
  BY DEF OutputsInv
<1>4. pipe[me[t].pipe].gen = me[t].gen /\ me[t].gen \in Mine(t).lineage
  BY <1>1, <1>3 DEF OwnLine, OwnPipeline
<1>5. "175" \notin Special
  BY DEF Special, WithLine
<1> QED
  BY <1>1, <1>2, <1>4, <1>5, PipelineOutputs

LEMMA ForgetPipelineOutputs ==
  ASSUME ThreadsInv, OutputsInv, ThreadsInv', NEW t \in Threads, ForgetPipeline(t)
  PROVE  OutputsInv'
<1>1. /\ Step(t, "748", "752") /\ SetPipeline(t, NULL)
      /\ UNCHANGED <<table, pipe, mounts, me>> /\ pc[t] = "748"
  BY DEF ForgetPipeline, OnlyContext, Step
<1>2. HasContext(t)
  BY <1>1, Locals DEF Checked
<1>3. "752" \notin Special
  BY DEF Special, WithLine
<1> QED
  BY <1>1, <1>2, <1>3, PipelineOutputs

LEMMA ParseAudioOutputs ==
  ASSUME ThreadsInv, OutputsInv, ThreadsInv', NEW t \in Threads, ParseAudio(t)
  PROVE  OutputsInv'
<1> DEFINE caps == Mine(t).caps \cup (Mine(t).par \cap {"audio"})
<1>0. PICK c, s : c = me[t].ctx /\ s = me[t].stream
  OBVIOUS
<1> DEFINE l == [me[t] EXCEPT !.text = caps, !.gen = c]
<1>1. PICK to \in {"done", "606", "rtsp 82"} : Step(t, "231", to)
  BY DEF ParseAudio
<1>2. /\ pc[t] = "231" /\ me' = [me EXCEPT ![t] = l]
      /\ UNCHANGED <<table, pipe, mounts>>
  BY <1>0, <1>1 DEF ParseAudio, Step
<1>3. HasContext(t)
  BY <1>2, Locals DEF Checked
<1>4. Plain
  BY <1>3, PlainSteps
<1>5. Grows
  BY <1>2, <1>4 DEF Plain, Grows
<1>6. l.stream = s /\ l.ctx = c /\ l.gen = c
  BY <1>0, Locals DEF LocalsT
<1> HIDE DEF l
<1>7. pc'[t] = to /\ me'[t] = l /\ OthersStay(t)
  BY <1>1, <1>2, StepFrame
<1>8. c \in Contexts /\ c \in Known(s) /\ ctx[c].stream = s /\ s # NULL
  BY <1>0, <1>2, <1>3, Locals DEF OutputsInv, OwnLine, OwnContext, Mine
<1>9. c \in Known(s)'
  BY <1>5, <1>8, KnownGrows DEF OutputsInv
<1>10. OwnContext(t)'
  BY <1>4, <1>6, <1>7, <1>8 DEF OwnContext, HasContext, Mine, Plain
<1>11. OwnLine(t)' /\ OwnPipeline(t)'
  BY <1>6, <1>7, <1>9 DEF OwnLine, OwnPipeline
<1> QED
  BY <1>2, <1>4, <1>7, <1>10, <1>11, QuietOutputs

(* set_appsrc *)
LEMMA ReadsOutputs ==
  ASSUME ThreadsInv, OutputsInv, ThreadsInv', NEW t \in Threads, HasContext(t),
         NEW from, NEW to \in {"624 call", "184", "187", "191", "194"},
         Step(t, from, to), me' = [me EXCEPT ![t].pipe = Mine(t).pipeline],
         UNCHANGED shared
  PROVE  OutputsInv'
<1>0. PICK p, c : p = Mine(t).pipeline /\ c = me[t].ctx
  OBVIOUS
<1> DEFINE l == [me[t] EXCEPT !.pipe = p]
<1>1. me[t] \in LocalsT /\ p \in Pipelines \cup {NULL} /\ c \in Contexts
  BY <1>0, Locals DEF StreamMapT
<1>2. l.pipe = p /\ l.stream = me[t].stream /\ l.ctx = c
  BY <1>0, <1>1, LocalFields
<1>3. me' = [me EXCEPT ![t] = l]
  BY <1>0
<1> HIDE DEF l
<1>4. pc'[t] = to /\ me'[t] = l /\ OthersStay(t)
  BY <1>3, StepFrame
<1>5. UNCHANGED <<table, ctx, pipe, mounts>>
  BY DEF shared
<1>6. OwnContext(t)'
  BY <1>0, <1>2, <1>4, <1>5 DEF OutputsInv, OwnContext, HasContext, Mine
<1>7. OwnLine(t)'
  BY <1>4 DEF OwnLine, WithLine
<1>8. p # NULL => pipe[p].gen \in ctx[c].lineage
  BY <1>0, <1>1 DEF OutputsInv, Outputs, Mine
<1>9. OwnPipeline(t)'
  BY <1>2, <1>4, <1>5, <1>8 DEF OwnPipeline, Mine
<1> QED
  BY <1>4, <1>5, <1>6, <1>7, <1>9, PlainUnchanged, QuietOutputs

LEMMA SetSourceOutputs ==
  ASSUME ThreadsInv, OutputsInv, ThreadsInv', NEW t \in Threads,
         NEW from \in {"184", "191"}, NEW next \in {"187", "194"}, NEW k \in Kinds,
         SetSource(t, from, next, k)
  PROVE  OutputsInv'
<1>1. CASE Dies(t, from, "abort")
  BY <1>1, DiesOutputs
<1>2. CASE /\ HasElement(me[t].pipe, k) /\ Step(t, from, next) /\ OnlyContext
           /\ SourceSet(t, k, me[t].pipe)
  <2>1. HasContext(t)
    BY <1>2, Locals DEF Step, Checked
  <2>2. me[t].pipe \in Pipelines /\ me[t].ctx \in Contexts
    BY <1>2, <2>1, Locals DEF HasElement, LocalsT
  <2>3. /\ \A d \in Contexts :
             /\ ctx'[d].stream = ctx[d].stream /\ ctx'[d].lineage = ctx[d].lineage
             /\ ctx'[d].pipeline = ctx[d].pipeline
             /\ d # me[t].ctx => ctx'[d].appsrc = ctx[d].appsrc
             /\ \A j \in Kinds \ {k} : ctx'[d].appsrc[j] = ctx[d].appsrc[j]
        /\ ctx'[me[t].ctx].appsrc[k] = me[t].pipe
    <3>1. PICK p \in Pipelines : p = me[t].pipe
      BY <2>2
    <3>2. SourceSet(t, k, p)
      BY <1>2, <3>1
    <3> QED
      BY <2>1, <3>1, <3>2, SourceWritten
  <2>4. UNCHANGED <<table, pipe, mounts, me>>
    BY <1>2 DEF OnlyContext
  <2>5. Grows
    BY <2>3, <2>4 DEF Grows
  <2>6. Registrations'
    BY <2>3, <2>4, <2>5, RegistrationsKept DEF OutputsInv
  <2>7. pc'[t] = next /\ me'[t] = me[t] /\ OthersStay(t)
    BY <1>2, <2>4, PassFrame
  <2>8. OwnContext(t)' /\ OwnLine(t)' /\ OwnPipeline(t)'
    BY <2>5, <2>7, Unspecial DEF Special, WithLine
  <2>9. pipe[me[t].pipe].gen \in ctx[me[t].ctx].lineage
    BY <1>2, <2>2, NullFacts DEF OutputsInv, OwnPipeline, Step, Mine
  <2>10. ASSUME NEW c \in Contexts, NEW j \in Kinds
         PROVE  \/ ctx'[c].appsrc[j] \in {NULL, ctx[c].appsrc[j]}
                \/ pipe'[ctx'[c].appsrc[j]].gen \in ctx'[c].lineage
    <3>1. CASE c # me[t].ctx \/ j # k
      BY <3>1, <2>3
    <3>2. CASE c = me[t].ctx /\ j = k
      BY <3>2, <2>3, <2>4, <2>9
    <3> QED
      BY <3>1, <3>2
  <2> QED
    BY <2>3, <2>4, <2>5, <2>6, <2>7, <2>8, <2>10, OutputsKept
<1> QED
  BY <1>1, <1>2 DEF SetSource, SourceSet

LEMMA SetAppsrcOutputs ==
  ASSUME ThreadsInv, OutputsInv, ThreadsInv', NEW t \in Threads,
         SetAppsrc(t) \/ ReadPipeline(t)
  PROVE  OutputsInv'
<1>1. CASE \/ SetSource(t, "184", "187", "video") \/ SetSource(t, "191", "194", "audio")
  BY <1>1, SetSourceOutputs DEF Kinds
<1>2. CASE \/ ReadOutput(t, "180", "184", "187", "video")
           \/ ReadOutput(t, "187", "191", "194", "audio") \/ ReadPipeline(t)
  <2>1. PICK from \in {"180", "187", "624"}, to \in {"624 call", "184", "187", "191", "194"} :
          /\ Step(t, from, to) /\ me' = [me EXCEPT ![t].pipe = Mine(t).pipeline]
          /\ UNCHANGED shared
    BY <1>2 DEF ReadOutput, ReadPipeline
  <2>2. HasContext(t)
    BY <2>1, Locals DEF Step, Checked
  <2> QED
    BY <2>1, <2>2, ReadsOutputs
<1> QED
  BY <1>1, <1>2 DEF SetAppsrc

LEMMA PushBufferOutputs ==
  ASSUME ThreadsInv, OutputsInv, ThreadsInv', NEW t \in Threads, PushBuffer(t)
  PROVE  OutputsInv'
<1>0. PICK c, k, src : c = me[t].ctx /\ k = me[t].kind /\ src = Mine(t).appsrc[k]
  OBVIOUS
<1>1. CASE Dies(t, "push", "abort")
  BY <1>1, DiesOutputs
<1>2. CASE /\ Step(t, "push", "done") /\ src # NULL
           /\ pipe' = [pipe EXCEPT ![src].fed = @ \cup {c}]
           /\ UNCHANGED <<table, ctx, mounts, me>>
  <2>1. HasContext(t)
    BY <1>2, Locals DEF Step, Checked
  <2>2. c \in Contexts /\ k \in Kinds /\ src \in Pipelines
    BY <1>0, <1>2, <2>1, Locals DEF StreamMapT
  <2>3. pipe[src].gen \in ctx[c].lineage
    BY <1>0, <1>2, <2>2 DEF OutputsInv, NoLaterOutput, Mine
  <2>4. \A p \in Pipelines :
          /\ pipe'[p].gen = pipe[p].gen /\ pipe'[p].state = pipe[p].state
          /\ pipe'[p].fed = IF p = src THEN pipe[p].fed \cup {c} ELSE pipe[p].fed
    BY <1>2, <2>2 DEF ThreadsInv, TypeOK, PipelineT
  <2>5. Grows
    BY <1>2, <2>4 DEF Grows
  <2>6. Registrations'
    BY <1>2, <2>5, RegistrationsKept DEF OutputsInv
  <2>7. pc'[t] = "done" /\ me'[t] = me[t] /\ OthersStay(t)
    BY <1>2, PassFrame
  <2>8. OwnContext(t)' /\ OwnLine(t)' /\ OwnPipeline(t)'
    BY <2>5, <2>7, Unspecial DEF Special, WithLine
  <2>9. pipe[src].state # "free"
    <3>1. ctx[c].lineage \subseteq Contexts
      BY <2>2 DEF ThreadsInv, TypeOK, StreamMapT
    <3> QED
      BY <2>2, <2>3, <3>1, NullFacts DEF OutputsInv, Outputs
  <2>10. \A p \in Pipelines : pipe'[p].state = "free" =>
           pipe[p].state = "free" /\ pipe'[p].gen = pipe[p].gen /\ pipe'[p].fed = pipe[p].fed
    BY <2>4, <2>9
  <2>11. \A p \in Pipelines : \A d \in pipe'[p].fed :
           d \in pipe[p].fed \/ pipe'[p].gen \in ctx'[d].lineage
    BY <1>2, <2>3, <2>4
  <2> QED
    BY <1>2, <2>5, <2>6, <2>7, <2>8, <2>10, <2>11, OutputsKept
<1> QED
  BY <1>0, <1>1, <1>2 DEF PushBuffer, OnlyPipelines

LEMMA OutputsStep == ThreadsInv /\ OutputsInv /\ [Next]_vars => OutputsInv'
<1> SUFFICES ASSUME ThreadsInv, OutputsInv, [Next]_vars PROVE OutputsInv'
  OBVIOUS
<1>1. ThreadsInv'
  BY ThreadsStep
<1>2. CASE UNCHANGED vars
  BY <1>2, OutputsStay DEF vars
<1>3. ASSUME NEW t \in Threads, Call(t) PROVE OutputsInv'
  BY <1>1, <1>3, CallOutputs, CallMediaConfigureOutputs DEF Call
<1>4. ASSUME NEW t \in Threads, NullContext(t) \/ TableRace(t) PROVE OutputsInv'
  BY <1>4, DiesOutputs DEF NullContext, TableRace
<1>5. ASSUME NEW t \in Threads, Run(t) PROVE OutputsInv'
  BY <1>1, <1>4, <1>5, ContainsOutputs, LookupOutputs, RegisterStreamOutputs,
     RegisterStreamEndOutputs, NextTrackOutputs, FieldsOutputs, ChecksOutputs,
     StatesOutputs, FactoriesOutputs, ParseAudioOutputs, ParseLaunchOutputs,
     MediaConfigureOutputs, ForgetPipelineOutputs, SetAppsrcOutputs, PushBufferOutputs
     DEF Run
<1> QED
  BY <1>2, <1>3, <1>5 DEF Next

(***************************************************************************)
(* Whatever the threads do at the same time: the pipelines that a context  *)
(* feeds and holds sources of come from a launch line of its registration  *)
(* of the id or of an earlier one, never from a later one or another id's. *)
(***************************************************************************)
THEOREM OutputsAreNotLater == Spec => []NoLaterOutput
<1>1. OutputsInv => NoLaterOutput
  BY DEF OutputsInv
<1>2. Spec => []OutputsInv
  BY InitOutputs, OutputsStep, ThreadsInvHolds, PTL DEF Spec
<1> QED
  BY <1>1, <1>2, PTL

-----------------------------------------------------------------------------
(***************************************************************************)
(* SourcesTogether.  The lines outside of set_appsrc write no source, and  *)
(* what they do to ctx->pipeline while one is at work is in contended.     *)
(***************************************************************************)
WorkLines == {"184", "187", "191"}

(* What a step outside of set_appsrc may do to a context ... *)
Untouched(c) ==
  /\ ctx'[c].appsrc = ctx[c].appsrc /\ ctx[c].caps \subseteq ctx'[c].caps
  /\ ctx[c].contended => ctx'[c].contended
  /\ ctx'[c].pipeline = ctx[c].pipeline \/ ctx'[c].contended \/ ~SettingSources(c)

(* ... and to an allocation that nobody refers to. *)
Fresh(c) == ~SettingSources(c) /\ \A k \in Kinds : ctx'[c].appsrc[k] = NULL

LEMMA OutsideSources ==
  ASSUME ThreadsInv, SourcesInv, NEW t \in Threads, OthersStay(t),
         pc[t] \notin WorkLines, pc'[t] \notin WorkLines,
         \A c \in Contexts : Untouched(c) \/ Fresh(c)
  PROVE  SourcesInv'
<1>1. ASSUME NEW c \in Contexts PROVE SettingSources(c)' <=> SettingSources(c)
  <2>1. ASSUME NEW u \in Threads \ {t} PROVE pc'[u] = pc[u] /\ me'[u] = me[u]
    BY DEF OthersStay
  <2> QED
    BY <2>1 DEF SettingSources, WorkLines
<1>2. SourcesOfCaps'
  BY DEF SourcesInv, SourcesOfCaps, Untouched, Fresh
<1>3. SourcesTogether'
  <2> SUFFICES ASSUME NEW c \in Contexts
               PROVE  \/ ctx'[c].appsrc["video"] = ctx'[c].appsrc["audio"]
                      \/ NULL \in {ctx'[c].appsrc["video"], ctx'[c].appsrc["audio"]}
                      \/ SettingSources(c)' \/ ctx'[c].contended
    BY DEF SourcesTogether
  <2>1. CASE Untouched(c)
    BY <2>1, <1>1 DEF SourcesInv, SourcesTogether, Untouched
  <2>2. CASE Fresh(c)
    BY <2>2 DEF Fresh, Kinds
  <2> QED
    BY <2>1, <2>2
<1>4. ASSUME NEW u \in Threads PROVE AtWork(u)'
  <2>1. CASE pc'[u] \notin WorkLines
    BY <2>1 DEF AtWork, WorkLines
  <2>2. CASE pc'[u] \in WorkLines
    <3>1. u # t /\ pc'[u] = pc[u] /\ me'[u] = me[u] /\ AtWork(u)
      BY <2>2 DEF OthersStay, SourcesInv
    <3>2. me[u].ctx \in Contexts /\ HasContext(u)
      BY <2>2, <3>1, Locals DEF WorkLines, Checked
    <3>3. SettingSources(me[u].ctx)
      BY <2>2, <3>1 DEF SettingSources, WorkLines
    <3>4. Untouched(me[u].ctx)
      BY <3>2, <3>3 DEF Fresh
    <3> QED
      BY <3>1, <3>2, <3>3, <3>4 DEF AtWork, Untouched, Mine, HasContext
  <2> QED
    BY <2>1, <2>2
<1> QED
  BY <1>2, <1>3, <1>4 DEF SourcesInv

LEMMA SourcesStay ==
  ASSUME SourcesInv, UNCHANGED <<ctx, pc, me>>
  PROVE  SourcesInv'
<1>1. \A c : SettingSources(c)' <=> SettingSources(c)
  BY DEF SettingSources
<1>2. SourcesOfCaps' /\ SourcesTogether'
  BY <1>1 DEF SourcesInv, SourcesOfCaps, SourcesTogether
<1>3. \A u \in Threads : AtWork(u)'
  BY DEF SourcesInv, AtWork, HasContext, Mine
<1> QED
  BY <1>2, <1>3 DEF SourcesInv

LEMMA PlainSources ==
  ASSUME ThreadsInv, SourcesInv, NEW t \in Threads, OthersStay(t), Plain,
         pc[t] \notin WorkLines, pc'[t] \notin WorkLines
  PROVE  SourcesInv'
<1>1. \A c \in Contexts : Untouched(c)
  BY DEF Plain, Untouched
<1> QED
  BY <1>1, OutsideSources

(* The lines that write nothing to a context. *)
LEMMA CallSources ==
  ASSUME ThreadsInv, SourcesInv, NEW t \in Threads, Call(t)
  PROVE  SourcesInv'
<1>1. OthersStay(t) /\ pc[t] = "start"
      /\ pc'[t] \in {"76", "696", "415", "738", "rtsp 64"} /\ UNCHANGED ctx
  BY DEF Call, CallOnPacket, CallStreamStarted, CallRegisterPipeline, CallUnregisterStream,
         CallMediaConfigure, Enter, Step, shared, OthersStay, ThreadsInv, TypeOK
<1> QED
  BY <1>1, PlainUnchanged, PlainSources DEF WorkLines

LEMMA ContainsSources ==
  ASSUME ThreadsInv, SourcesInv, NEW t \in Threads, Contains(t)
  PROVE  SourcesInv'
<1>0. PICK b \in ContainsAt : \E to \in {b[2], b[3]} : Step(t, b[1], to)
  BY DEF Contains
<1>1. PICK to \in {b[2], b[3]} : Step(t, b[1], to)
  BY <1>0
<1>2. PICK from : from = b[1]
  OBVIOUS
<1>3. UNCHANGED <<ctx, me>>
  BY DEF Contains, shared
<1>4. pc[t] = from /\ pc'[t] = to /\ OthersStay(t)
  BY <1>1, <1>2, <1>3, PassFrame
<1>5. from \notin WorkLines /\ to \notin WorkLines
  BY <1>1, <1>2, ContainsLines DEF WorkLines
<1> QED
  BY <1>3, <1>4, <1>5, PlainUnchanged, PlainSources

LEMMA LookupSources ==
  ASSUME ThreadsInv, SourcesInv, NEW t \in Threads, Lookup(t)
  PROVE  SourcesInv'
<1>1. PICK b \in LookupAt : Step(t, b[1], b[2])
  BY DEF Lookup
<1>2. PICK from, to : from = b[1] /\ to = b[2]
  OBVIOUS
<1>3. Step(t, from, to) /\ UNCHANGED ctx
  BY <1>1, <1>2 DEF Lookup, shared
<1>4. PICK c : me' = [me EXCEPT ![t].ctx = c]
  BY DEF Lookup
<1>5. pc[t] = from /\ pc'[t] = to /\ OthersStay(t)
  BY <1>3, <1>4 DEF Step, OthersStay, ThreadsInv, TypeOK
<1>6. from \notin WorkLines /\ to \notin WorkLines
  BY <1>2, LookupLines DEF WorkLines
<1> QED
  BY <1>3, <1>5, <1>6, PlainUnchanged, PlainSources

LEMMA OtherSources ==
  ASSUME ThreadsInv, SourcesInv, NEW t \in Threads,
         \/ NextTrack(t) \/ ReadPipeline(t) \/ SetPlaying(t) \/ AddFactory(t)
         \/ CheckPipeline(t) \/ CheckSources(t)
         \/ Lock(t) \/ CheckOutput(t) \/ SetNull(t) \/ RemoveFactory(t)
         \/ Remove(t) \/ RemoveEnd(t) \/ Unlock(t)
  PROVE  SourcesInv'
<1>1. PICK from, to :
        /\ Step(t, from, to) /\ from \notin WorkLines /\ to \notin WorkLines
        /\ UNCHANGED ctx
  <2>1. CASE NextTrack(t) \/ ReadPipeline(t) \/ SetPlaying(t) \/ AddFactory(t)
    BY <2>1 DEF NextTrack, ReadPipeline, SetPlaying, AddFactory, OnlyPipelines, shared, WorkLines
  <2>2. CASE CheckPipeline(t) \/ CheckSources(t) \/ CheckOutput(t) \/ Lock(t) \/ Unlock(t)
    BY <2>2 DEF CheckPipeline, CheckSources, CheckOutput, Lock, Unlock, OnlyHere, shared, WorkLines
  <2>3. CASE SetNull(t) \/ RemoveFactory(t) \/ Remove(t) \/ RemoveEnd(t)
    BY <2>3 DEF SetNull, RemoveFactory, Remove, RemoveEnd, OnlyPipelines, WorkLines
  <2> QED
    BY <2>1, <2>2, <2>3
<1>2. \A u \in Threads \ {t} : me'[u] = me[u]
  <2>1. CASE NextTrack(t) \/ ReadPipeline(t)
    BY <2>1 DEF NextTrack, ReadPipeline, ThreadsInv, TypeOK
  <2>2. CASE UNCHANGED me
    BY <2>2
  <2> QED
    BY <2>1, <2>2
       DEF SetPlaying, AddFactory, OnlyPipelines, CheckPipeline, CheckSources, CheckOutput,
           Lock, Unlock, OnlyHere, SetNull, RemoveFactory, Remove, RemoveEnd, Leaves
<1>3. pc[t] = from /\ pc'[t] = to /\ OthersStay(t)
  BY <1>1, <1>2 DEF Step, OthersStay, ThreadsInv, TypeOK
<1> QED
  BY <1>1, <1>3, PlainUnchanged, PlainSources

LEMMA DiesSources ==
  ASSUME SourcesInv, NEW t \in Threads, NEW from, NEW how, Dies(t, from, how)
  PROVE  SourcesInv'
BY SourcesStay DEF Dies, shared

LEMMA PushBufferSources ==
  ASSUME ThreadsInv, SourcesInv, NEW t \in Threads, PushBuffer(t)
  PROVE  SourcesInv'
<1>1. CASE Dies(t, "push", "abort")
  BY <1>1, DiesSources
<1>2. CASE Step(t, "push", "done") /\ OnlyPipelines
  <2>1. pc[t] = "push" /\ pc'[t] = "done" /\ OthersStay(t) /\ UNCHANGED ctx
    BY <1>2, PassFrame DEF OnlyPipelines
  <2> QED
    BY <2>1, PlainUnchanged, PlainSources DEF WorkLines
<1> QED
  BY <1>1, <1>2 DEF PushBuffer

(* The lines that write other fields. *)
LEMMA FieldsSources ==
  ASSUME ThreadsInv, SourcesInv, NEW t \in Threads,
         \/ SetStreamInfo(t) \/ InitCodec(t) \/ ParseVideo(t) \/ ParseAudio(t)
         \/ SetMountpoint(t) \/ SetInitialized(t)
  PROVE  SourcesInv'
<1>1. CASE ~Dies(t, "217", "segv")
  <2>1. PICK from, to : Step(t, from, to) /\ from \notin WorkLines /\ to \notin WorkLines
    <3>1. CASE SetStreamInfo(t) \/ InitCodec(t) \/ ParseVideo(t)
      BY <1>1, <3>1 DEF SetStreamInfo, InitCodec, ParseVideo, WorkLines
    <3>2. CASE ParseAudio(t)
      <4>1. PICK to \in {"done", "606", "rtsp 82"} : Step(t, "231", to)
        BY <3>2 DEF ParseAudio
      <4> QED
        BY <4>1 DEF WorkLines
    <3>3. CASE SetMountpoint(t) \/ SetInitialized(t)
      <4>1. Step(t, "rtsp 118", "rtsp 119") \/ Step(t, "194", "done")
        BY <3>3 DEF SetMountpoint, SetInitialized
      <4>2. {"rtsp 118", "rtsp 119", "194", "done"} \cap WorkLines = {}
        BY DEF WorkLines
      <4> QED
        BY <4>1, <4>2
    <3> QED
      BY <3>1, <3>2, <3>3
  <2>2. HasContext(t)
    <3>1. CASE InitCodec(t) \/ ParseAudio(t) \/ SetInitialized(t)
      <4>1. pc[t] \in {"676", "231", "194"}
        BY <3>1 DEF InitCodec, ParseAudio, SetInitialized, Step
      <4> QED
        BY <4>1, Locals DEF Checked
    <3> QED
      BY <3>1 DEF SetStreamInfo, ParseVideo, SetMountpoint
  <2>3. Plain
    BY <1>1, <2>2, PlainSteps DEF ParseVideo
  <2>4. \A u \in Threads \ {t} : me'[u] = me[u]
    <3>1. CASE ParseAudio(t)
      BY <3>1 DEF ParseAudio, ThreadsInv, TypeOK
    <3>2. CASE UNCHANGED me
      BY <3>2
    <3> QED
      BY <1>1, <3>1, <3>2
         DEF SetStreamInfo, InitCodec, ParseVideo, SetMountpoint, SetInitialized, OnlyContext
  <2>5. pc[t] = from /\ pc'[t] = to /\ OthersStay(t)
    BY <2>1, <2>4 DEF Step, OthersStay, ThreadsInv, TypeOK
  <2> QED
    BY <2>1, <2>3, <2>5, PlainSources
<1>2. CASE Dies(t, "217", "segv")
  BY <1>2, DiesSources
<1> QED
  BY <1>1, <1>2

(* The lines that write ctx->pipeline. *)
LEMMA PipelineSources ==
  ASSUME ThreadsInv, SourcesInv, NEW t \in Threads,
         ParseLaunch(t) \/ MediaConfigure(t) \/ ForgetPipeline(t)
  PROVE  SourcesInv'
<1>1. PICK from \in {"610", "rtsp 68", "748"}, to \in {"624", "done", "175", "752"},
           p \in Pipelines \cup {NULL} :
        Step(t, from, to) /\ SetPipeline(t, p)
  <2>1. me[t].pipe \in Pipelines \cup {NULL}
    BY Locals DEF LocalsT
  <2> QED
    BY <2>1 DEF ParseLaunch, MediaConfigure, ForgetPipeline
<1>2. UNCHANGED me
  BY DEF ParseLaunch, MediaConfigure, ForgetPipeline, OnlyContext
<1>3. pc[t] = from /\ pc'[t] = to /\ OthersStay(t)
  BY <1>1, <1>2, PassFrame
<1>4. HasContext(t)
  BY <1>3, Locals DEF Checked, ParseLaunch, MediaConfigure, ForgetPipeline, Step
<1>5. \A c \in Contexts : Untouched(c)
  BY <1>1, <1>4, PipelineWritten DEF Untouched
<1> QED
  BY <1>3, <1>5, OutsideSources DEF WorkLines

(* register_stream: the allocation is nobody's. *)
LEMMA RegisterStreamSources ==
  ASSUME ThreadsInv, OutputsInv, SourcesInv, NEW t \in Threads, RegisterStream(t)
  PROVE  SourcesInv'
<1>1. PICK s : s = me[t].stream
  OBVIOUS
<1>2. PICK c \in Contexts :
        /\ ctx[c].stream = NULL
        /\ ctx' = [ctx EXCEPT ![c] = NewContext(s)]
        /\ me' = [me EXCEPT ![t].ctx = c]
  BY <1>1 DEF RegisterStream
<1>3. pc[t] = "696" /\ pc'[t] = "696 in" /\ OthersStay(t)
  BY <1>2 DEF RegisterStream, Step, OthersStay, ThreadsInv, TypeOK
<1>4. ~SettingSources(c)
  <2>1. ASSUME NEW u \in Threads, pc[u] \in WorkLines PROVE me[u].ctx # c
    BY <2>1, <1>2, Locals DEF OutputsInv, OwnContext, Mine, WorkLines, Checked
  <2> QED
    BY <2>1 DEF SettingSources, WorkLines
<1>5. Fresh(c)
  BY <1>2, <1>4 DEF Fresh, NewContext, ThreadsInv, TypeOK
<1>6. \A d \in Contexts \ {c} : Untouched(d)
  BY <1>2 DEF Untouched, ThreadsInv, TypeOK
<1> QED
  BY <1>3, <1>5, <1>6, OutsideSources DEF WorkLines

LEMMA RegisterStreamEndSources ==
  ASSUME ThreadsInv, SourcesInv, NEW t \in Threads, RegisterStreamEnd(t)
  PROVE  SourcesInv'
<1>1. Step(t, "696 in", "next") /\ UNCHANGED me
  BY DEF RegisterStreamEnd, Leaves
<1>2. pc[t] = "696 in" /\ pc'[t] = "next" /\ OthersStay(t)
  BY <1>1, PassFrame
<1>3. \A c \in Contexts : Untouched(c)
  BY LineageWritten DEF Untouched
<1> QED
  BY <1>2, <1>3, OutsideSources DEF WorkLines

-----------------------------------------------------------------------------
(* set_appsrc *)
LEMMA ReadOutputSources ==
  ASSUME ThreadsInv, SourcesInv, NEW t \in Threads,
         \/ ReadOutput(t, "180", "184", "187", "video")
         \/ ReadOutput(t, "187", "191", "194", "audio")
  PROVE  SourcesInv'
<1>1. PICK c, p : c = me[t].ctx /\ p = ctx[c].pipeline
  OBVIOUS
<1> DEFINE l == [me[t] EXCEPT !.pipe = p]
<1>2. UNCHANGED ctx /\ me' = [me EXCEPT ![t] = l]
  BY <1>1 DEF ReadOutput, shared, Mine
<1>3. PICK from, to :
        /\ Step(t, from, to)
        /\ \/ from = "180" /\ to = "184" /\ "video" \in ctx[c].caps
           \/ from = "180" /\ to = "187" /\ "video" \notin ctx[c].caps
           \/ from = "187" /\ to = "191" /\ "audio" \in ctx[c].caps
           \/ from = "187" /\ to = "194" /\ "audio" \notin ctx[c].caps
  BY <1>1 DEF ReadOutput, Mine
<1>4. HasContext(t) /\ c \in Contexts /\ me[t] \in LocalsT /\ p \in Pipelines \cup {NULL}
  BY <1>1, <1>3, Locals DEF Step, Checked, Mine, StreamMapT
<1>5. l.pipe = p /\ l.ctx = c
  BY <1>1, <1>4, LocalFields
<1> HIDE DEF l
<1>6. pc[t] = from /\ pc'[t] = to /\ me'[t].pipe = p /\ me'[t].ctx = c /\ OthersStay(t)
  BY <1>2, <1>3, <1>5, StepFrame
<1>7. SourcesOfCaps'
  BY <1>2 DEF SourcesInv, SourcesOfCaps
<1>8. ASSUME NEW d \in Contexts, SettingSources(d), ~(d = c /\ to = "194")
      PROVE  SettingSources(d)'
  <2>1. PICK u \in Threads : pc[u] \in WorkLines /\ me[u].ctx = d
    BY <1>8 DEF SettingSources, WorkLines
  <2>2. CASE u = t
    BY <1>1, <1>3, <1>6, <1>8, <2>1, <2>2 DEF SettingSources, WorkLines
  <2>3. CASE u # t
    BY <1>6, <2>1, <2>3 DEF OthersStay, SettingSources, WorkLines
  <2> QED
    BY <2>2, <2>3
<1>9. to = "194" => ctx[c].appsrc["audio"] = NULL
  BY <1>3, <1>4 DEF SourcesInv, SourcesOfCaps, Kinds
<1>10. SourcesTogether'
  <2> SUFFICES ASSUME NEW d \in Contexts
               PROVE  \/ ctx'[d].appsrc["video"] = ctx'[d].appsrc["audio"]
                      \/ NULL \in {ctx'[d].appsrc["video"], ctx'[d].appsrc["audio"]}
                      \/ SettingSources(d)' \/ ctx'[d].contended
    BY DEF SourcesTogether
  <2>1. CASE d = c /\ to = "194"
    BY <1>2, <1>9, <2>1
  <2>2. CASE ~(d = c /\ to = "194")
    BY <1>2, <1>8, <2>2 DEF SourcesInv, SourcesTogether
  <2> QED
    BY <2>1, <2>2
<1>11. AtWork(t)'
  <2>1. AtWork(t) /\ ("video" \notin ctx[c].caps => ctx[c].appsrc["video"] = NULL)
    BY <1>4 DEF SourcesInv, SourcesOfCaps, Kinds
  <2>2. from = "187" /\ ~ctx[c].contended => ctx[c].appsrc["video"] \in {NULL, p}
    BY <1>1, <1>4, <1>6, <2>1 DEF AtWork, Mine
  <2> QED
    BY <1>1, <1>2, <1>3, <1>6, <2>1, <2>2 DEF AtWork, Mine
<1>12. ASSUME NEW u \in Threads \ {t} PROVE AtWork(u)'
  BY <1>2, <1>6 DEF SourcesInv, AtWork, OthersStay, HasContext, Mine
<1> QED
  BY <1>7, <1>10, <1>11, <1>12 DEF SourcesInv

LEMMA SetSourceSources ==
  ASSUME ThreadsInv, SourcesInv, NEW t \in Threads,
         \/ SetSource(t, "184", "187", "video") \/ SetSource(t, "191", "194", "audio")
  PROVE  SourcesInv'
<1>1. CASE Dies(t, "184", "abort") \/ Dies(t, "191", "abort")
  BY <1>1, DiesSources
<1>2. ASSUME NEW from, NEW next, NEW k,
             \/ from = "184" /\ next = "187" /\ k = "video"
             \/ from = "191" /\ next = "194" /\ k = "audio",
             HasElement(me[t].pipe, k), Step(t, from, next), OnlyContext,
             SourceSet(t, k, me[t].pipe)
      PROVE  SourcesInv'
  <2>1. HasContext(t) /\ pc[t] = from /\ k \in Kinds
    BY <1>2, Locals DEF Step, Checked, Kinds
  <2>2. PICK c \in Contexts, p \in Pipelines : c = me[t].ctx /\ p = me[t].pipe
    BY <1>2, <2>1, Locals DEF HasElement, LocalsT
  <2>3. SourceSet(t, k, p)
    BY <1>2, <2>2
  <2>4. /\ \A d \in Contexts :
             /\ ctx'[d].pipeline = ctx[d].pipeline /\ ctx'[d].caps = ctx[d].caps
             /\ ctx'[d].contended = ctx[d].contended
             /\ d # c => ctx'[d].appsrc = ctx[d].appsrc
             /\ \A j \in Kinds \ {k} : ctx'[d].appsrc[j] = ctx[d].appsrc[j]
        /\ ctx'[c].appsrc[k] = p
    BY <2>1, <2>2, <2>3, SourceWritten
  <2>5. pc'[t] = next /\ me'[t] = me[t] /\ OthersStay(t)
    BY <1>2, PassFrame DEF OnlyContext
  <2>6. AtWork(t)
    BY DEF SourcesInv
  <2>7. /\ k \in ctx[c].caps
        /\ ~ctx[c].contended => p = ctx[c].pipeline
        /\ ~ctx[c].contended /\ k = "audio" => ctx[c].appsrc["video"] \in {NULL, p}
    BY <1>2, <2>1, <2>2, <2>6 DEF AtWork, Mine
  <2>8. ASSUME NEW d \in Contexts, NEW j \in Kinds, ctx'[d].appsrc[j] # NULL
        PROVE  j \in ctx'[d].caps
    <3>1. CASE d = c /\ j = k
      BY <3>1, <2>4, <2>7
    <3>2. CASE ~(d = c /\ j = k)
      <4>1. ctx'[d].appsrc[j] = ctx[d].appsrc[j]
        BY <3>2, <2>4
      <4> QED
        BY <4>1, <2>4, <2>8 DEF SourcesInv, SourcesOfCaps
    <3> QED
      BY <3>1, <3>2
  <2>9. ASSUME NEW d \in Contexts, SettingSources(d), d # c PROVE SettingSources(d)'
    BY <2>2, <2>5, <2>9 DEF SettingSources, OthersStay
  <2>10. ctx'[c].appsrc["video"] = IF k = "video" THEN p ELSE ctx[c].appsrc["video"]
    BY <1>2, <2>4 DEF Kinds
  <2>11. ASSUME NEW d \in Contexts
         PROVE  \/ ctx'[d].appsrc["video"] = ctx'[d].appsrc["audio"]
                \/ NULL \in {ctx'[d].appsrc["video"], ctx'[d].appsrc["audio"]}
                \/ SettingSources(d)' \/ ctx'[d].contended
    <3>1. CASE d # c
      <4>1. \/ ctx[d].appsrc["video"] = ctx[d].appsrc["audio"]
            \/ NULL \in {ctx[d].appsrc["video"], ctx[d].appsrc["audio"]}
            \/ SettingSources(d) \/ ctx[d].contended
        BY DEF SourcesInv, SourcesTogether
      <4>2. ctx'[d].appsrc = ctx[d].appsrc /\ ctx'[d].contended = ctx[d].contended
        BY <3>1, <2>4
      <4> QED
        BY <3>1, <4>1, <4>2, <2>9
    <3>2. CASE d = c /\ next = "187"
      <4>1. SettingSources(c)'
        BY <2>2, <2>5, <3>2 DEF SettingSources
      <4> QED
        BY <3>2, <4>1
    <3>3. CASE d = c /\ next = "194"
      BY <1>2, <2>4, <2>7, <2>10, <3>3
    <3> QED
      BY <1>2, <3>1, <3>2, <3>3
  <2>12. ASSUME NEW u \in Threads PROVE AtWork(u)'
    <3>1. pc'[u] \in WorkLines => pc[u] \in WorkLines
      BY <1>2, <2>1, <2>5 DEF OthersStay, WorkLines
    <3>2. CASE pc'[u] \notin WorkLines
      BY <3>2 DEF AtWork, WorkLines
    <3>3. CASE pc'[u] \in WorkLines
      <4>1. me'[u] = me[u] /\ HasContext(u) /\ me[u].ctx \in Contexts /\ AtWork(u)
        BY <2>5, <3>1, <3>3, Locals DEF OthersStay, WorkLines, Checked, SourcesInv
      <4>2. PICK d \in Contexts : d = me[u].ctx
        BY <4>1
      <4>3. /\ ctx'[d].pipeline = ctx[d].pipeline /\ ctx'[d].caps = ctx[d].caps
            /\ ctx'[d].contended = ctx[d].contended
            /\ d # c => ctx'[d].appsrc = ctx[d].appsrc
        BY <2>4
      <4>4. CASE u = t
        <5>1. d = c /\ pc'[u] = "187" /\ k = "video"
          BY <1>2, <2>2, <2>5, <3>3, <4>2, <4>4 DEF WorkLines
        <5> QED
          BY <4>1, <4>2, <4>3, <5>1, <2>7, <2>10 DEF AtWork, Mine, HasContext
      <4>5. CASE u # t
        <5>1. pc'[u] = pc[u]
          BY <2>5, <4>5 DEF OthersStay
        <5>2. ~ctx[d].contended /\ pc[u] \in {"187", "191"} =>
                ctx'[d].appsrc["video"] \in {NULL, ctx[d].pipeline}
          <6>1. ~ctx[d].contended /\ pc[u] \in {"187", "191"} =>
                  ctx[d].appsrc["video"] \in {NULL, ctx[d].pipeline}
            BY <4>1, <4>2 DEF AtWork, Mine
          <6>2. CASE d # c
            BY <4>3, <6>1, <6>2
          <6>3. CASE d = c
            BY <2>7, <2>10, <6>1, <6>3
          <6> QED
            BY <6>2, <6>3
        <5> QED
          BY <4>1, <4>2, <4>3, <5>1, <5>2 DEF AtWork, Mine, HasContext
      <4> QED
        BY <4>4, <4>5
    <3> QED
      BY <3>2, <3>3
  <2>13. SourcesTogether'
    BY <2>11 DEF SourcesTogether
  <2> QED
    BY <2>8, <2>12, <2>13 DEF SourcesInv, SourcesOfCaps
<1> QED
  BY <1>1, <1>2 DEF SetSource, SourceSet

LEMMA SourcesStep == ThreadsInv /\ OutputsInv /\ SourcesInv /\ [Next]_vars => SourcesInv'
<1> SUFFICES ASSUME ThreadsInv, OutputsInv, SourcesInv, [Next]_vars PROVE SourcesInv'
  OBVIOUS
<1>1. CASE UNCHANGED vars
  BY <1>1, SourcesStay DEF vars
<1>2. ASSUME NEW t \in Threads, NullContext(t) \/ TableRace(t) PROVE SourcesInv'
  BY <1>2, DiesSources DEF NullContext, TableRace
<1>3. ASSUME NEW t \in Threads, Call(t) \/ Run(t) PROVE SourcesInv'
  BY <1>2, <1>3, CallSources, ContainsSources, LookupSources, OtherSources,
     PushBufferSources, FieldsSources, PipelineSources, RegisterStreamSources,
     RegisterStreamEndSources, ReadOutputSources, SetSourceSources
     DEF Run, SetAppsrc
<1> QED
  BY <1>1, <1>3 DEF Next

LEMMA InitSources == Init => SourcesInv
<1> SUFFICES ASSUME Init PROVE SourcesInv
  OBVIOUS
<1>1. \A c \in Contexts, k \in Kinds : ctx[c].appsrc[k] = NULL
  <2>1. ASSUME NEW c \in Contexts
        PROVE  \/ \E s, tracks, mounted : ctx[c] = Announced(s, c, tracks, mounted)
               \/ ctx[c] = NewContext(NULL)
    BY DEF Init
  <2>2. ASSUME NEW c, NEW s, NEW tracks, NEW mounted
        PROVE  /\ Announced(s, c, tracks, mounted).appsrc = [k \in Kinds |-> NULL]
               /\ NewContext(NULL).appsrc = [k \in Kinds |-> NULL]
    BY DEF Announced, NewContext
  <2>3. ASSUME NEW c \in Contexts PROVE ctx[c].appsrc = [k \in Kinds |-> NULL]
    BY <2>1, <2>2
  <2> QED
    BY <2>3
<1>2. \A t \in Threads : pc[t] = "start"
  BY DEF Init
<1>3. SourcesOfCaps /\ SourcesTogether
  BY <1>1 DEF SourcesOfCaps, SourcesTogether, Kinds
<1>4. \A t \in Threads : AtWork(t)
  BY <1>2 DEF AtWork
<1> QED
  BY <1>3, <1>4 DEF SourcesInv

(***************************************************************************)
(* For any threads, launches and play requests: a context with two sources *)
(* has them in one pipeline unless ctx->pipeline was written while a       *)
(* set_appsrc was between its reads, which is the race that is not locked. *)
(***************************************************************************)
THEOREM SourcesStayTogether == Spec => []SourcesTogether
<1>1. SourcesInv => SourcesTogether
  BY DEF SourcesInv
<1>2. Spec => []OutputsInv
  BY InitOutputs, OutputsStep, ThreadsInvHolds, PTL DEF Spec
<1>3. Spec => []SourcesInv
  BY <1>2, InitSources, SourcesStep, ThreadsInvHolds, PTL DEF Spec
<1> QED
  BY <1>1, <1>3, PTL
=============================================================================
