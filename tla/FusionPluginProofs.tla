------------------------- MODULE FusionPluginProofs -------------------------
(***************************************************************************)
(* Proofs about FusionPlugin, for any number of applications, streams,     *)
(* contexts and pipelines: the ownership of sources and packets and what   *)
(* it gives; the refinement of OutputSwitch; which pipelines and mount     *)
(* points are left behind; whose caps a pipeline declares; that nothing    *)
(* crashes with the flags of SamplePlugin.                                 *)
(***************************************************************************)
EXTENDS FusionPlugin, TLAPS

USE DEF Kinds

LEMMA NullFacts ==
  /\ NULL \notin Streams
  /\ NULL \notin Contexts
  /\ NULL \notin Pipelines
  /\ NULL \notin Codecs
BY NullAssumption

LEMMA FreeTypes ==
  /\ FreeContext \in StreamMapT
  /\ FreePipeline \in PipelineT
  /\ NoFactory \in FactoryT
BY DEF FreeContext, FreePipeline, NoFactory, NoCodecs, StreamMapT, PipelineT,
       FactoryT

-----------------------------------------------------------------------------
(* What the helpers do to one structure. *)

LEMMA ParseCodecKeeps ==
  ASSUME NEW r \in StreamMapT
  PROVE  /\ ParseCodec(r) \in StreamMapT
         /\ ParseCodec(r).stream = r.stream
         /\ ParseCodec(r).appsrc = r.appsrc
         /\ ParseCodec(r).pipeline = r.pipeline
         /\ \A k \in Kinds : r.caps[k] # NULL => ParseCodec(r).caps[k] # NULL
<1> DEFINE caps == [k \in Kinds |-> IF r.par[k] = NULL THEN r.caps[k] ELSE r.par[k]]
<1>1. ParseCodec(r) = [r EXCEPT !.caps = caps]
  BY DEF ParseCodec, StreamMapT
<1>2. caps \in [Kinds -> Codecs \cup {NULL}]
  BY DEF StreamMapT
<1> HIDE DEF caps
<1>3. [r EXCEPT !.caps = caps] \in StreamMapT
  BY <1>2 DEF StreamMapT
<1>4. /\ [r EXCEPT !.caps = caps].stream = r.stream
      /\ [r EXCEPT !.caps = caps].appsrc = r.appsrc
      /\ [r EXCEPT !.caps = caps].pipeline = r.pipeline
      /\ [r EXCEPT !.caps = caps].caps = caps
  BY DEF StreamMapT
<1>5. \A k \in Kinds : r.caps[k] # NULL => caps[k] # NULL
  BY DEF caps
<1> QED
  BY <1>1, <1>3, <1>4, <1>5

LEMMA SetupCodecKeeps ==
  ASSUME NEW r \in StreamMapT, NEW k \in Kinds, NEW d \in Codecs
  PROVE  /\ SetupCodec(r, k, d) \in StreamMapT
         /\ SetupCodec(r, k, d).stream = r.stream
         /\ SetupCodec(r, k, d).appsrc = r.appsrc
         /\ SetupCodec(r, k, d).pipeline = r.pipeline
         /\ SetupCodec(r, k, d).caps = r.caps
<1> DEFINE par == [r.par EXCEPT ![k] = d]
           prs == IF HasParser(d) THEN r.parser \cup {k} ELSE r.parser
           bsf == r.bsfContext \/ (k = "video" /\ HasFilter(d))
<1>1. SetupCodec(r, k, d) =
        [r EXCEPT !.par = par, !.parser = prs, !.bsfContext = bsf]
  BY DEF SetupCodec, StreamMapT
<1>2. par \in [Kinds -> Codecs \cup {NULL}] /\ prs \in SUBSET Kinds /\ bsf \in BOOLEAN
  BY DEF StreamMapT
<1> HIDE DEF par, prs, bsf
<1> QED
  BY <1>1, <1>2 DEF StreamMapT

LEMMA SetAppsrcSets ==
  ASSUME NEW r \in StreamMapT, NEW p \in Pipelines
  PROVE  /\ SetAppsrc(r, p) \in StreamMapT
         /\ SetAppsrc(r, p).stream = r.stream
         /\ SetAppsrc(r, p).caps = r.caps
         /\ SetAppsrc(r, p).pipeline = p
         /\ \A k \in Kinds : SetAppsrc(r, p).appsrc[k] =
                               IF r.caps[k] # NULL THEN p ELSE r.appsrc[k]
<1> DEFINE src == [k \in Kinds |-> IF r.caps[k] # NULL THEN p ELSE r.appsrc[k]]
<1>1. SetAppsrc(r, p) = [r EXCEPT !.pipeline = p, !.appsrc = src,
                                  !.pipeline_initialized = TRUE]
  BY DEF SetAppsrc, StreamMapT
<1>2. src \in [Kinds -> Pipelines \cup {NULL}]
  BY DEF StreamMapT
<1>3. \A k \in Kinds : src[k] = IF r.caps[k] # NULL THEN p ELSE r.appsrc[k]
  OBVIOUS
<1> HIDE DEF src
<1> QED
  BY <1>1, <1>2, <1>3 DEF StreamMapT

LEMMA NewPipelineType ==
  ASSUME NEW kind \in {"launch", "media"}, NEW state \in {"playing", "null"},
         NEW s \in Streams, NEW g \in Contexts \cup {NULL},
         NEW caps \in [Kinds -> Codecs \cup {NULL}]
  PROVE  /\ NewPipeline(kind, state, s, g, caps) \in PipelineT
         /\ NewPipeline(kind, state, s, g, caps).stream = s
         /\ NewPipeline(kind, state, s, g, caps).state = state
         /\ NewPipeline(kind, state, s, g, caps).fed = {}
BY DEF NewPipeline, PipelineT

-----------------------------------------------------------------------------
(***************************************************************************)
(* The ownership part of NativeInv survives every step that adds nothing   *)
(* to the table, keeps the stream of every context and of every built       *)
(* pipeline, and changes the appsrcs of a context only to a pipeline of    *)
(* its own stream, for all the kinds it has caps for.                      *)
(***************************************************************************)
Ownership ==
  /\ TableOwned /\ SourcesOwned /\ SourcesPaired /\ FedOwned
  /\ PointersBuilt /\ FreeUnused

SourcesKept(c) ==
  /\ ctx'[c].appsrc = ctx[c].appsrc
  /\ \A k \in Kinds : ctx[c].caps[k] # NULL => ctx'[c].caps[k] # NULL

SourcesSet(c, p) ==
  /\ pipe'[p].stream = ctx[c].stream /\ ctx[c].stream # NULL
  /\ \A k \in Kinds :
       /\ ctx[c].caps[k] # NULL => ctx'[c].caps[k] # NULL
       /\ ctx'[c].appsrc[k] = IF ctx'[c].caps[k] # NULL THEN p
                                                      ELSE ctx[c].appsrc[k]

PointerKept(c) ==
  \/ ctx'[c].pipeline \in {NULL, ctx[c].pipeline}
  \/ pipe'[ctx'[c].pipeline].stream # NULL

LEMMA OwnershipKept ==
  ASSUME NativeInv,
         \A s \in Streams : table'[s] # NULL => table'[s] = table[s],
         \A c \in Contexts : ctx'[c].stream = ctx[c].stream,
         \A p \in Pipelines : pipe[p].stream # NULL =>
                                 pipe'[p].stream = pipe[p].stream,
         \A p \in Pipelines : pipe'[p].fed = pipe[p].fed \/ pipe'[p].fed = {},
         \A c \in Contexts : SourcesKept(c) \/ \E p \in Pipelines : SourcesSet(c, p),
         \A c \in Contexts : PointerKept(c),
         FreeUnused'
  PROVE  Ownership'
<1> USE NullFacts
<1>1. TableOwned'
  BY DEF NativeInv, NativeTypeOK, TableOwned
<1>2. SourcesOwned'
  <2> SUFFICES ASSUME NEW c \in Contexts, NEW k \in Kinds, ctx'[c].appsrc[k] # NULL
               PROVE  /\ ctx'[c].caps[k] # NULL
                      /\ pipe'[ctx'[c].appsrc[k]].stream = ctx'[c].stream
                      /\ pipe'[ctx'[c].appsrc[k]].stream # NULL
    BY DEF SourcesOwned
  <2>t. ctx[c].appsrc[k] \in Pipelines \cup {NULL}
    BY DEF NativeInv, NativeTypeOK, StreamMapT
  <2>1. CASE SourcesKept(c)
    <3>1. ctx[c].appsrc[k] # NULL /\ ctx[c].appsrc[k] \in Pipelines
      BY <2>1, <2>t DEF SourcesKept
    <3>2. /\ ctx[c].caps[k] # NULL
          /\ pipe[ctx[c].appsrc[k]].stream = ctx[c].stream
          /\ pipe[ctx[c].appsrc[k]].stream # NULL
      BY <3>1 DEF NativeInv, SourcesOwned
    <3>3. ctx'[c].appsrc[k] = ctx[c].appsrc[k] /\ ctx'[c].caps[k] # NULL
      BY <2>1, <3>2 DEF SourcesKept
    <3> QED
      BY <3>1, <3>2, <3>3
  <2>2. CASE \E p \in Pipelines : SourcesSet(c, p)
    <3>1. PICK p \in Pipelines : SourcesSet(c, p)
      BY <2>2
    <3>2. ctx'[c].caps[k] # NULL
      BY <3>1, <2>t DEF SourcesSet, NativeInv, SourcesOwned
    <3>3. ctx'[c].appsrc[k] = p
      BY <3>1, <3>2 DEF SourcesSet
    <3> QED
      BY <3>1, <3>2, <3>3 DEF SourcesSet
  <2> QED
    BY <2>1, <2>2
<1>3. SourcesPaired'
  <2> SUFFICES ASSUME NEW c \in Contexts, ctx'[c].appsrc["video"] # NULL,
                      ctx'[c].appsrc["audio"] # NULL
               PROVE  ctx'[c].appsrc["video"] = ctx'[c].appsrc["audio"]
    BY DEF SourcesPaired
  <2>1. CASE SourcesKept(c)
    BY <2>1 DEF SourcesKept, NativeInv, SourcesPaired
  <2>2. CASE \E p \in Pipelines : SourcesSet(c, p)
    <3>1. PICK p \in Pipelines : SourcesSet(c, p)
      BY <2>2
    <3>2. \A k \in Kinds : ctx'[c].appsrc[k] # NULL => ctx'[c].caps[k] # NULL
      BY <1>2 DEF SourcesOwned
    <3> QED
      BY <3>1, <3>2 DEF SourcesSet
  <2> QED
    BY <2>1, <2>2
<1>4. FedOwned'
  <2> SUFFICES ASSUME NEW p \in Pipelines, NEW c \in pipe'[p].fed
               PROVE  ctx'[c].stream # NULL /\ ctx'[c].stream = pipe'[p].stream
    BY DEF FedOwned
  <2>1. c \in pipe[p].fed
    OBVIOUS
  <2>2. c \in Contexts
    BY <2>1 DEF NativeInv, NativeTypeOK, PipelineT
  <2>3. ctx[c].stream # NULL /\ ctx[c].stream = pipe[p].stream
    BY <2>1 DEF NativeInv, FedOwned
  <2> QED
    BY <2>2, <2>3
<1>5. PointersBuilt'
  BY DEF NativeInv, NativeTypeOK, StreamMapT, PointersBuilt, PointerKept
<1> QED
  BY <1>1, <1>2, <1>3, <1>4, <1>5 DEF Ownership

-----------------------------------------------------------------------------
(* One context replaced, one pipeline built, nothing changed. *)

LEMMA ContextReplaced ==
  ASSUME NativeInv, NEW c \in Contexts, NEW r \in StreamMapT,
         ctx' = [ctx EXCEPT ![c] = r]
  PROVE  /\ ctx' \in [Contexts -> StreamMapT]
         /\ ctx'[c] = r
         /\ \A d \in Contexts \ {c} : ctx'[d] = ctx[d]
BY DEF NativeInv, NativeTypeOK

LEMMA PipelineBuilt ==
  ASSUME NativeInv, NEW p \in Pipelines, Free(p), NEW q \in PipelineT,
         q.stream \in Streams, q.state # "free", q.fed = {},
         pipe' = [pipe EXCEPT ![p] = q]
  PROVE  /\ pipe' \in [Pipelines -> PipelineT]
         /\ pipe'[p] = q
         /\ FreeUnused'
         /\ \A x \in Pipelines : pipe[x].stream # NULL =>
                                   pipe'[x].stream = pipe[x].stream
         /\ \A x \in Pipelines : pipe'[x].fed = pipe[x].fed \/ pipe'[x].fed = {}
<1>1. pipe \in [Pipelines -> PipelineT] /\ FreeUnused
  BY DEF NativeInv, NativeTypeOK
<1>2. /\ pipe' \in [Pipelines -> PipelineT]
      /\ pipe'[p] = q
      /\ \A x \in Pipelines \ {p} : pipe'[x] = pipe[x]
  BY <1>1
<1>3. FreeUnused'
  BY <1>1, <1>2, NullFacts DEF FreeUnused, Free
<1>4. pipe[p].stream = NULL
  BY <1>1 DEF FreeUnused
<1> QED
  BY <1>1, <1>2, <1>3, <1>4

LEMMA NativeStutter ==
  ASSUME NativeInv, UNCHANGED <<lib, config, table, ctx, mounts, pipe, lost, status>>
  PROVE  NativeInv'
BY DEF NativeInv, NativeTypeOK, TableOwned, SourcesOwned, SourcesPaired,
       FedOwned, PointersBuilt, FreeUnused, Free

LEMMA InitNative ==
  Init => NativeInv /\ JavaTypeOK
<1> SUFFICES ASSUME Init PROVE NativeInv /\ JavaTypeOK
  OBVIOUS
<1>1. NativeTypeOK
  BY FreeTypes DEF Init, NativeTypeOK, ConfigT
<1>2. TableOwned /\ SourcesPaired /\ PointersBuilt
  BY DEF Init, TableOwned, SourcesPaired, PointersBuilt, FreeContext
<1>3. SourcesOwned /\ FedOwned /\ FreeUnused
  BY DEF Init, SourcesOwned, FedOwned, PointersBuilt, FreeUnused, Free, FreeContext, FreePipeline
<1>4. JavaTypeOK
  BY DEF Init, JavaTypeOK, Phases, NoCodecs
<1> QED
  BY <1>1, <1>2, <1>3, <1>4 DEF NativeInv

-----------------------------------------------------------------------------
(* The native operations, one lemma each. *)

LEMMA InitStepInv ==
  ASSUME NativeInv, GetConfig \/ NewTable \/ GstInit \/ InitRtsp
  PROVE  NativeInv'
<1>1. lib' \in {"loaded", "configured", "table", "gst", "serving"}
  BY DEF GetConfig, NewTable, GstInit, InitRtsp, InitStep
<1>2. config' \in ConfigT
  BY ConfigAssumption
  DEF GetConfig, NewTable, GstInit, InitRtsp, InitStep, NativeInv, NativeTypeOK
<1>3. UNCHANGED <<table, ctx, mounts, pipe, lost, status>>
  BY DEF GetConfig, NewTable, GstInit, InitRtsp, InitStep
<1> QED
  BY <1>1, <1>2, <1>3
  DEF NativeInv, NativeTypeOK, TableOwned, SourcesOwned, SourcesPaired,
      FedOwned, PointersBuilt, FreeUnused, Free

LEMMA RegisterStreamInv ==
  ASSUME NativeInv, NEW s \in Streams, RegisterStream(s)
  PROVE  NativeInv'
<1> USE NullFacts
<1> DEFINE r == [FreeContext EXCEPT !.stream = s]
<1>1. PICK c \in Contexts :
        /\ ctx[c].stream = NULL
        /\ ctx' = [ctx EXCEPT ![c] = r]
        /\ \/ table' = [table EXCEPT ![s] = c]
           \/ table' = table
        /\ \/ lost' = lost
           \/ table[s] # NULL /\ lost' = lost \cup {table[s]} \cup Dropped(ctx[table[s]].pipeline)
        /\ UNCHANGED <<lib, config, mounts, pipe, status>>
  BY DEF RegisterStream
<1>2. /\ r \in StreamMapT /\ r.stream = s /\ r.pipeline = NULL
      /\ \A k \in Kinds : r.appsrc[k] = NULL
  BY DEF StreamMapT, FreeContext, NoCodecs
<1> HIDE DEF r
<1>3. /\ ctx' \in [Contexts -> StreamMapT]
      /\ ctx'[c] = r
      /\ \A d \in Contexts \ {c} : ctx'[d] = ctx[d]
  BY <1>1, <1>2, ContextReplaced
<1>4. NativeTypeOK'
  <2>1. table' \in [Streams -> Contexts \cup {NULL}]
    BY <1>1 DEF NativeInv, NativeTypeOK
  <2>2. lost' \subseteq Contexts \cup Pipelines
    BY <1>1 DEF NativeInv, NativeTypeOK, Dropped, StreamMapT
  <2> QED
    BY <1>1, <1>3, <2>1, <2>2 DEF NativeInv, NativeTypeOK
<1>5. TableOwned'
  BY <1>1, <1>2, <1>3 DEF NativeInv, NativeTypeOK, TableOwned
<1>6. SourcesOwned' /\ SourcesPaired' /\ PointersBuilt'
  BY <1>1, <1>2, <1>3
  DEF NativeInv, SourcesOwned, SourcesPaired, PointersBuilt
<1>7. FedOwned' /\ FreeUnused'
  BY <1>1, <1>2, <1>3
  DEF NativeInv, NativeTypeOK, PipelineT, FedOwned, FreeUnused, Free
<1> QED
  BY <1>4, <1>5, <1>6, <1>7 DEF NativeInv

LEMMA SetStreamInfoInv ==
  ASSUME NativeInv, NEW s \in Streams, NEW k \in Kinds,
         NEW d \in Codecs \cup {NULL}, NEW e, SetStreamInfo(s, k, d, e)
  PROVE  NativeInv'
<1> USE NullFacts
<1>1. CASE UNCHANGED ctx
  BY <1>1, NativeStutter DEF SetStreamInfo
<1>2. CASE /\ d # NULL /\ table[s] # NULL
           /\ ctx' = [ctx EXCEPT ![table[s]] = SetupCodec(@, k, d)]
  <2> DEFINE c == table[s]
             r == SetupCodec(ctx[c], k, d)
  <2>1. c \in Contexts /\ ctx[c] \in StreamMapT
    BY <1>2 DEF NativeInv, NativeTypeOK
  <2>2. r \in StreamMapT /\ r.stream = ctx[c].stream /\ r.appsrc = ctx[c].appsrc
        /\ r.caps = ctx[c].caps /\ r.pipeline = ctx[c].pipeline
    BY <1>2, <2>1, SetupCodecKeeps
  <2>3. ctx' = [ctx EXCEPT ![c] = r]
    BY <1>2
  <2> HIDE DEF c, r
  <2>4. /\ ctx' \in [Contexts -> StreamMapT]
        /\ ctx'[c] = r
        /\ \A x \in Contexts \ {c} : ctx'[x] = ctx[x]
    BY <2>1, <2>2, <2>3, ContextReplaced
  <2>5. UNCHANGED <<lib, config, table, mounts, pipe, lost, status>>
    BY DEF SetStreamInfo
  <2>6. NativeTypeOK' /\ FreeUnused'
    BY <2>4, <2>5 DEF NativeInv, NativeTypeOK, FreeUnused, Free
  <2>7. \A x \in Contexts : /\ SourcesKept(x) /\ PointerKept(x)
                            /\ ctx'[x].stream = ctx[x].stream
    BY <2>2, <2>4 DEF SourcesKept, PointerKept
  <2> QED
    BY <2>5, <2>6, <2>7, OwnershipKept DEF Ownership, NativeInv
<1> QED
  BY <1>1, <1>2 DEF SetStreamInfo

(***************************************************************************)
(* A context keeps its sources or has them all set to a pipeline that was  *)
(* just built: the two ways the operations below use OwnershipKept.        *)
(***************************************************************************)
LEMMA KeepsSources ==
  ASSUME NativeInv, NEW c \in Contexts, NEW r \in StreamMapT,
         ctx' = [ctx EXCEPT ![c] = r],
         r.stream = ctx[c].stream, r.appsrc = ctx[c].appsrc,
         \A k \in Kinds : ctx[c].caps[k] # NULL => r.caps[k] # NULL,
         \/ r.pipeline \in {NULL, ctx[c].pipeline}
         \/ pipe'[r.pipeline].stream # NULL
  PROVE  /\ ctx' \in [Contexts -> StreamMapT]
         /\ \A x \in Contexts : ctx'[x].stream = ctx[x].stream
         /\ \A x \in Contexts : SourcesKept(x) /\ PointerKept(x)
<1>1. /\ ctx' \in [Contexts -> StreamMapT]
      /\ ctx'[c] = r
      /\ \A x \in Contexts \ {c} : ctx'[x] = ctx[x]
  BY ContextReplaced
<1> QED
  BY <1>1 DEF SourcesKept, PointerKept

LEMMA SetsSources ==
  ASSUME NativeInv, NEW c \in Contexts, NEW r \in StreamMapT, NEW p \in Pipelines,
         ctx' = [ctx EXCEPT ![c] = SetAppsrc(r, p)],
         r.stream = ctx[c].stream, r.appsrc = ctx[c].appsrc,
         \A k \in Kinds : ctx[c].caps[k] # NULL => r.caps[k] # NULL,
         pipe'[p].stream = ctx[c].stream, ctx[c].stream # NULL
  PROVE  /\ ctx' \in [Contexts -> StreamMapT]
         /\ \A x \in Contexts : ctx'[x].stream = ctx[x].stream
         /\ \A x \in Contexts : SourcesKept(x) \/ \E q \in Pipelines : SourcesSet(x, q)
         /\ \A x \in Contexts : PointerKept(x)
<1> DEFINE w == SetAppsrc(r, p)
<1>1. /\ w \in StreamMapT /\ w.stream = r.stream /\ w.caps = r.caps
      /\ w.pipeline = p
      /\ \A k \in Kinds : w.appsrc[k] = IF r.caps[k] # NULL THEN p ELSE r.appsrc[k]
  BY SetAppsrcSets
<1>2. ctx' = [ctx EXCEPT ![c] = w]
  OBVIOUS
<1> HIDE DEF w
<1>3. /\ ctx' \in [Contexts -> StreamMapT]
      /\ ctx'[c] = w
      /\ \A x \in Contexts \ {c} : ctx'[x] = ctx[x]
  BY <1>1, <1>2, ContextReplaced
<1>4. SourcesSet(c, p)
  BY <1>1, <1>3 DEF SourcesSet
<1>5. \A x \in Contexts \ {c} : SourcesKept(x)
  BY <1>3 DEF SourcesKept
<1>6. \A x \in Contexts : PointerKept(x)
  BY <1>1, <1>3 DEF PointerKept
<1> QED
  BY <1>1, <1>3, <1>4, <1>5, <1>6

LEMMA LaunchedInv ==
  ASSUME NativeInv, NEW s \in Streams, NEW c \in Contexts, table[s] = c,
         NEW p \in Pipelines, Free(p),
         \/ Launched(s, c, ParseCodec(ctx[c]), p)
         \/ LaunchedInPart(s, c, ParseCodec(ctx[c]), p),
         UNCHANGED <<lib, config, table, mounts, status>>
  PROVE  NativeInv'
<1> USE NullFacts
<1> DEFINE r == ParseCodec(ctx[c])
           st == IF Launched(s, c, r, p) THEN "playing" ELSE "null"
           q == NewPipeline("launch", st, s, c, r.caps)
<1>1. ctx[c] \in StreamMapT /\ ctx[c].stream = s
  BY DEF NativeInv, NativeTypeOK, TableOwned
<1>2. /\ r \in StreamMapT /\ r.stream = ctx[c].stream /\ r.appsrc = ctx[c].appsrc
      /\ r.pipeline \in Pipelines \cup {NULL}
      /\ \A k \in Kinds : ctx[c].caps[k] # NULL => r.caps[k] # NULL
  <2>1. r \in StreamMapT
    BY <1>1, ParseCodecKeeps
  <2> QED
    BY <2>1, <1>1, ParseCodecKeeps DEF StreamMapT
<1>3. q \in PipelineT /\ q.stream = s /\ q.state # "free" /\ q.fed = {}
  <2>1. r.caps \in [Kinds -> Codecs \cup {NULL}]
    BY <1>2 DEF StreamMapT
  <2>2. st \in {"playing", "null"}
    OBVIOUS
  <2> HIDE DEF r, st
  <2> QED
    BY <2>1, <2>2, NewPipelineType
<1>4. pipe' = [pipe EXCEPT ![p] = q] /\ lost' = lost \cup Dropped(r.pipeline)
  <2>1. CASE Launched(s, c, r, p)
    BY <2>1 DEF Launched
  <2>2. CASE ~Launched(s, c, r, p)
    BY <2>2 DEF LaunchedInPart
  <2> QED
    BY <2>1, <2>2
<1>5. \/ ctx' = [ctx EXCEPT ![c] = SetAppsrc(r, p)]
      \/ ctx' = [ctx EXCEPT ![c] = [r EXCEPT !.pipeline = p]]
  BY DEF Launched, LaunchedInPart
<1> HIDE DEF r, q, st
<1>6. /\ pipe' \in [Pipelines -> PipelineT] /\ pipe'[p] = q /\ FreeUnused'
      /\ \A x \in Pipelines : pipe[x].stream # NULL =>
                                pipe'[x].stream = pipe[x].stream
      /\ \A x \in Pipelines : pipe'[x].fed = pipe[x].fed \/ pipe'[x].fed = {}
  BY <1>3, <1>4, PipelineBuilt
<1>7. /\ ctx' \in [Contexts -> StreamMapT]
      /\ \A x \in Contexts : ctx'[x].stream = ctx[x].stream
      /\ \A x \in Contexts : SourcesKept(x) \/ \E y \in Pipelines : SourcesSet(x, y)
      /\ \A x \in Contexts : PointerKept(x)
  <2>1. CASE ctx' = [ctx EXCEPT ![c] = SetAppsrc(r, p)]
    BY <2>1, <1>1, <1>2, <1>3, <1>6, SetsSources
  <2>2. CASE ctx' = [ctx EXCEPT ![c] = [r EXCEPT !.pipeline = p]]
    <3> DEFINE w == [r EXCEPT !.pipeline = p]
    <3>1. /\ w \in StreamMapT /\ w.stream = r.stream /\ w.appsrc = r.appsrc
          /\ w.caps = r.caps /\ w.pipeline = p
      BY <1>2 DEF StreamMapT
    <3>2. ctx' = [ctx EXCEPT ![c] = w]
      BY <2>2
    <3> HIDE DEF w
    <3>3. pipe'[w.pipeline].stream # NULL
      BY <3>1, <1>3, <1>6
    <3>4. \A k \in Kinds : ctx[c].caps[k] # NULL => w.caps[k] # NULL
      BY <3>1, <1>2
    <3>5. w.stream = ctx[c].stream /\ w.appsrc = ctx[c].appsrc
      BY <3>1, <1>2
    <3> QED
      BY <3>1, <3>2, <3>3, <3>4, <3>5, KeepsSources
  <2> QED
    BY <1>5, <2>1, <2>2
<1>8. lost' \subseteq Contexts \cup Pipelines
  BY <1>2, <1>4 DEF Dropped, NativeInv, NativeTypeOK
<1>9. NativeTypeOK'
  BY <1>6, <1>7, <1>8 DEF NativeInv, NativeTypeOK
<1>10. Ownership'
  BY <1>6, <1>7, OwnershipKept
<1> QED
  BY <1>9, <1>10 DEF Ownership, NativeInv

LEMMA LaunchFailedInv ==
  ASSUME NativeInv, NEW c \in Contexts, LaunchFailed(c, ParseCodec(ctx[c])),
         UNCHANGED <<lib, config, table, mounts, status>>
  PROVE  NativeInv'
<1> USE NullFacts
<1> DEFINE r == ParseCodec(ctx[c])
           w == [r EXCEPT !.pipeline = NULL]
<1>1. ctx[c] \in StreamMapT
  BY DEF NativeInv, NativeTypeOK
<1>2. /\ r \in StreamMapT /\ r.stream = ctx[c].stream /\ r.appsrc = ctx[c].appsrc
      /\ r.pipeline = ctx[c].pipeline
      /\ \A k \in Kinds : ctx[c].caps[k] # NULL => r.caps[k] # NULL
  BY <1>1, ParseCodecKeeps
<1>3. ctx' = [ctx EXCEPT ![c] = w] /\ UNCHANGED pipe
      /\ lost' = lost \cup {c} \cup Dropped(r.pipeline)
  BY DEF LaunchFailed
<1> HIDE DEF r
<1>4. /\ w \in StreamMapT /\ w.stream = r.stream /\ w.appsrc = r.appsrc
      /\ w.caps = r.caps /\ w.pipeline = NULL
  BY <1>2 DEF StreamMapT
<1> HIDE DEF w
<1>5. /\ ctx' \in [Contexts -> StreamMapT]
      /\ \A x \in Contexts : ctx'[x].stream = ctx[x].stream
      /\ \A x \in Contexts : SourcesKept(x) /\ PointerKept(x)
  BY <1>2, <1>3, <1>4, KeepsSources
<1>6. NativeTypeOK' /\ FreeUnused'
  BY <1>2, <1>3, <1>5
  DEF NativeInv, NativeTypeOK, FreeUnused, Free, Dropped, StreamMapT
<1>7. Ownership'
  BY <1>3, <1>5, <1>6, OwnershipKept
<1> QED
  BY <1>6, <1>7 DEF Ownership, NativeInv

LEMMA AddRtspInv ==
  ASSUME NativeInv, NEW s \in Streams, NEW c \in Contexts, AddRtspPipeline(s, c),
         UNCHANGED <<lib, config, table>>
  PROVE  NativeInv'
<1> USE NullFacts
<1> DEFINE r == ParseCodec(ctx[c])
           w == [r EXCEPT !.rtsp_mountpoint = TRUE]
           f == [gen |-> c, caps |-> r.caps, ok |-> Parsable(r), media |-> NULL]
<1>1. ctx[c] \in StreamMapT
  BY DEF NativeInv, NativeTypeOK
<1>2. /\ r \in StreamMapT /\ r.stream = ctx[c].stream /\ r.appsrc = ctx[c].appsrc
      /\ r.pipeline = ctx[c].pipeline
      /\ \A k \in Kinds : ctx[c].caps[k] # NULL => r.caps[k] # NULL
  BY <1>1, ParseCodecKeeps
<1>3. /\ ctx' = [ctx EXCEPT ![c] = w]
      /\ mounts' = mounts \/ mounts' = [mounts EXCEPT ![s] = f]
      /\ UNCHANGED <<pipe, lost, status>>
  BY DEF AddRtspPipeline
<1> HIDE DEF r
<1>4. /\ w \in StreamMapT /\ w.stream = r.stream /\ w.appsrc = r.appsrc
      /\ w.caps = r.caps /\ w.pipeline = ctx[c].pipeline
  BY <1>2 DEF StreamMapT
<1>5. f \in FactoryT
  <2>1. r.caps \in [Kinds -> Codecs \cup {NULL}]
    BY <1>2 DEF StreamMapT
  <2>2. Parsable(r) \in BOOLEAN
    BY DEF Parsable
  <2> QED
    BY <2>1, <2>2 DEF FactoryT
<1> HIDE DEF w, f
<1>6. /\ ctx' \in [Contexts -> StreamMapT]
      /\ \A x \in Contexts : ctx'[x].stream = ctx[x].stream
      /\ \A x \in Contexts : SourcesKept(x) /\ PointerKept(x)
  BY <1>2, <1>3, <1>4, KeepsSources
<1>7. mounts' \in [Streams -> FactoryT]
  BY <1>3, <1>5 DEF NativeInv, NativeTypeOK
<1>8. NativeTypeOK' /\ FreeUnused'
  BY <1>3, <1>6, <1>7 DEF NativeInv, NativeTypeOK, FreeUnused, Free
<1>9. Ownership'
  BY <1>3, <1>6, <1>8, OwnershipKept
<1> QED
  BY <1>8, <1>9 DEF Ownership, NativeInv

LEMMA StatusInv ==
  ASSUME NativeInv, UNCHANGED <<lib, config, table, ctx, mounts, pipe, lost>>,
         status' \in {"running", "segv", "abort"}
  PROVE  NativeInv'
BY DEF NativeInv, NativeTypeOK, TableOwned, SourcesOwned, SourcesPaired,
       FedOwned, PointersBuilt, FreeUnused, Free

LEMMA RegisterPipelineInv ==
  ASSUME NativeInv, NEW s \in Streams, NEW type, RegisterPipeline(s, type)
  PROVE  NativeInv'
<1> USE NullFacts
<1> DEFINE c == table[s]
<1>1. UNCHANGED <<lib, config, table>>
  BY DEF RegisterPipeline
<1>2. c \in Contexts \cup {NULL}
  BY DEF NativeInv, NativeTypeOK
<1>3. CASE UNCHANGED <<ctx, mounts, pipe, lost>> /\ (UNCHANGED status \/ status' = "segv")
  <2>1. status' \in {"running", "segv", "abort"}
    BY <1>3 DEF NativeInv, NativeTypeOK
  <2> QED
    BY <1>1, <1>3, <2>1, StatusInv
<1>4. CASE c # NULL /\ AddRtspPipeline(s, c)
  BY <1>1, <1>2, <1>4, AddRtspInv
<1>5. CASE c # NULL /\ AddGstreamerPipeline(s, c)
  <2>1. c \in Contexts
    BY <1>2, <1>5
  <2>2. UNCHANGED <<mounts, status>>
    BY <1>5 DEF AddGstreamerPipeline
  <2>3. \/ LaunchFailed(c, ParseCodec(ctx[c]))
        \/ \E p \in Pipelines :
             /\ Free(p)
             /\ \/ Launched(s, c, ParseCodec(ctx[c]), p)
                \/ LaunchedInPart(s, c, ParseCodec(ctx[c]), p)
    BY <1>5 DEF AddGstreamerPipeline
  <2>4. CASE LaunchFailed(c, ParseCodec(ctx[c]))
    BY <1>1, <2>1, <2>2, <2>4, LaunchFailedInv
  <2>5. CASE \E p \in Pipelines :
               /\ Free(p)
               /\ \/ Launched(s, c, ParseCodec(ctx[c]), p)
                  \/ LaunchedInPart(s, c, ParseCodec(ctx[c]), p)
    BY <1>1, <2>1, <2>2, <2>5, LaunchedInv
  <2> QED
    BY <2>3, <2>4, <2>5
<1> QED
  BY <1>3, <1>4, <1>5 DEF RegisterPipeline

LEMMA CallDefaultInv ==
  ASSUME NativeInv, NEW s \in Streams, CallDefaultPipeline(s)
  PROVE  NativeInv'
BY RegisterPipelineInv, NativeStutter DEF CallDefaultPipeline, native

LEMMA PipelineStopped ==
  ASSUME NativeInv, NEW p \in Pipelines, ~Free(p),
         pipe' = [pipe EXCEPT ![p].state = "null"]
  PROVE  /\ pipe' \in [Pipelines -> PipelineT]
         /\ FreeUnused'
         /\ \A x \in Pipelines : pipe'[x].stream = pipe[x].stream
                              /\ pipe'[x].fed = pipe[x].fed
<1>1. pipe \in [Pipelines -> PipelineT] /\ FreeUnused
  BY DEF NativeInv, NativeTypeOK
<1> DEFINE q == [pipe[p] EXCEPT !.state = "null"]
<1>2. /\ q \in PipelineT /\ q.stream = pipe[p].stream /\ q.fed = pipe[p].fed
      /\ q.state = "null"
  BY <1>1 DEF PipelineT
<1>3. pipe' = [pipe EXCEPT ![p] = q]
  OBVIOUS
<1> HIDE DEF q
<1>4. /\ pipe' \in [Pipelines -> PipelineT] /\ pipe'[p] = q
      /\ \A x \in Pipelines \ {p} : pipe'[x] = pipe[x]
  BY <1>1, <1>2, <1>3
<1> QED
  BY <1>1, <1>2, <1>4 DEF FreeUnused, Free

LEMMA UnregisterInv ==
  ASSUME NativeInv, NEW s \in Streams, Unregister(s)
  PROVE  NativeInv'
<1> USE NullFacts
<1>1. table' = [table EXCEPT ![s] = NULL] /\ UNCHANGED <<lib, config, lost, status>>
  BY DEF Unregister
<1>2. table' \in [Streams -> Contexts \cup {NULL}]
      /\ \A t \in Streams : table'[t] # NULL => table'[t] = table[t]
  BY <1>1 DEF NativeInv, NativeTypeOK
<1>3. CASE UNCHANGED <<pipe, ctx, mounts>>
  BY <1>1, <1>2, <1>3
  DEF NativeInv, NativeTypeOK, TableOwned, SourcesOwned, SourcesPaired,
      FedOwned, PointersBuilt, FreeUnused, Free
<1>4. CASE \E c \in Contexts, p \in Pipelines :
             /\ table[s] = c /\ ctx[c].pipeline = p
             /\ pipe' = [pipe EXCEPT ![p].state = "null"]
             /\ ctx' = [ctx EXCEPT ![c].pipeline = NULL]
             /\ mounts' = IF ctx[c].rtsp_mountpoint
                          THEN [mounts EXCEPT ![s] = NoFactory] ELSE mounts
  <2>1. PICK c \in Contexts, p \in Pipelines :
             /\ table[s] = c /\ ctx[c].pipeline = p
             /\ pipe' = [pipe EXCEPT ![p].state = "null"]
             /\ ctx' = [ctx EXCEPT ![c].pipeline = NULL]
             /\ mounts' = IF ctx[c].rtsp_mountpoint
                          THEN [mounts EXCEPT ![s] = NoFactory] ELSE mounts
    BY <1>4
  <2>2. ~Free(p)
    BY <2>1 DEF NativeInv, PointersBuilt, FreeUnused
  <2>3. /\ pipe' \in [Pipelines -> PipelineT]
        /\ FreeUnused'
        /\ \A x \in Pipelines : pipe'[x].stream = pipe[x].stream
                             /\ pipe'[x].fed = pipe[x].fed
    BY <2>1, <2>2, PipelineStopped
  <2> DEFINE r == [ctx[c] EXCEPT !.pipeline = NULL]
  <2>4. /\ r \in StreamMapT /\ r.stream = ctx[c].stream
        /\ r.appsrc = ctx[c].appsrc /\ r.caps = ctx[c].caps /\ r.pipeline = NULL
    BY DEF NativeInv, NativeTypeOK, StreamMapT
  <2>5. ctx' = [ctx EXCEPT ![c] = r]
    BY <2>1
  <2> HIDE DEF r
  <2>6. /\ ctx' \in [Contexts -> StreamMapT] /\ ctx'[c] = r
        /\ \A x \in Contexts \ {c} : ctx'[x] = ctx[x]
    BY <2>4, <2>5, ContextReplaced
  <2>7. mounts' \in [Streams -> FactoryT]
    BY <2>1, FreeTypes DEF NativeInv, NativeTypeOK
  <2>8. NativeTypeOK'
    BY <1>1, <1>2, <2>3, <2>6, <2>7 DEF NativeInv, NativeTypeOK
  <2>9. \A x \in Contexts : /\ SourcesKept(x) /\ PointerKept(x)
                            /\ ctx'[x].stream = ctx[x].stream
    BY <2>4, <2>6 DEF SourcesKept, PointerKept
  <2>10. Ownership'
    BY <1>2, <2>3, <2>9, OwnershipKept
  <2> QED
    BY <2>8, <2>10 DEF NativeInv, Ownership
<1> QED
  BY <1>3, <1>4 DEF Unregister

LEMMA ClientsLeaveInv ==
  ASSUME NativeInv, NEW p \in Pipelines, ClientsLeave(p)
  PROVE  NativeInv'
<1> USE NullFacts
<1>1. ~Free(p)
  BY DEF ClientsLeave, NativeInv, FreeUnused
<1>2. /\ pipe' = [pipe EXCEPT ![p].state = "null"]
      /\ UNCHANGED <<lib, config, table, ctx, lost, status>>
  BY DEF ClientsLeave
<1>3. /\ pipe' \in [Pipelines -> PipelineT]
      /\ FreeUnused'
      /\ \A x \in Pipelines : pipe'[x].stream = pipe[x].stream
                           /\ pipe'[x].fed = pipe[x].fed
  BY <1>1, <1>2, PipelineStopped
<1>4. mounts' \in [Streams -> FactoryT]
  <2> SUFFICES ASSUME NEW s \in Streams
               PROVE  (IF mounts[s].media = p THEN [mounts[s] EXCEPT !.media = NULL]
                                              ELSE mounts[s]) \in FactoryT
    BY DEF ClientsLeave
  <2>1. mounts[s] \in FactoryT
    BY DEF NativeInv, NativeTypeOK
  <2>2. [mounts[s] EXCEPT !.media = NULL] \in FactoryT
    BY <2>1 DEF FactoryT
  <2> QED
    BY <2>1, <2>2
<1>5. NativeTypeOK'
  BY <1>2, <1>3, <1>4 DEF NativeInv, NativeTypeOK
<1>6. \A x \in Contexts : SourcesKept(x) /\ PointerKept(x)
  BY <1>2 DEF SourcesKept, PointerKept
<1>7. Ownership'
  BY <1>2, <1>3, <1>6, OwnershipKept
<1> QED
  BY <1>5, <1>7 DEF Ownership, NativeInv

LEMMA ClientPlayInv ==
  ASSUME NativeInv, NEW s \in Streams, ClientPlay(s)
  PROVE  NativeInv'
<1> USE NullFacts
<1>1. PICK p \in Pipelines :
        /\ Free(p)
        /\ pipe' = [pipe EXCEPT ![p] = NewPipeline("media", "playing", s,
                                         mounts[s].gen, mounts[s].caps)]
        /\ mounts' = [mounts EXCEPT ![s].media = p]
        /\ MediaConfigure(s, p)
  BY DEF ClientPlay
<1>2. UNCHANGED <<lib, config, table>>
  BY DEF ClientPlay
<1> DEFINE q == NewPipeline("media", "playing", s, mounts[s].gen, mounts[s].caps)
<1>3. q \in PipelineT /\ q.stream = s /\ q.state # "free" /\ q.fed = {}
  <2>1. mounts[s].gen \in Contexts \cup {NULL}
        /\ mounts[s].caps \in [Kinds -> Codecs \cup {NULL}]
    BY DEF NativeInv, NativeTypeOK, FactoryT
  <2>2. q.state = "playing"
    BY DEF NewPipeline
  <2> QED
    BY <2>1, <2>2, NewPipelineType
<1> HIDE DEF q
<1>4. pipe' = [pipe EXCEPT ![p] = q]
  BY <1>1 DEF q
<1>5. /\ pipe' \in [Pipelines -> PipelineT] /\ pipe'[p] = q /\ FreeUnused'
      /\ \A x \in Pipelines : pipe[x].stream # NULL =>
                                pipe'[x].stream = pipe[x].stream
      /\ \A x \in Pipelines : pipe'[x].fed = pipe[x].fed \/ pipe'[x].fed = {}
  BY <1>1, <1>3, <1>4, PipelineBuilt
<1>6. mounts' \in [Streams -> FactoryT]
  <2>1. [mounts[s] EXCEPT !.media = p] \in FactoryT
    BY DEF NativeInv, NativeTypeOK, FactoryT
  <2>2. mounts' = [mounts EXCEPT ![s] = [mounts[s] EXCEPT !.media = p]]
    BY <1>1
  <2> QED
    BY <2>1, <2>2 DEF NativeInv, NativeTypeOK
<1>7. /\ ctx' \in [Contexts -> StreamMapT]
      /\ \A x \in Contexts : ctx'[x].stream = ctx[x].stream
      /\ \A x \in Contexts : SourcesKept(x) \/ \E y \in Pipelines : SourcesSet(x, y)
      /\ \A x \in Contexts : PointerKept(x)
      /\ lost' \subseteq Contexts \cup Pipelines
      /\ status' \in {"running", "segv", "abort"}
  <2>1. CASE UNCHANGED <<ctx, lost>> /\ (UNCHANGED status \/ status' = "abort")
    BY <2>1 DEF NativeInv, NativeTypeOK, SourcesKept, PointerKept
  <2>2. CASE \E c \in Contexts :
               /\ table[s] = c
               /\ ctx' = [ctx EXCEPT ![c] = SetAppsrc(@, p)]
               /\ lost' = lost \cup Dropped(ctx[c].pipeline)
               /\ UNCHANGED status
    <3>1. PICK c \in Contexts :
               /\ table[s] = c
               /\ ctx' = [ctx EXCEPT ![c] = SetAppsrc(ctx[c], p)]
               /\ lost' = lost \cup Dropped(ctx[c].pipeline)
               /\ UNCHANGED status
      BY <2>2
    <3>2. ctx[c] \in StreamMapT /\ ctx[c].stream = s
      BY <3>1 DEF NativeInv, NativeTypeOK, TableOwned
    <3>3. pipe'[p].stream = ctx[c].stream /\ ctx[c].stream # NULL
      BY <3>2, <1>3, <1>5
    <3>4. /\ ctx' \in [Contexts -> StreamMapT]
          /\ \A x \in Contexts : ctx'[x].stream = ctx[x].stream
          /\ \A x \in Contexts : SourcesKept(x) \/ \E y \in Pipelines : SourcesSet(x, y)
          /\ \A x \in Contexts : PointerKept(x)
      BY <3>1, <3>2, <3>3, SetsSources
    <3>5. lost' \subseteq Contexts \cup Pipelines
      BY <3>1, <3>2 DEF NativeInv, NativeTypeOK, Dropped, StreamMapT
    <3>6. status' \in {"running", "segv", "abort"}
      BY <3>1 DEF NativeInv, NativeTypeOK
    <3> QED
      BY <3>4, <3>5, <3>6
  <2> QED
    BY <1>1, <2>1, <2>2 DEF MediaConfigure
<1>8. NativeTypeOK'
  BY <1>2, <1>5, <1>6, <1>7 DEF NativeInv, NativeTypeOK
<1>9. Ownership'
  BY <1>2, <1>5, <1>7, OwnershipKept
<1> QED
  BY <1>8, <1>9 DEF Ownership, NativeInv

LEMMA OnPacketInv ==
  ASSUME NativeInv, NEW s \in Streams, NEW k \in Kinds, OnPacket(s, k)
  PROVE  NativeInv'
<1> USE NullFacts
<1> DEFINE c == table[s]
<1>1. c \in Contexts /\ ctx[c].stream = s
  BY DEF OnPacket, NativeInv, NativeTypeOK, TableOwned
<1>2. UNCHANGED <<lib, config, table, ctx, mounts, lost>>
  BY DEF OnPacket
<1>3. CASE UNCHANGED pipe /\ (UNCHANGED status \/ status' = "abort")
  <2>1. status' \in {"running", "segv", "abort"}
    BY <1>3 DEF NativeInv, NativeTypeOK
  <2> QED
    BY <1>2, <1>3, <2>1, StatusInv
<1>4. CASE /\ UNCHANGED status
           /\ \E p \in Pipelines : /\ ctx[c].appsrc[k] = p
                                   /\ pipe[p].state = "playing"
                                   /\ pipe' = [pipe EXCEPT ![p].fed = @ \cup {c}]
  <2>1. PICK p \in Pipelines : /\ ctx[c].appsrc[k] = p
                               /\ pipe[p].state = "playing"
                               /\ pipe' = [pipe EXCEPT ![p].fed = pipe[p].fed \cup {c}]
    BY <1>4
  <2> DEFINE q == [pipe[p] EXCEPT !.fed = pipe[p].fed \cup {c}]
  <2>2. /\ q \in PipelineT /\ q.stream = pipe[p].stream /\ q.state = "playing"
        /\ q.fed = pipe[p].fed \cup {c}
    BY <1>1, <2>1 DEF NativeInv, NativeTypeOK, PipelineT
  <2>3. pipe' = [pipe EXCEPT ![p] = q]
    BY <2>1
  <2> HIDE DEF q
  <2>4. /\ pipe' \in [Pipelines -> PipelineT] /\ pipe'[p] = q
        /\ \A x \in Pipelines \ {p} : pipe'[x] = pipe[x]
    BY <2>2, <2>3 DEF NativeInv, NativeTypeOK
  <2>5. pipe[p].stream = s
    BY <1>1, <2>1 DEF NativeInv, SourcesOwned
  <2>6. FedOwned'
    <3> SUFFICES ASSUME NEW x \in Pipelines, NEW d \in pipe'[x].fed
                 PROVE  ctx[d].stream # NULL /\ ctx[d].stream = pipe'[x].stream
      BY <1>2 DEF FedOwned
    <3>1. CASE x = p /\ d = c
      BY <3>1, <1>1, <2>2, <2>4, <2>5
    <3>2. CASE d \in pipe[x].fed
      BY <3>2, <2>2, <2>4 DEF NativeInv, FedOwned
    <3> QED
      BY <3>1, <3>2, <2>2, <2>4
  <2>7. \A x \in Pipelines : pipe'[x].stream = pipe[x].stream
    BY <2>2, <2>4
  <2>8. FreeUnused'
    <3> SUFFICES ASSUME NEW x \in Pipelines
                 PROVE  /\ pipe'[x].state = "free" <=> pipe'[x].stream = NULL
                        /\ pipe'[x].state = "free" =>
                             pipe'[x].fed = {} /\ pipe'[x].kind = "launch"
      BY DEF FreeUnused, Free
    <3>1. CASE x = p
      BY <3>1, <2>2, <2>4, <2>5
    <3>2. CASE x # p
      BY <3>2, <2>4 DEF NativeInv, FreeUnused, Free
    <3> QED
      BY <3>1, <3>2
  <2>9. NativeTypeOK'
    BY <1>2, <1>4, <2>4 DEF NativeInv, NativeTypeOK
  <2>10. TableOwned' /\ SourcesPaired'
    BY <1>2 DEF NativeInv, TableOwned, SourcesPaired
  <2>11. SourcesOwned' /\ PointersBuilt'
    <3>1. \A x \in Contexts, i \in Kinds :
            /\ ctx[x].appsrc[i] \in Pipelines \cup {NULL}
            /\ ctx[x].pipeline \in Pipelines \cup {NULL}
      BY DEF NativeInv, NativeTypeOK, StreamMapT
    <3> QED
      BY <1>2, <2>7, <3>1 DEF NativeInv, SourcesOwned, PointersBuilt
  <2> QED
    BY <2>6, <2>8, <2>9, <2>10, <2>11 DEF NativeInv
<1> QED
  BY <1>3, <1>4 DEF OnPacket

-----------------------------------------------------------------------------
(* The sessions: the Java variables, and the native call of each step. *)

LEMMA MoveType ==
  ASSUME JavaTypeOK, NEW a \in Apps, NEW s \in Streams, NEW from, NEW to \in Phases,
         Move(a, s, from, to)
  PROVE  phase' \in [Sessions -> Phases]
BY DEF JavaTypeOK, Move

LEMMA SessionInv ==
  ASSUME NativeInv, JavaTypeOK, NEW a \in Apps, NEW s \in Streams, Session(a, s)
  PROVE  NativeInv' /\ JavaTypeOK'
<1> USE DEF Phases
<1>c. codec[<<a, s>>] \in [Kinds -> Codecs \cup {NULL}]
  BY DEF JavaTypeOK, Sessions
<1>1. CASE StreamStarted(a, s)
  <2>1. phase' \in [Sessions -> Phases]
    BY <1>1, MoveType DEF StreamStarted
  <2>2. codec' \in [Sessions -> [Kinds -> Codecs \cup {NULL}]]
    <3>1. PICK v \in VideoCodecs \cup {NULL}, d \in AudioCodecs \cup {NULL} :
            codec' = [codec EXCEPT ![<<a, s>>] = [video |-> v, audio |-> d]]
      BY <1>1 DEF StreamStarted
    <3>2. [video |-> v, audio |-> d] \in [Kinds -> Codecs \cup {NULL}]
      BY DEF Codecs
    <3> QED
      BY <3>1, <3>2 DEF JavaTypeOK
  <2> QED
    BY <1>1, <2>1, <2>2, NativeStutter DEF StreamStarted, native, JavaTypeOK
<1>2. CASE JavaRegister(a, s)
  BY <1>2, MoveType, RegisterStreamInv DEF JavaRegister, JavaTypeOK
<1>3. CASE JavaVideoInfo(a, s)
  <2>1. codec[<<a, s>>]["video"] \in Codecs \cup {NULL}
    BY <1>c
  <2>2. NativeInv'
    BY <1>3, <2>1, SetStreamInfoInv DEF JavaVideoInfo
  <2> QED
    BY <1>3, <2>2, MoveType DEF JavaVideoInfo, JavaTypeOK
<1>4. CASE JavaAudioInfo(a, s)
  <2>1. codec[<<a, s>>]["audio"] \in Codecs \cup {NULL}
    BY <1>c
  <2>2. NativeInv'
    BY <1>4, <2>1, SetStreamInfoInv DEF JavaAudioInfo
  <2> QED
    BY <1>4, <2>2, MoveType DEF JavaAudioInfo, JavaTypeOK
<1>5. CASE JavaDefault(a, s)
  BY <1>5, MoveType, CallDefaultInv DEF JavaDefault, JavaTypeOK
<1>6. CASE AddPacketListener(a, s)
  BY <1>6, MoveType, NativeStutter DEF AddPacketListener, JavaTypeOK, native
<1>7. CASE StreamFinished(a, s)
  BY <1>7, MoveType, UnregisterInv DEF StreamFinished, JavaTypeOK, NoCodecs
<1>8. CASE \E k \in Kinds : Packet(a, s, k)
  BY <1>8, OnPacketInv DEF Packet, JavaTypeOK, java
<1> QED
  BY <1>1, <1>2, <1>3, <1>4, <1>5, <1>6, <1>7, <1>8 DEF Session

LEMMA PluginInv ==
  ASSUME NativeInv, JavaTypeOK, Plugin
  PROVE  NativeInv' /\ JavaTypeOK'
<1>1. JavaTypeOK'
  BY DEF Plugin, GetConfig, NewTable, GstInit, InitRtsp, InitStep, ClientsLeave,
         ClientPlay, Rest, java, JavaTypeOK
<1>2. CASE GetConfig \/ NewTable \/ GstInit \/ InitRtsp
  BY <1>1, <1>2, InitStepInv
<1>3. CASE \E p \in Pipelines : ClientsLeave(p)
  BY <1>1, <1>3, ClientsLeaveInv
<1>4. CASE \E s \in Streams : ClientPlay(s)
  BY <1>1, <1>4, ClientPlayInv
<1>5. CASE \E s \in Streams, type \in OutTypes : Rest(s, type)
  BY <1>1, <1>5, RegisterPipelineInv DEF Rest
<1> QED
  BY <1>2, <1>3, <1>4, <1>5 DEF Plugin

LEMMA NextInv ==
  NativeInv /\ JavaTypeOK /\ [Next]_vars => NativeInv' /\ JavaTypeOK'
<1> SUFFICES ASSUME NativeInv, JavaTypeOK, [Next]_vars
             PROVE  NativeInv' /\ JavaTypeOK'
  OBVIOUS
<1>1. CASE Plugin
  BY <1>1, PluginInv
<1>2. CASE \E a \in Apps, s \in Streams : Session(a, s)
  BY <1>2, SessionInv
<1>3. CASE UNCHANGED vars
  BY <1>3, NativeStutter DEF vars, JavaTypeOK
<1> QED
  BY <1>1, <1>2, <1>3 DEF Next

(***************************************************************************)
(* The inductive invariant: ownership of contexts, sources and packets,    *)
(* with the types of every variable.                                       *)
(***************************************************************************)
THEOREM Ownership_Invariant == Spec => [](NativeInv /\ JavaTypeOK)
<1>1. Init => NativeInv /\ JavaTypeOK
  BY InitNative
<1>2. NativeInv /\ JavaTypeOK /\ [Next]_vars => (NativeInv /\ JavaTypeOK)'
  BY NextInv
<1> QED
  BY <1>1, <1>2, PTL DEF Spec

(* Every native call and every Java step keeps every variable's type. *)
THEOREM TypeCorrect == Spec => []TypeOK
<1>1. NativeInv /\ JavaTypeOK => TypeOK
  BY DEF NativeInv, TypeOK
<1> QED
  BY <1>1, Ownership_Invariant, PTL

(* onPacket never pushes a packet into a pipeline of another stream. *)
THEOREM StreamsIsolated == Spec => []Isolation
<1>1. NativeInv /\ JavaTypeOK => Isolation
  BY DEF NativeInv, FedOwned, Isolation
<1> QED
  BY <1>1, Ownership_Invariant, PTL

-----------------------------------------------------------------------------
(***************************************************************************)
(* The plugin implements OutputSwitch: under NativeInv, each native call   *)
(* maps to a step of the switch or to none.                                *)
(***************************************************************************)

(* All that one context feeds is one pipeline, so it is the active one. *)
LEMMA SourcesAreOne ==
  ASSUME NativeInv, NEW s \in Streams, NEW k \in Kinds, table[s] # NULL,
         ctx[table[s]].appsrc[k] # NULL
  PROVE  Active(s) = ctx[table[s]].appsrc[k]
<1> DEFINE p == ctx[table[s]].appsrc[k]
<1>1. table[s] \in Contexts
  BY DEF NativeInv, NativeTypeOK
<1>2. Sources(table[s]) = {p}
  BY <1>1 DEF NativeInv, SourcesPaired, Sources, Kinds
<1>3. \A q : TheOne({q}) = q
  BY DEF TheOne
<1> QED
  BY <1>2, <1>3 DEF Active

LEMMA NoSources ==
  ASSUME NEW s \in Streams,
         table[s] = NULL \/ \A k \in Kinds : ctx[table[s]].appsrc[k] = NULL
  PROVE  Active(s) = NULL
BY DEF Active, Sources, TheOne

(* A stream whose entry and sources stay keeps its active output. *)
LEMMA ActiveKept ==
  ASSUME NEW s \in Streams, table'[s] = table[s],
         table[s] # NULL => ctx'[table[s]].appsrc = ctx[table[s]].appsrc
  PROVE  Active(s)' = Active(s)
BY DEF Active, Sources

(* What the outputs have got stays if the feeders and their streams do. *)
LEMMA DeliveredKept ==
  ASSUME NEW p \in Pipelines, pipe'[p].fed = pipe[p].fed,
         \A c \in pipe[p].fed : ctx'[c].stream = ctx[c].stream
  PROVE  {ctx'[c].stream : c \in pipe'[p].fed} = {ctx[c].stream : c \in pipe[p].fed}
OBVIOUS

LEMMA SwitchStutter ==
  ASSUME NativeInv, table' = table,
         \A c \in Contexts : ctx'[c].stream = ctx[c].stream
                             /\ ctx'[c].appsrc = ctx[c].appsrc,
         \A p \in Pipelines : pipe'[p].stream = pipe[p].stream
                              /\ pipe'[p].fed = pipe[p].fed
  PROVE  UNCHANGED Switch!svars
<1>1. \A s \in Streams : table[s] # NULL => table[s] \in Contexts
  BY DEF NativeInv, NativeTypeOK
<1>2. \A s \in Streams : Active(s)' = Active(s)
  BY <1>1, ActiveKept
<1>3. \A p \in Pipelines : pipe[p].fed \subseteq Contexts
  BY DEF NativeInv, NativeTypeOK, PipelineT
<1>4. \A p \in Pipelines : {ctx'[c].stream : c \in pipe'[p].fed}
                           = {ctx[c].stream : c \in pipe[p].fed}
  BY <1>3, DeliveredKept
<1> QED
  BY <1>2, <1>4 DEF Switch!svars

-----------------------------------------------------------------------------
(***************************************************************************)
(* The common part of the steps that change the output of one stream: the  *)
(* entries, sources and streams of all the others stay.                    *)
(***************************************************************************)
LEMMA EntriesTyped ==
  ASSUME NativeInv
  PROVE  /\ \A s \in Streams : table[s] # NULL => table[s] \in Contexts
         /\ \A p \in Pipelines : pipe[p].fed \subseteq Contexts
         /\ \A s, t \in Streams : table[s] = table[t] /\ table[s] # NULL => s = t
BY DEF NativeInv, NativeTypeOK, PipelineT, TableOwned

LEMMA SwitchDelivered ==
  ASSUME NativeInv,
         \A p \in Pipelines : pipe'[p].fed = pipe[p].fed,
         \A c \in Contexts : ctx[c].stream # NULL => ctx'[c].stream = ctx[c].stream
  PROVE  [p \in Pipelines |-> {ctx'[c].stream : c \in pipe'[p].fed}]
         = [p \in Pipelines |-> {ctx[c].stream : c \in pipe[p].fed}]
<1>1. ASSUME NEW p \in Pipelines
      PROVE  {ctx'[c].stream : c \in pipe'[p].fed} = {ctx[c].stream : c \in pipe[p].fed}
  <2>1. \A c \in pipe[p].fed : c \in Contexts /\ ctx[c].stream # NULL
    BY EntriesTyped DEF NativeInv, FedOwned
  <2> QED
    BY <2>1, DeliveredKept
<1> QED
  BY <1>1

(* register_stream publishes, or does nothing before the table exists. *)
LEMMA RegisterStreamSwitch ==
  ASSUME NativeInv, NEW s \in Streams, RegisterStream(s)
  PROVE  [Switch!SwitchNext]_Switch!svars
<1> USE NullFacts
<1>1. PICK c \in Contexts :
        /\ ctx[c].stream = NULL
        /\ ctx' = [ctx EXCEPT ![c] = [FreeContext EXCEPT !.stream = s]]
        /\ (TableExists /\ table' = [table EXCEPT ![s] = c])
             \/ (~TableExists /\ UNCHANGED table)
        /\ pipe' = pipe
  BY DEF RegisterStream
<1>2. /\ ctx \in [Contexts -> StreamMapT] /\ table \in [Streams -> Contexts \cup {NULL}]
      /\ pipe \in [Pipelines -> PipelineT]
  BY DEF NativeInv, NativeTypeOK
<1>3. /\ ctx'[c] = [FreeContext EXCEPT !.stream = s]
      /\ \A d \in Contexts \ {c} : ctx'[d] = ctx[d]
  BY <1>1, <1>2
<1>4. \A k \in Kinds : ctx'[c].appsrc[k] = NULL
  BY <1>3 DEF FreeContext
<1>5. \A t \in Streams : table[t] # c
  BY <1>1 DEF NativeInv, TableOwned
<1>6. [p \in Pipelines |-> {ctx'[d].stream : d \in pipe'[p].fed}]
      = [p \in Pipelines |-> {ctx[d].stream : d \in pipe[p].fed}]
  BY <1>1, <1>3, SwitchDelivered
<1>7. \A t \in Streams : table'[t] = table[t] => Active(t)' = Active(t)
  BY <1>3, <1>5, EntriesTyped, ActiveKept
<1>8. CASE UNCHANGED table
  BY <1>1, <1>6, <1>7, <1>8 DEF Switch!svars
<1>9. CASE table' = [table EXCEPT ![s] = c]
  <2>1. table'[s] = c /\ \A t \in Streams \ {s} : table'[t] = table[t]
    BY <1>2, <1>9
  <2>2. Active(s)' = NULL
    BY <1>4, <2>1, NoSources DEF Active, Sources, TheOne
  <2>3. {t \in Streams : table[t] # NULL}' = {t \in Streams : table[t] # NULL} \cup {s}
    BY <2>1
  <2>4. [t \in Streams |-> Active(t)]'
          = [[t \in Streams |-> Active(t)] EXCEPT ![s] = NULL]
    BY <1>7, <2>1, <2>2
  <2>5. Switch!Publish(s)
    BY <1>1, <1>6, <2>3, <2>4 DEF Switch!Publish
  <2> QED
    BY <2>5 DEF Switch!SwitchNext
<1> QED
  BY <1>1, <1>8, <1>9

(* unregister_stream withdraws. *)
LEMMA UnregisterSwitch ==
  ASSUME NativeInv, NEW s \in Streams, Unregister(s)
  PROVE  [Switch!SwitchNext]_Switch!svars
<1> USE NullFacts
<1>1. /\ ctx \in [Contexts -> StreamMapT] /\ table \in [Streams -> Contexts \cup {NULL}]
      /\ pipe \in [Pipelines -> PipelineT]
  BY DEF NativeInv, NativeTypeOK
<1>2. table' = [table EXCEPT ![s] = NULL]
  BY DEF Unregister
<1>3. /\ \A c \in Contexts : ctx'[c].stream = ctx[c].stream
                             /\ ctx'[c].appsrc = ctx[c].appsrc
      /\ \A p \in Pipelines : pipe'[p].stream = pipe[p].stream
                              /\ pipe'[p].fed = pipe[p].fed
  <2>1. CASE UNCHANGED <<pipe, ctx>>
    BY <2>1
  <2>2. ASSUME NEW c \in Contexts, NEW q \in Pipelines,
               pipe' = [pipe EXCEPT ![q].state = "null"],
               ctx' = [ctx EXCEPT ![c].pipeline = NULL]
        PROVE  <1>3
    <3>1. \A d \in Contexts : ctx'[d].stream = ctx[d].stream
                              /\ ctx'[d].appsrc = ctx[d].appsrc
      BY <1>1, <2>2 DEF StreamMapT
    <3>2. \A p \in Pipelines : pipe'[p].stream = pipe[p].stream
                               /\ pipe'[p].fed = pipe[p].fed
      BY <1>1, <2>2 DEF PipelineT
    <3> QED
      BY <3>1, <3>2
  <2> QED
    BY <2>1, <2>2 DEF Unregister
<1>4. table'[s] = NULL /\ \A t \in Streams \ {s} : table'[t] = table[t]
  BY <1>1, <1>2
<1>5. Active(s)' = NULL
  BY <1>4 DEF Active, TheOne
<1>6. \A t \in Streams \ {s} : Active(t)' = Active(t)
  BY <1>3, <1>4, EntriesTyped, ActiveKept
<1>7. [t \in Streams |-> Active(t)]'
        = [[t \in Streams |-> Active(t)] EXCEPT ![s] = NULL]
  BY <1>5, <1>6
<1>8. {t \in Streams : table[t] # NULL}' = {t \in Streams : table[t] # NULL} \ {s}
  BY <1>4
<1>9. [p \in Pipelines |-> {ctx'[c].stream : c \in pipe'[p].fed}]
      = [p \in Pipelines |-> {ctx[c].stream : c \in pipe[p].fed}]
  BY <1>3, SwitchDelivered
<1>10. [p \in Pipelines |-> pipe[p].stream]' = [p \in Pipelines |-> pipe[p].stream]
  BY <1>3
<1>11. Switch!Withdraw(s)
  BY <1>7, <1>8, <1>9, <1>10 DEF Switch!Withdraw
<1> QED
  BY <1>11 DEF Switch!SwitchNext

-----------------------------------------------------------------------------
(* set_appsrc makes the new pipeline the active output, if there are caps. *)
LEMMA SetAppsrcActive ==
  ASSUME NativeInv, NEW s \in Streams, NEW c \in Contexts, table[s] = c,
         UNCHANGED table,
         NEW r \in StreamMapT, NEW p \in Pipelines,
         ctx' = [ctx EXCEPT ![c] = SetAppsrc(r, p)],
         r.appsrc = ctx[c].appsrc,
         \A k \in Kinds : ctx[c].caps[k] # NULL => r.caps[k] # NULL
  PROVE  Active(s)' \in {Active(s), p}
<1> USE NullFacts
<1>1. ctx'[c] = SetAppsrc(r, p)
  BY DEF NativeInv, NativeTypeOK
<1>2. \A k \in Kinds : ctx'[c].appsrc[k] = IF r.caps[k] # NULL THEN p
                                                              ELSE ctx[c].appsrc[k]
  BY <1>1, SetAppsrcSets
<1>3. \A k \in Kinds : r.caps[k] = NULL => ctx[c].appsrc[k] = NULL
  BY DEF NativeInv, SourcesOwned
<1>4. CASE \A k \in Kinds : r.caps[k] = NULL
  <2>1. \A k \in Kinds : ctx[c].appsrc[k] = NULL /\ ctx'[c].appsrc[k] = NULL
    BY <1>2, <1>3, <1>4
  <2> QED
    BY <2>1 DEF Active, Sources
<1>5. CASE \E k \in Kinds : r.caps[k] # NULL
  <2>1. Sources(c)' = {p}
    BY <1>2, <1>3, <1>5 DEF Sources
  <2>2. \A q : TheOne({q}) = q
    BY DEF TheOne
  <2>3. Active(s)' = TheOne(Sources(c)')
    BY DEF Active
  <2> QED
    BY <2>1, <2>2, <2>3
<1> QED
  BY <1>4, <1>5

(* A free pipeline is made for a stream. *)
LEMMA BuildSwitch ==
  ASSUME NativeInv, NEW s \in Streams, NEW p \in Pipelines, Free(p),
         UNCHANGED table,
         NEW q \in PipelineT, q.stream = s, q.fed = {},
         pipe' = [pipe EXCEPT ![p] = q],
         \A c \in Contexts : ctx'[c].stream = ctx[c].stream,
         \A c \in Contexts : table[s] # c => ctx'[c].appsrc = ctx[c].appsrc,
         \/ Active(s)' = Active(s)
         \/ table[s] # NULL /\ Active(s)' = p
  PROVE  [Switch!SwitchNext]_Switch!svars
<1>1. pipe \in [Pipelines -> PipelineT]
  BY DEF NativeInv, NativeTypeOK
<1>2. pipe[p].stream = NULL /\ pipe[p].fed = {}
  BY DEF NativeInv, FreeUnused
<1>3. /\ pipe'[p] = q
      /\ \A o \in Pipelines \ {p} : pipe'[o] = pipe[o]
  BY <1>1
<1>4. \A o \in Pipelines : pipe'[o].fed = pipe[o].fed
  BY <1>2, <1>3
<1>5. [o \in Pipelines |-> {ctx'[c].stream : c \in pipe'[o].fed}]
      = [o \in Pipelines |-> {ctx[c].stream : c \in pipe[o].fed}]
  BY <1>4, SwitchDelivered
<1>6. [o \in Pipelines |-> pipe[o].stream]'
        = [[o \in Pipelines |-> pipe[o].stream] EXCEPT ![p] = s]
  <2>1. pipe'[p].stream = s /\ \A o \in Pipelines \ {p} : pipe'[o].stream = pipe[o].stream
    BY <1>3
  <2> QED
    BY <2>1
<1>7. \A t \in Streams \ {s} : Active(t)' = Active(t)
  BY EntriesTyped, ActiveKept
<1>8. \/ [t \in Streams |-> Active(t)]' = [t \in Streams |-> Active(t)]
      \/ /\ s \in {t \in Streams : table[t] # NULL}
         /\ [t \in Streams |-> Active(t)]'
              = [[t \in Streams |-> Active(t)] EXCEPT ![s] = p]
  BY <1>7
<1>9. {t \in Streams : table[t] # NULL}' = {t \in Streams : table[t] # NULL}
  OBVIOUS
<1>10. [o \in Pipelines |-> pipe[o].stream][p] = NULL
  BY <1>2
<1>11. Switch!Build(s, p)
  BY <1>5, <1>6, <1>8, <1>9, <1>10 DEF Switch!Build
<1> QED
  BY <1>11 DEF Switch!SwitchNext

(* A launch is an output of its stream, active if it was complete. *)
LEMMA LaunchSwitch ==
  ASSUME NativeInv, NEW s \in Streams, NEW c \in Contexts, table[s] = c,
         NEW p \in Pipelines, Free(p),
         \/ Launched(s, c, ParseCodec(ctx[c]), p)
         \/ LaunchedInPart(s, c, ParseCodec(ctx[c]), p),
         UNCHANGED table
  PROVE  [Switch!SwitchNext]_Switch!svars
<1> USE NullFacts
<1> DEFINE r == ParseCodec(ctx[c])
<1>1. ctx \in [Contexts -> StreamMapT] /\ ctx[c] \in StreamMapT
  BY DEF NativeInv, NativeTypeOK
<1>2. /\ r \in StreamMapT /\ r.stream = ctx[c].stream /\ r.appsrc = ctx[c].appsrc
      /\ \A k \in Kinds : ctx[c].caps[k] # NULL => r.caps[k] # NULL
      /\ r.caps \in [Kinds -> Codecs \cup {NULL}]
  <2>1. /\ r \in StreamMapT /\ r.stream = ctx[c].stream /\ r.appsrc = ctx[c].appsrc
        /\ \A k \in Kinds : ctx[c].caps[k] # NULL => r.caps[k] # NULL
    BY <1>1, ParseCodecKeeps
  <2> QED
    BY <2>1 DEF StreamMapT
<1> HIDE DEF r
<1>3. PICK state \in {"playing", "null"} :
        pipe' = [pipe EXCEPT ![p] = NewPipeline("launch", state, s, c, r.caps)]
  BY DEF Launched, LaunchedInPart, r
<1>4. /\ NewPipeline("launch", state, s, c, r.caps) \in PipelineT
      /\ NewPipeline("launch", state, s, c, r.caps).stream = s
      /\ NewPipeline("launch", state, s, c, r.caps).fed = {}
  BY <1>2, NewPipelineType
<1>5. CASE ctx' = [ctx EXCEPT ![c] = SetAppsrc(r, p)]
  <2>1. SetAppsrc(r, p).stream = ctx[c].stream
    BY <1>2, SetAppsrcSets
  <2>2. \A d \in Contexts : ctx'[d].stream = ctx[d].stream
    BY <1>1, <1>5, <2>1
  <2>3. \A d \in Contexts : table[s] # d => ctx'[d].appsrc = ctx[d].appsrc
    BY <1>1, <1>5
  <2>4. Active(s)' \in {Active(s), p}
    BY <1>2, <1>5, SetAppsrcActive
  <2> QED
    BY <1>3, <1>4, <2>2, <2>3, <2>4, BuildSwitch
<1>6. CASE ctx' = [ctx EXCEPT ![c] = [r EXCEPT !.pipeline = p]]
  <2>1. /\ [r EXCEPT !.pipeline = p].stream = ctx[c].stream
        /\ [r EXCEPT !.pipeline = p].appsrc = ctx[c].appsrc
    BY <1>2 DEF StreamMapT
  <2>2. \A d \in Contexts : ctx'[d].stream = ctx[d].stream
                            /\ ctx'[d].appsrc = ctx[d].appsrc
    BY <1>1, <1>6, <2>1
  <2>3. Active(s)' = Active(s)
    BY <2>2, ActiveKept
  <2> QED
    BY <1>3, <1>4, <2>2, <2>3, BuildSwitch
<1> QED
  BY <1>5, <1>6 DEF Launched, LaunchedInPart, r

(* register_pipeline makes one output, or none that the switch knows of. *)
LEMMA RegisterPipelineSwitch ==
  ASSUME NativeInv, NEW s \in Streams, NEW type, RegisterPipeline(s, type)
  PROVE  [Switch!SwitchNext]_Switch!svars
<1> USE NullFacts
<1> DEFINE c == table[s]
<1>1. UNCHANGED table
  BY DEF RegisterPipeline
<1>2. CASE UNCHANGED <<ctx, pipe>>
  BY <1>1, <1>2, SwitchStutter
<1>3. CASE c # NULL /\ (AddGstreamerPipeline(s, c) \/ AddRtspPipeline(s, c))
  <2> DEFINE r == ParseCodec(ctx[c])
  <2>1. /\ c \in Contexts /\ ctx \in [Contexts -> StreamMapT] /\ ctx[c] \in StreamMapT
    BY <1>3 DEF NativeInv, NativeTypeOK
  <2>2. r \in StreamMapT /\ r.stream = ctx[c].stream /\ r.appsrc = ctx[c].appsrc
    BY <2>1, ParseCodecKeeps
  <2>3. ASSUME NEW p \in Pipelines, Free(p),
               Launched(s, c, r, p) \/ LaunchedInPart(s, c, r, p)
        PROVE  [Switch!SwitchNext]_Switch!svars
    BY <1>1, <2>1, <2>3, LaunchSwitch
  <2>4. CASE LaunchFailed(c, r)
    <3>1. /\ [r EXCEPT !.pipeline = NULL].stream = ctx[c].stream
          /\ [r EXCEPT !.pipeline = NULL].appsrc = ctx[c].appsrc
      BY <2>2 DEF StreamMapT
    <3>2. ctx' = [ctx EXCEPT ![c] = [r EXCEPT !.pipeline = NULL]] /\ UNCHANGED pipe
      BY <2>4 DEF LaunchFailed
    <3>3. \A d \in Contexts : ctx'[d].stream = ctx[d].stream
                              /\ ctx'[d].appsrc = ctx[d].appsrc
      BY <2>1, <3>1, <3>2
    <3> QED
      BY <1>1, <3>2, <3>3, SwitchStutter
  <2>5. CASE AddRtspPipeline(s, c)
    <3>1. /\ [r EXCEPT !.rtsp_mountpoint = TRUE].stream = ctx[c].stream
          /\ [r EXCEPT !.rtsp_mountpoint = TRUE].appsrc = ctx[c].appsrc
      BY <2>2 DEF StreamMapT
    <3>2. ctx' = [ctx EXCEPT ![c] = [r EXCEPT !.rtsp_mountpoint = TRUE]] /\ UNCHANGED pipe
      BY <2>5 DEF AddRtspPipeline
    <3>3. \A d \in Contexts : ctx'[d].stream = ctx[d].stream
                              /\ ctx'[d].appsrc = ctx[d].appsrc
      BY <2>1, <3>1, <3>2
    <3> QED
      BY <1>1, <3>2, <3>3, SwitchStutter
  <2> QED
    BY <1>3, <2>3, <2>4, <2>5 DEF AddGstreamerPipeline
<1> QED
  BY <1>2, <1>3 DEF RegisterPipeline

(* setStreamInfo changes nothing that the switch knows of. *)
LEMMA SetStreamInfoSwitch ==
  ASSUME NativeInv, NEW s \in Streams, NEW k \in Kinds,
         NEW d \in Codecs \cup {NULL}, NEW e, SetStreamInfo(s, k, d, e)
  PROVE  [Switch!SwitchNext]_Switch!svars
<1> USE NullFacts
<1>1. table' = table /\ pipe' = pipe
  BY DEF SetStreamInfo
<1>2. ctx \in [Contexts -> StreamMapT]
  BY DEF NativeInv, NativeTypeOK
<1>3. \A c \in Contexts : ctx'[c].stream = ctx[c].stream /\ ctx'[c].appsrc = ctx[c].appsrc
  <2>1. CASE UNCHANGED ctx
    BY <2>1
  <2>2. CASE /\ d # NULL /\ table[s] # NULL
             /\ ctx' = [ctx EXCEPT ![table[s]] = SetupCodec(@, k, d)]
    <3>1. table[s] \in Contexts /\ d \in Codecs /\ ctx[table[s]] \in StreamMapT
      BY <2>2, <1>2 DEF NativeInv, NativeTypeOK
    <3>2. /\ SetupCodec(ctx[table[s]], k, d).stream = ctx[table[s]].stream
          /\ SetupCodec(ctx[table[s]], k, d).appsrc = ctx[table[s]].appsrc
      BY <3>1, SetupCodecKeeps
    <3>3. \A c \in Contexts : ctx'[c] = IF c = table[s] THEN SetupCodec(ctx[c], k, d)
                                                        ELSE ctx[c]
      BY <1>2, <2>2
    <3> QED
      BY <3>2, <3>3
  <2> QED
    BY <2>1, <2>2 DEF SetStreamInfo
<1> QED
  BY <1>1, <1>3, SwitchStutter

(* A play request makes an output of the mount point's stream. *)
LEMMA ClientPlaySwitch ==
  ASSUME NativeInv, NEW s \in Streams, ClientPlay(s)
  PROVE  [Switch!SwitchNext]_Switch!svars
<1> USE NullFacts
<1>1. PICK p \in Pipelines :
        /\ Free(p)
        /\ pipe' = [pipe EXCEPT ![p] = NewPipeline("media", "playing", s,
                                           mounts[s].gen, mounts[s].caps)]
        /\ MediaConfigure(s, p)
  BY DEF ClientPlay
<1> DEFINE q == NewPipeline("media", "playing", s, mounts[s].gen, mounts[s].caps)
<1>2. q \in PipelineT /\ q.stream = s /\ q.fed = {}
  <2>1. /\ mounts[s].gen \in Contexts \cup {NULL}
        /\ mounts[s].caps \in [Kinds -> Codecs \cup {NULL}]
    BY DEF NativeInv, NativeTypeOK, FactoryT
  <2> QED
    BY <2>1, NewPipelineType
<1> HIDE DEF q
<1>3. pipe' = [pipe EXCEPT ![p] = q]
  BY <1>1 DEF q
<1>4. UNCHANGED table
  BY DEF ClientPlay
<1>5. ctx \in [Contexts -> StreamMapT]
  BY DEF NativeInv, NativeTypeOK
<1>6. CASE UNCHANGED ctx
  <2>1. Active(s)' = Active(s)
    BY <1>4, <1>6, ActiveKept
  <2> QED
    BY <1>1, <1>2, <1>3, <1>4, <1>6, <2>1, BuildSwitch
<1>7. ASSUME NEW c \in Contexts, table[s] = c, ctx' = [ctx EXCEPT ![c] = SetAppsrc(@, p)]
      PROVE  [Switch!SwitchNext]_Switch!svars
  <2>1. ctx[c] \in StreamMapT /\ ctx' = [ctx EXCEPT ![c] = SetAppsrc(ctx[c], p)]
    BY <1>5, <1>7
  <2>2. SetAppsrc(ctx[c], p).stream = ctx[c].stream
    BY <2>1, SetAppsrcSets
  <2>3. \A d \in Contexts : ctx'[d].stream = ctx[d].stream
    BY <1>5, <2>1, <2>2
  <2>4. \A d \in Contexts : table[s] # d => ctx'[d].appsrc = ctx[d].appsrc
    BY <1>5, <1>7, <2>1
  <2>5. Active(s)' \in {Active(s), p}
    BY <1>4, <1>7, <2>1, SetAppsrcActive
  <2>6. Active(s)' = Active(s) \/ (table[s] # NULL /\ Active(s)' = p)
    BY <1>7, <2>5
  <2>7. Free(p)
    BY <1>1
  <2> QED
    BY <1>2, <1>3, <1>4, <2>3, <2>4, <2>6, <2>7, BuildSwitch
<1> QED
  BY <1>1, <1>6, <1>7 DEF MediaConfigure

(* onPacket delivers to the active output, or to a pipeline that is stopped. *)
LEMMA OnPacketSwitch ==
  ASSUME NativeInv, NEW s \in Streams, NEW k \in Kinds, OnPacket(s, k)
  PROVE  [Switch!SwitchNext]_Switch!svars
<1> USE NullFacts
<1> DEFINE c == table[s]
<1>1. /\ c \in Contexts /\ UNCHANGED <<table, ctx>>
      /\ pipe \in [Pipelines -> PipelineT]
  BY DEF OnPacket, NativeInv, NativeTypeOK
<1>2. CASE UNCHANGED pipe
  BY <1>1, <1>2, SwitchStutter
<1>3. ASSUME NEW p \in Pipelines, ctx[c].appsrc[k] = p,
             pipe' = [pipe EXCEPT ![p].fed = @ \cup {c}]
      PROVE  [Switch!SwitchNext]_Switch!svars
  <2>1. Active(s) = p
    BY <1>1, <1>3, SourcesAreOne
  <2>2. ctx[c].stream = s
    BY <1>1 DEF NativeInv, TableOwned
  <2>3. /\ pipe'[p].stream = pipe[p].stream /\ pipe'[p].fed = pipe[p].fed \cup {c}
        /\ \A o \in Pipelines \ {p} : pipe'[o] = pipe[o]
    BY <1>1, <1>3 DEF PipelineT
  <2>4. [o \in Pipelines |-> pipe[o].stream]' = [o \in Pipelines |-> pipe[o].stream]
    BY <2>3
  <2>5. \A t \in Streams : Active(t)' = Active(t)
    BY <1>1, ActiveKept
  <2>6. [o \in Pipelines |-> {ctx[d].stream : d \in pipe[o].fed}]'
          = [[o \in Pipelines |-> {ctx[d].stream : d \in pipe[o].fed}]
               EXCEPT ![p] = @ \cup {s}]
    <3>1. {ctx'[d].stream : d \in pipe'[p].fed}
            = {ctx[d].stream : d \in pipe[p].fed} \cup {s}
      BY <1>1, <2>2, <2>3
    <3>2. \A o \in Pipelines \ {p} : {ctx'[d].stream : d \in pipe'[o].fed}
                                     = {ctx[d].stream : d \in pipe[o].fed}
      BY <1>1, <2>3
    <3> QED
      BY <3>1, <3>2
  <2>7. Switch!Deliver(s)
    <3>1. /\ s \in {t \in Streams : table[t] # NULL}
          /\ [t \in Streams |-> Active(t)][s] = p
      BY <1>1, <2>1
    <3>2. /\ {t \in Streams : table[t] # NULL}' = {t \in Streams : table[t] # NULL}
          /\ [t \in Streams |-> Active(t)]' = [t \in Streams |-> Active(t)]
      BY <1>1, <2>5
    <3> QED
      BY <2>4, <2>6, <3>1, <3>2 DEF Switch!Deliver
  <2> QED
    BY <2>7 DEF Switch!SwitchNext
<1> QED
  BY <1>2, <1>3 DEF OnPacket

(* When the clients leave, outputs stop; the switch does not mind. *)
LEMMA ClientsLeaveSwitch ==
  ASSUME NativeInv, NEW p \in Pipelines, ClientsLeave(p)
  PROVE  [Switch!SwitchNext]_Switch!svars
<1>1. /\ UNCHANGED <<table, ctx>> /\ pipe' = [pipe EXCEPT ![p].state = "null"]
      /\ pipe \in [Pipelines -> PipelineT]
  BY DEF ClientsLeave, NativeInv, NativeTypeOK
<1>2. \A o \in Pipelines : pipe'[o].stream = pipe[o].stream /\ pipe'[o].fed = pipe[o].fed
  BY <1>1 DEF PipelineT
<1> QED
  BY <1>1, <1>2, SwitchStutter

-----------------------------------------------------------------------------
LEMMA InitSwitch ==
  ASSUME Init
  PROVE  Switch!SwitchInit
<1>1. \A s \in Streams : table[s] = NULL
  BY DEF Init
<1>2. \A s \in Streams : Active(s) = NULL
  BY <1>1, NoSources
<1>3. \A p \in Pipelines : pipe[p].stream = NULL /\ pipe[p].fed = {}
  BY DEF Init, FreePipeline
<1> QED
  BY <1>1, <1>2, <1>3 DEF Switch!SwitchInit

LEMMA SessionSwitch ==
  ASSUME NativeInv, JavaTypeOK, NEW a \in Apps, NEW s \in Streams, Session(a, s)
  PROVE  [Switch!SwitchNext]_Switch!svars
<1>1. codec[<<a, s>>]["video"] \in Codecs \cup {NULL}
      /\ codec[<<a, s>>]["audio"] \in Codecs \cup {NULL}
  <2>1. <<a, s>> \in Sessions
    BY DEF Sessions
  <2>2. codec[<<a, s>>] \in [Kinds -> Codecs \cup {NULL}]
    BY <2>1 DEF JavaTypeOK
  <2>3. "video" \in Kinds /\ "audio" \in Kinds
    BY DEF Kinds
  <2> QED
    BY <2>2, <2>3
<1>2. CASE UNCHANGED native
  BY <1>2, SwitchStutter DEF native
<1>3. CASE JavaRegister(a, s)
  BY <1>3, RegisterStreamSwitch DEF JavaRegister
<1>4. CASE JavaVideoInfo(a, s)
  BY <1>1, <1>4, SetStreamInfoSwitch DEF JavaVideoInfo, Kinds
<1>5. CASE JavaAudioInfo(a, s)
  BY <1>1, <1>5, SetStreamInfoSwitch DEF JavaAudioInfo, Kinds
<1>6. CASE JavaDefault(a, s)
  BY <1>2, <1>6, RegisterPipelineSwitch DEF JavaDefault, CallDefaultPipeline
<1>7. CASE StreamFinished(a, s)
  BY <1>7, UnregisterSwitch DEF StreamFinished
<1>8. CASE \E k \in Kinds : Packet(a, s, k)
  BY <1>8, OnPacketSwitch DEF Packet
<1> QED
  BY <1>2, <1>3, <1>4, <1>5, <1>6, <1>7, <1>8 DEF Session, StreamStarted, AddPacketListener

LEMMA NextSwitch ==
  NativeInv /\ JavaTypeOK /\ [Next]_vars => [Switch!SwitchNext]_Switch!svars
<1> SUFFICES ASSUME NativeInv, JavaTypeOK, [Next]_vars
             PROVE  [Switch!SwitchNext]_Switch!svars
  OBVIOUS
<1>1. CASE GetConfig \/ NewTable \/ GstInit \/ InitRtsp
  BY <1>1, SwitchStutter DEF GetConfig, NewTable, GstInit, InitRtsp, InitStep
<1>2. CASE \E p \in Pipelines : ClientsLeave(p)
  BY <1>2, ClientsLeaveSwitch
<1>3. CASE \E s \in Streams : ClientPlay(s)
  BY <1>3, ClientPlaySwitch
<1>4. CASE \E s \in Streams, type \in OutTypes : Rest(s, type)
  BY <1>4, RegisterPipelineSwitch DEF Rest
<1>5. CASE \E a \in Apps, s \in Streams : Session(a, s)
  BY <1>5, SessionSwitch
<1>6. CASE UNCHANGED vars
  BY <1>6, SwitchStutter DEF vars
<1> QED
  BY <1>1, <1>2, <1>3, <1>4, <1>5, <1>6 DEF Next, Plugin

(***************************************************************************)
(* The plugin is a switch: every native call and every callback publishes, *)
(* withdraws, builds one output, delivers one packet to the active output, *)
(* or leaves the switch alone.                                             *)
(***************************************************************************)
THEOREM PluginRefines == Spec => OutputRefinement
<1>1. Init => Switch!SwitchInit
  BY InitSwitch
<1>2. NativeInv /\ JavaTypeOK /\ [Next]_vars => [Switch!SwitchNext]_Switch!svars
  BY NextSwitch
<1> QED
  BY <1>1, <1>2, Ownership_Invariant, PTL DEF Spec, OutputRefinement, Switch!SwitchSpec

-----------------------------------------------------------------------------
(***************************************************************************)
(* What each native call does to the fields that LeftBehindInv, CapsInv    *)
(* and CrashInv speak of.                                                  *)
(***************************************************************************)
LEMMA ParseCodecFields ==
  ASSUME NEW r \in StreamMapT
  PROVE  /\ ParseCodec(r).par = r.par
         /\ ParseCodec(r).rtsp_mountpoint = r.rtsp_mountpoint
         /\ ParseCodec(r).pipeline_initialized = r.pipeline_initialized
         /\ \A k \in Kinds : ParseCodec(r).caps[k] =
                               IF r.par[k] = NULL THEN r.caps[k] ELSE r.par[k]
<1> DEFINE caps == [k \in Kinds |-> IF r.par[k] = NULL THEN r.caps[k] ELSE r.par[k]]
<1>1. ParseCodec(r) = [r EXCEPT !.caps = caps]
  BY DEF ParseCodec, StreamMapT
<1>2. \A k \in Kinds : caps[k] = IF r.par[k] = NULL THEN r.caps[k] ELSE r.par[k]
  OBVIOUS
<1> HIDE DEF caps
<1> QED
  BY <1>1, <1>2 DEF StreamMapT

LEMMA SetAppsrcFields ==
  ASSUME NEW r \in StreamMapT, NEW p \in Pipelines
  PROVE  /\ SetAppsrc(r, p).par = r.par
         /\ SetAppsrc(r, p).rtsp_mountpoint = r.rtsp_mountpoint
<1> DEFINE src == [k \in Kinds |-> IF r.caps[k] # NULL THEN p ELSE r.appsrc[k]]
<1>1. SetAppsrc(r, p) = [r EXCEPT !.pipeline = p, !.appsrc = src,
                                  !.pipeline_initialized = TRUE]
  BY DEF SetAppsrc, StreamMapT
<1> HIDE DEF src
<1> QED
  BY <1>1 DEF StreamMapT

LEMMA SetupCodecFields ==
  ASSUME NEW r \in StreamMapT, NEW k \in Kinds, NEW d \in Codecs
  PROVE  /\ SetupCodec(r, k, d).par[k] = d
         /\ \A j \in Kinds \ {k} : SetupCodec(r, k, d).par[j] = r.par[j]
         /\ SetupCodec(r, k, d).rtsp_mountpoint = r.rtsp_mountpoint
         /\ SetupCodec(r, k, d).pipeline_initialized = r.pipeline_initialized
<1> DEFINE par == [r.par EXCEPT ![k] = d]
           prs == IF HasParser(d) THEN r.parser \cup {k} ELSE r.parser
           bsf == r.bsfContext \/ (k = "video" /\ HasFilter(d))
<1>1. SetupCodec(r, k, d) =
        [r EXCEPT !.par = par, !.parser = prs, !.bsfContext = bsf]
  BY DEF SetupCodec, StreamMapT
<1>2. par[k] = d /\ \A j \in Kinds \ {k} : par[j] = r.par[j]
  BY DEF StreamMapT
<1> HIDE DEF par, prs, bsf
<1> QED
  BY <1>1, <1>2 DEF StreamMapT

(* parse_codec on one context: its caps follow its tracks. *)
Parsed(c) ==
  /\ \A x \in Contexts \ {c} : ctx'[x] = ctx[x]
  /\ ctx'[c].stream = ctx[c].stream
  /\ ctx'[c].par = ctx[c].par
  /\ \A k \in Kinds : ctx'[c].caps[k] =
                        IF ctx[c].par[k] = NULL THEN ctx[c].caps[k] ELSE ctx[c].par[k]

(* add_gstreamer_pipeline with a whole or a partial pipeline, or with none. *)
LaunchEffect(c, p) ==
  /\ Parsed(c)
  /\ ctx'[c].rtsp_mountpoint = ctx[c].rtsp_mountpoint
  /\ ctx'[c].pipeline = p
  /\ \A k \in Kinds : \/ ctx'[c].appsrc[k] = ctx[c].appsrc[k]
                      \/ ctx'[c].caps[k] # NULL /\ ctx'[c].appsrc[k] = p
  /\ Free(p)
  /\ pipe'[p].gen = c /\ pipe'[p].caps = ctx'[c].caps
  /\ \A x \in Pipelines \ {p} : pipe'[x] = pipe[x]
  /\ lost' = lost \cup Dropped(ctx[c].pipeline)
  /\ UNCHANGED <<mounts, status>>

FailEffect(c) ==
  /\ Parsed(c)
  /\ ctx'[c].rtsp_mountpoint = ctx[c].rtsp_mountpoint
  /\ ctx'[c].pipeline = NULL
  /\ ctx'[c].appsrc = ctx[c].appsrc
  /\ lost' = lost \cup {c} \cup Dropped(ctx[c].pipeline)
  /\ UNCHANGED <<mounts, pipe, status>>

(* add_rtsp_pipeline *)
RtspEffect(s, c) ==
  /\ Parsed(c)
  /\ ctx'[c].rtsp_mountpoint = TRUE
  /\ ctx'[c].pipeline = ctx[c].pipeline
  /\ ctx'[c].pipeline_initialized = ctx[c].pipeline_initialized
  /\ ctx'[c].appsrc = ctx[c].appsrc
  /\ \A x \in Streams \ {s} : mounts'[x] = mounts[x]
  /\ \/ mounts'[s] = mounts[s]
     \/ mounts'[s].gen = c /\ mounts'[s].caps = ctx'[c].caps
  /\ UNCHANGED <<pipe, lost, status>>

LEMMA LaunchHasEffect ==
  ASSUME NativeInv, NEW s \in Streams, NEW c \in Contexts, NEW p \in Pipelines, Free(p),
         \/ Launched(s, c, ParseCodec(ctx[c]), p)
         \/ LaunchedInPart(s, c, ParseCodec(ctx[c]), p),
         UNCHANGED <<mounts, status>>
  PROVE  LaunchEffect(c, p)
<1> DEFINE r == ParseCodec(ctx[c])
           st == IF Launched(s, c, r, p) THEN "playing" ELSE "null"
           q == NewPipeline("launch", st, s, c, r.caps)
<1>1. ctx[c] \in StreamMapT
  BY DEF NativeInv, NativeTypeOK
<1>2. /\ r \in StreamMapT /\ r.stream = ctx[c].stream /\ r.appsrc = ctx[c].appsrc
      /\ r.pipeline = ctx[c].pipeline /\ r.par = ctx[c].par
      /\ r.rtsp_mountpoint = ctx[c].rtsp_mountpoint
      /\ \A k \in Kinds : r.caps[k] =
                            IF ctx[c].par[k] = NULL THEN ctx[c].caps[k] ELSE ctx[c].par[k]
  BY <1>1, ParseCodecKeeps, ParseCodecFields
<1>3. pipe' = [pipe EXCEPT ![p] = q] /\ lost' = lost \cup Dropped(r.pipeline)
  <2>1. CASE Launched(s, c, r, p)
    BY <2>1 DEF Launched
  <2>2. CASE ~Launched(s, c, r, p)
    BY <2>2 DEF LaunchedInPart
  <2> QED
    BY <2>1, <2>2
<1>4. \/ ctx' = [ctx EXCEPT ![c] = SetAppsrc(r, p)]
      \/ ctx' = [ctx EXCEPT ![c] = [r EXCEPT !.pipeline = p]]
  BY DEF Launched, LaunchedInPart
<1>5. q.gen = c /\ q.caps = r.caps
  BY DEF NewPipeline
<1> HIDE DEF r, q, st
<1>6. /\ pipe'[p] = q /\ \A x \in Pipelines \ {p} : pipe'[x] = pipe[x]
  BY <1>3 DEF NativeInv, NativeTypeOK
<1>7. ASSUME NEW w \in StreamMapT, ctx' = [ctx EXCEPT ![c] = w],
             w.stream = r.stream, w.par = r.par, w.caps = r.caps,
             w.rtsp_mountpoint = r.rtsp_mountpoint, w.pipeline = p,
             \A k \in Kinds : \/ w.appsrc[k] = r.appsrc[k]
                              \/ w.caps[k] # NULL /\ w.appsrc[k] = p
      PROVE  LaunchEffect(c, p)
  <2>1. ctx'[c] = w /\ \A x \in Contexts \ {c} : ctx'[x] = ctx[x]
    BY <1>7, ContextReplaced
  <2>2. Parsed(c)
    BY <2>1, <1>2, <1>7 DEF Parsed
  <2> QED
    BY <2>1, <2>2, <1>2, <1>3, <1>5, <1>6, <1>7 DEF LaunchEffect
<1>8. CASE ctx' = [ctx EXCEPT ![c] = SetAppsrc(r, p)]
  <2> DEFINE w == SetAppsrc(r, p)
  <2>1. /\ w \in StreamMapT /\ w.stream = r.stream /\ w.par = r.par /\ w.caps = r.caps
        /\ w.rtsp_mountpoint = r.rtsp_mountpoint /\ w.pipeline = p
        /\ \A k \in Kinds : w.appsrc[k] = IF r.caps[k] # NULL THEN p ELSE r.appsrc[k]
    BY <1>2, SetAppsrcSets, SetAppsrcFields
  <2>2. ctx' = [ctx EXCEPT ![c] = w]
    BY <1>8
  <2> HIDE DEF w
  <2> QED
    BY <2>1, <2>2, <1>7
<1>9. CASE ctx' = [ctx EXCEPT ![c] = [r EXCEPT !.pipeline = p]]
  <2> DEFINE w == [r EXCEPT !.pipeline = p]
  <2>1. /\ w \in StreamMapT /\ w.stream = r.stream /\ w.par = r.par /\ w.caps = r.caps
        /\ w.rtsp_mountpoint = r.rtsp_mountpoint /\ w.pipeline = p
        /\ w.appsrc = r.appsrc
    BY <1>2 DEF StreamMapT
  <2>2. ctx' = [ctx EXCEPT ![c] = w]
    BY <1>9
  <2> HIDE DEF w
  <2> QED
    BY <2>1, <2>2, <1>7
<1> QED
  BY <1>4, <1>8, <1>9

LEMMA FailHasEffect ==
  ASSUME NativeInv, NEW c \in Contexts, LaunchFailed(c, ParseCodec(ctx[c])),
         UNCHANGED <<mounts, status>>
  PROVE  FailEffect(c)
<1> DEFINE r == ParseCodec(ctx[c])
           w == [r EXCEPT !.pipeline = NULL]
<1>1. ctx[c] \in StreamMapT
  BY DEF NativeInv, NativeTypeOK
<1>2. /\ r \in StreamMapT /\ r.stream = ctx[c].stream /\ r.appsrc = ctx[c].appsrc
      /\ r.pipeline = ctx[c].pipeline /\ r.par = ctx[c].par
      /\ r.rtsp_mountpoint = ctx[c].rtsp_mountpoint
      /\ \A k \in Kinds : r.caps[k] =
                            IF ctx[c].par[k] = NULL THEN ctx[c].caps[k] ELSE ctx[c].par[k]
  BY <1>1, ParseCodecKeeps, ParseCodecFields
<1>3. ctx' = [ctx EXCEPT ![c] = w] /\ UNCHANGED pipe
      /\ lost' = lost \cup {c} \cup Dropped(r.pipeline)
  BY DEF LaunchFailed
<1> HIDE DEF r
<1>4. /\ w \in StreamMapT /\ w.stream = r.stream /\ w.appsrc = r.appsrc
      /\ w.par = r.par /\ w.rtsp_mountpoint = r.rtsp_mountpoint
      /\ w.caps = r.caps /\ w.pipeline = NULL
  BY <1>2 DEF StreamMapT
<1> HIDE DEF w
<1>5. ctx'[c] = w /\ \A x \in Contexts \ {c} : ctx'[x] = ctx[x]
  BY <1>3, <1>4, ContextReplaced
<1> QED
  BY <1>2, <1>3, <1>4, <1>5 DEF FailEffect, Parsed

LEMMA RtspHasEffect ==
  ASSUME NativeInv, NEW s \in Streams, NEW c \in Contexts, AddRtspPipeline(s, c)
  PROVE  RtspEffect(s, c)
<1> DEFINE r == ParseCodec(ctx[c])
           w == [r EXCEPT !.rtsp_mountpoint = TRUE]
           f == [gen |-> c, caps |-> r.caps, ok |-> Parsable(r), media |-> NULL]
<1>1. ctx[c] \in StreamMapT
  BY DEF NativeInv, NativeTypeOK
<1>2. /\ r \in StreamMapT /\ r.stream = ctx[c].stream /\ r.appsrc = ctx[c].appsrc
      /\ r.pipeline = ctx[c].pipeline /\ r.par = ctx[c].par
      /\ r.pipeline_initialized = ctx[c].pipeline_initialized
      /\ \A k \in Kinds : r.caps[k] =
                            IF ctx[c].par[k] = NULL THEN ctx[c].caps[k] ELSE ctx[c].par[k]
  BY <1>1, ParseCodecKeeps, ParseCodecFields
<1>3. /\ ctx' = [ctx EXCEPT ![c] = w]
      /\ mounts' = mounts \/ mounts' = [mounts EXCEPT ![s] = f]
      /\ UNCHANGED <<pipe, lost, status>>
  BY DEF AddRtspPipeline
<1>4. f.gen = c /\ f.caps = r.caps
  OBVIOUS
<1> HIDE DEF r, f
<1>5. /\ w \in StreamMapT /\ w.stream = r.stream /\ w.appsrc = r.appsrc
      /\ w.par = r.par /\ w.rtsp_mountpoint = TRUE
      /\ w.pipeline_initialized = r.pipeline_initialized
      /\ w.caps = r.caps /\ w.pipeline = r.pipeline
  BY <1>2 DEF StreamMapT
<1> HIDE DEF w
<1>6. ctx'[c] = w /\ \A x \in Contexts \ {c} : ctx'[x] = ctx[x]
  BY <1>3, <1>5, ContextReplaced
<1>7. /\ \A x \in Streams \ {s} : mounts'[x] = mounts[x]
      /\ mounts'[s] = mounts[s] \/ mounts'[s] = f
  BY <1>3 DEF NativeInv, NativeTypeOK
<1> QED
  BY <1>2, <1>3, <1>4, <1>5, <1>6, <1>7 DEF RtspEffect, Parsed

(***************************************************************************)
(* register_pipeline: nothing, with a crash if the filter is missing, or   *)
(* one of the three effects on a registered context that has caps then.    *)
(***************************************************************************)
LEMMA RegisterPipelineEffect ==
  ASSUME NativeInv, NEW s \in Streams, NEW type, RegisterPipeline(s, type)
  PROVE  /\ table' = table
         /\ \/ /\ UNCHANGED <<ctx, mounts, pipe, lost>>
               /\ \/ UNCHANGED status
                  \/ table[s] # NULL /\ ParseFaults(ctx[table[s]])
            \/ /\ table[s] \in Contexts
               /\ \E k \in Kinds : ctx'[table[s]].caps[k] # NULL
               /\ \/ \E p \in Pipelines : LaunchEffect(table[s], p)
                  \/ FailEffect(table[s])
                  \/ RtspEffect(s, table[s])
<1> DEFINE c == table[s]
<1>1. table' = table /\ c \in Contexts \cup {NULL}
  BY DEF RegisterPipeline, NativeInv, NativeTypeOK
<1>2. CASE UNCHANGED <<ctx, mounts, pipe, lost, status>>
  BY <1>1, <1>2
<1>3. CASE /\ c # NULL /\ ParseFaults(ctx[c])
           /\ UNCHANGED <<ctx, mounts, pipe, lost>>
  BY <1>1, <1>3
<1>4. CASE /\ c # NULL /\ ParseCodec(ctx[c]).caps # NoCodecs
           /\ AddRtspPipeline(s, c) \/ AddGstreamerPipeline(s, c)
  <2>1. c \in Contexts /\ ctx[c] \in StreamMapT
    BY <1>1, <1>4 DEF NativeInv, NativeTypeOK
  <2>2. \/ \E p \in Pipelines : LaunchEffect(c, p)
        \/ FailEffect(c)
        \/ RtspEffect(s, c)
    BY <2>1, <1>4, LaunchHasEffect, FailHasEffect, RtspHasEffect
    DEF AddGstreamerPipeline
  <2>3. PICK k \in Kinds : ParseCodec(ctx[c]).caps[k] # NULL
    <3>1. ParseCodec(ctx[c]).caps \in [Kinds -> Codecs \cup {NULL}]
      BY <2>1, ParseCodecKeeps DEF StreamMapT
    <3>2. NoCodecs = [k \in Kinds |-> NULL]
      BY DEF NoCodecs
    <3> QED
      BY <3>1, <3>2, <1>4
  <2>4. Parsed(c)
    BY <2>2 DEF LaunchEffect, FailEffect, RtspEffect
  <2>5. ctx'[c].caps[k] # NULL
    BY <2>1, <2>3, <2>4, ParseCodecFields DEF Parsed
  <2> QED
    BY <1>1, <2>1, <2>2, <2>5
<1> QED
  BY <1>2, <1>3, <1>4 DEF RegisterPipeline

(* register_stream *)
LEMMA RegisterStreamEffect ==
  ASSUME NativeInv, NEW s \in Streams, RegisterStream(s)
  PROVE  \E c \in Contexts :
           /\ ctx[c].stream = NULL
           /\ \A x \in Contexts \ {c} : ctx'[x] = ctx[x]
           /\ ctx'[c].stream = s /\ ctx'[c].pipeline = NULL
           /\ ~ctx'[c].pipeline_initialized
           /\ ctx'[c].par = NoCodecs /\ ctx'[c].caps = NoCodecs
           /\ \A k \in Kinds : ctx'[c].appsrc[k] = NULL
           /\ \/ /\ table' = [table EXCEPT ![s] = c]
                 /\ lost' = IF table[s] = NULL THEN lost
                            ELSE lost \cup {table[s]} \cup Dropped(ctx[table[s]].pipeline)
              \/ UNCHANGED <<table, lost>>
           /\ UNCHANGED <<mounts, pipe, status>>
<1> DEFINE r == [FreeContext EXCEPT !.stream = s]
<1>1. PICK c \in Contexts :
        /\ ctx[c].stream = NULL
        /\ ctx' = [ctx EXCEPT ![c] = r]
        /\ \/ /\ table' = [table EXCEPT ![s] = c]
              /\ lost' = IF table[s] = NULL THEN lost
                         ELSE lost \cup {table[s]} \cup Dropped(ctx[table[s]].pipeline)
           \/ UNCHANGED <<table, lost>>
        /\ UNCHANGED <<mounts, pipe, status>>
  BY DEF RegisterStream
<1>2. /\ r \in StreamMapT /\ r.stream = s /\ r.pipeline = NULL
      /\ ~r.pipeline_initialized /\ r.par = NoCodecs /\ r.caps = NoCodecs
      /\ \A k \in Kinds : r.appsrc[k] = NULL
  BY DEF StreamMapT, FreeContext, NoCodecs
<1> HIDE DEF r
<1>3. ctx'[c] = r /\ \A x \in Contexts \ {c} : ctx'[x] = ctx[x]
  BY <1>1, <1>2, ContextReplaced
<1> QED
  BY <1>1, <1>2, <1>3

(* setStreamInfo: nothing, or a codec for one kind of the stream's context. *)
InfoEffect(c, k, d) ==
  /\ \A x \in Contexts \ {c} : ctx'[x] = ctx[x]
  /\ ctx'[c].stream = ctx[c].stream /\ ctx'[c].pipeline = ctx[c].pipeline
  /\ ctx'[c].appsrc = ctx[c].appsrc /\ ctx'[c].caps = ctx[c].caps
  /\ ctx'[c].rtsp_mountpoint = ctx[c].rtsp_mountpoint
  /\ ctx'[c].pipeline_initialized = ctx[c].pipeline_initialized
  /\ ctx'[c].par[k] = d
  /\ \A j \in Kinds \ {k} : ctx'[c].par[j] = ctx[c].par[j]

LEMMA SetStreamInfoEffect ==
  ASSUME NativeInv, NEW s \in Streams, NEW k \in Kinds,
         NEW d \in Codecs \cup {NULL}, NEW e, SetStreamInfo(s, k, d, e)
  PROVE  /\ UNCHANGED <<table, mounts, pipe, lost, status>>
         /\ \/ UNCHANGED ctx
            \/ e = 1 /\ table[s] \in Contexts /\ InfoEffect(table[s], k, d)
<1> DEFINE c == table[s]
           r == SetupCodec(ctx[c], k, d)
<1>1. UNCHANGED <<table, mounts, pipe, lost, status>>
  BY DEF SetStreamInfo
<1>2. CASE e = 1 /\ d # NULL /\ c # NULL /\ ctx' = [ctx EXCEPT ![c] = r]
  <2>1. c \in Contexts /\ ctx[c] \in StreamMapT /\ d \in Codecs
    BY <1>2 DEF NativeInv, NativeTypeOK
  <2>2. /\ r \in StreamMapT /\ r.stream = ctx[c].stream /\ r.appsrc = ctx[c].appsrc
        /\ r.caps = ctx[c].caps /\ r.pipeline = ctx[c].pipeline
        /\ r.rtsp_mountpoint = ctx[c].rtsp_mountpoint
        /\ r.pipeline_initialized = ctx[c].pipeline_initialized
        /\ r.par[k] = d /\ \A j \in Kinds \ {k} : r.par[j] = ctx[c].par[j]
    BY <2>1, SetupCodecKeeps, SetupCodecFields
  <2>3. ctx' = [ctx EXCEPT ![c] = r]
    BY <1>2
  <2> HIDE DEF r
  <2>4. ctx'[c] = r /\ \A x \in Contexts \ {c} : ctx'[x] = ctx[x]
    BY <2>1, <2>2, <2>3, ContextReplaced
  <2>5. InfoEffect(c, k, d)
    BY <2>2, <2>4 DEF InfoEffect
  <2> QED
    BY <1>1, <1>2, <2>1, <2>5
<1>3. CASE UNCHANGED ctx
  BY <1>1, <1>3
<1> QED
  BY <1>2, <1>3 DEF SetStreamInfo

(* unregister_stream *)
LEMMA UnregisterEffect ==
  ASSUME NativeInv, NEW s \in Streams, Unregister(s)
  PROVE  /\ table' = [table EXCEPT ![s] = NULL] /\ UNCHANGED <<lost, status>>
         /\ \/ /\ UNCHANGED <<ctx, pipe, mounts>>
               /\ table[s] # NULL => ctx[table[s]].pipeline = NULL
            \/ \E c \in Contexts, p \in Pipelines :
                 /\ table[s] = c /\ ctx[c].pipeline = p
                 /\ \A x \in Contexts \ {c} : ctx'[x] = ctx[x]
                 /\ ctx'[c].stream = ctx[c].stream /\ ctx'[c].pipeline = NULL
                 /\ ctx'[c].appsrc = ctx[c].appsrc
                 /\ ctx'[c].par = ctx[c].par /\ ctx'[c].caps = ctx[c].caps
                 /\ ctx'[c].rtsp_mountpoint = ctx[c].rtsp_mountpoint
                 /\ ctx'[c].pipeline_initialized = ctx[c].pipeline_initialized
                 /\ \A x \in Pipelines \ {p} : pipe'[x] = pipe[x]
                 /\ pipe'[p].state = "null"
                 /\ pipe'[p].gen = pipe[p].gen /\ pipe'[p].caps = pipe[p].caps
                 /\ \A x \in Streams \ {s} : mounts'[x] = mounts[x]
                 /\ IF ctx[c].rtsp_mountpoint THEN mounts'[s].gen = NULL
                                              ELSE mounts'[s] = mounts[s]
<1>1. table' = [table EXCEPT ![s] = NULL] /\ UNCHANGED <<lost, status>>
  BY DEF Unregister
<1>2. CASE /\ UNCHANGED <<pipe, ctx, mounts>>
           /\ \A c \in Contexts : table[s] = c => ctx[c].pipeline = NULL
  <2>1. table[s] \in Contexts \cup {NULL}
    BY DEF NativeInv, NativeTypeOK
  <2> QED
    BY <1>1, <1>2, <2>1
<1>3. ASSUME NEW c \in Contexts, NEW p \in Pipelines,
             table[s] = c, ctx[c].pipeline = p,
             pipe' = [pipe EXCEPT ![p].state = "null"],
             ctx' = [ctx EXCEPT ![c].pipeline = NULL],
             mounts' = IF ctx[c].rtsp_mountpoint
                       THEN [mounts EXCEPT ![s] = NoFactory] ELSE mounts
      PROVE  /\ \A x \in Contexts \ {c} : ctx'[x] = ctx[x]
             /\ ctx'[c].stream = ctx[c].stream /\ ctx'[c].pipeline = NULL
             /\ ctx'[c].appsrc = ctx[c].appsrc
             /\ ctx'[c].par = ctx[c].par /\ ctx'[c].caps = ctx[c].caps
             /\ ctx'[c].rtsp_mountpoint = ctx[c].rtsp_mountpoint
             /\ ctx'[c].pipeline_initialized = ctx[c].pipeline_initialized
             /\ \A x \in Pipelines \ {p} : pipe'[x] = pipe[x]
             /\ pipe'[p].state = "null"
             /\ pipe'[p].gen = pipe[p].gen /\ pipe'[p].caps = pipe[p].caps
             /\ \A x \in Streams \ {s} : mounts'[x] = mounts[x]
             /\ IF ctx[c].rtsp_mountpoint THEN mounts'[s].gen = NULL
                                          ELSE mounts'[s] = mounts[s]
  <2> DEFINE r == [ctx[c] EXCEPT !.pipeline = NULL]
             q == [pipe[p] EXCEPT !.state = "null"]
  <2>1. /\ r \in StreamMapT /\ r.stream = ctx[c].stream /\ r.pipeline = NULL
        /\ r.appsrc = ctx[c].appsrc /\ r.par = ctx[c].par /\ r.caps = ctx[c].caps
        /\ r.rtsp_mountpoint = ctx[c].rtsp_mountpoint
        /\ r.pipeline_initialized = ctx[c].pipeline_initialized
    BY DEF NativeInv, NativeTypeOK, StreamMapT
  <2>2. q.state = "null" /\ q.gen = pipe[p].gen /\ q.caps = pipe[p].caps
    BY DEF NativeInv, NativeTypeOK, PipelineT
  <2>3. ctx' = [ctx EXCEPT ![c] = r] /\ pipe' = [pipe EXCEPT ![p] = q]
    BY <1>3
  <2> HIDE DEF r, q
  <2>4. ctx'[c] = r /\ \A x \in Contexts \ {c} : ctx'[x] = ctx[x]
    BY <2>1, <2>3, ContextReplaced
  <2>5. pipe'[p] = q /\ \A x \in Pipelines \ {p} : pipe'[x] = pipe[x]
    BY <2>3 DEF NativeInv, NativeTypeOK
  <2>6. /\ \A x \in Streams \ {s} : mounts'[x] = mounts[x]
        /\ IF ctx[c].rtsp_mountpoint THEN mounts'[s].gen = NULL
                                     ELSE mounts'[s] = mounts[s]
    BY <1>3 DEF NativeInv, NativeTypeOK, NoFactory
  <2> QED
    BY <2>1, <2>2, <2>4, <2>5, <2>6
<1> QED
  BY <1>1, <1>2, <1>3 DEF Unregister

(* A client makes the factory build its media for the registered context. *)
MediaEffect(c, p) ==
  /\ \A x \in Contexts \ {c} : ctx'[x] = ctx[x]
  /\ ctx'[c].stream = ctx[c].stream /\ ctx'[c].pipeline = p
  /\ ctx'[c].par = ctx[c].par /\ ctx'[c].caps = ctx[c].caps
  /\ ctx'[c].rtsp_mountpoint = ctx[c].rtsp_mountpoint
  /\ \A k \in Kinds : ctx'[c].appsrc[k] = IF ctx[c].caps[k] # NULL THEN p
                                                                 ELSE ctx[c].appsrc[k]
  /\ lost' = lost \cup Dropped(ctx[c].pipeline)
  /\ UNCHANGED status

LEMMA ClientPlayEffect ==
  ASSUME NativeInv, NEW s \in Streams, ClientPlay(s)
  PROVE  /\ table' = table /\ Mounted(s)
         /\ \E p \in Pipelines :
              /\ Free(p) /\ pipe'[p].kind = "media"
              /\ pipe'[p].gen = mounts[s].gen /\ pipe'[p].caps = mounts[s].caps
              /\ \A x \in Pipelines \ {p} : pipe'[x] = pipe[x]
              /\ \A x \in Streams : mounts'[x].gen = mounts[x].gen
                                    /\ mounts'[x].caps = mounts[x].caps
              /\ \/ UNCHANGED <<ctx, lost, status>>
                 \/ /\ UNCHANGED <<ctx, lost>>
                    /\ table[s] \in Contexts
                    /\ ~SetAppsrcAsserts(ctx[table[s]], mounts[s])
                 \/ /\ table[s] \in Contexts
                    /\ SetAppsrcAsserts(ctx[table[s]], mounts[s])
                    /\ MediaEffect(table[s], p)
<1>1. table' = table /\ Mounted(s)
  BY DEF ClientPlay
<1>2. PICK p \in Pipelines :
        /\ Free(p)
        /\ pipe' = [pipe EXCEPT ![p] = NewPipeline("media", "playing", s,
                                         mounts[s].gen, mounts[s].caps)]
        /\ mounts' = [mounts EXCEPT ![s].media = p]
        /\ MediaConfigure(s, p)
  BY DEF ClientPlay
<1>3. /\ pipe'[p].kind = "media"
      /\ pipe'[p].gen = mounts[s].gen /\ pipe'[p].caps = mounts[s].caps
      /\ \A x \in Pipelines \ {p} : pipe'[x] = pipe[x]
  BY <1>2 DEF NewPipeline, NativeInv, NativeTypeOK
<1>4. \A x \in Streams : mounts'[x].gen = mounts[x].gen /\ mounts'[x].caps = mounts[x].caps
  BY <1>2 DEF NativeInv, NativeTypeOK, FactoryT
<1>5. ASSUME NEW c \in Contexts, table[s] = c,
             ctx' = [ctx EXCEPT ![c] = SetAppsrc(@, p)],
             lost' = lost \cup Dropped(ctx[c].pipeline), UNCHANGED status
      PROVE  MediaEffect(c, p)
  <2> DEFINE w == SetAppsrc(ctx[c], p)
  <2>1. ctx[c] \in StreamMapT
    BY DEF NativeInv, NativeTypeOK
  <2>2. /\ w \in StreamMapT /\ w.stream = ctx[c].stream /\ w.par = ctx[c].par
        /\ w.caps = ctx[c].caps /\ w.rtsp_mountpoint = ctx[c].rtsp_mountpoint
        /\ w.pipeline = p
        /\ \A k \in Kinds : w.appsrc[k] = IF ctx[c].caps[k] # NULL THEN p
                                                                 ELSE ctx[c].appsrc[k]
    BY <2>1, SetAppsrcSets, SetAppsrcFields
  <2>3. ctx' = [ctx EXCEPT ![c] = w]
    BY <1>5
  <2> HIDE DEF w
  <2>4. ctx'[c] = w /\ \A x \in Contexts \ {c} : ctx'[x] = ctx[x]
    BY <2>2, <2>3, ContextReplaced
  <2> QED
    BY <1>5, <2>2, <2>4 DEF MediaEffect
<1>6. \/ UNCHANGED <<ctx, lost, status>>
      \/ /\ UNCHANGED <<ctx, lost>>
         /\ table[s] \in Contexts
         /\ ~SetAppsrcAsserts(ctx[table[s]], mounts[s])
      \/ /\ table[s] \in Contexts
         /\ SetAppsrcAsserts(ctx[table[s]], mounts[s])
         /\ MediaEffect(table[s], p)
  BY <1>2, <1>5 DEF MediaConfigure
<1> QED
  BY <1>1, <1>2, <1>3, <1>4, <1>6

(* The last client leaves: one pipeline stops. *)
LEMMA ClientsLeaveEffect ==
  ASSUME NativeInv, NEW p \in Pipelines, ClientsLeave(p)
  PROVE  /\ UNCHANGED <<table, ctx, lost, status>>
         /\ \A x \in Pipelines \ {p} : pipe'[x] = pipe[x]
         /\ pipe'[p].state = "null"
         /\ pipe'[p].gen = pipe[p].gen /\ pipe'[p].caps = pipe[p].caps
         /\ \A x \in Streams : mounts'[x].gen = mounts[x].gen
                               /\ mounts'[x].caps = mounts[x].caps
<1>1. UNCHANGED <<table, ctx, lost, status>>
  BY DEF ClientsLeave
<1>2. /\ \A x \in Pipelines \ {p} : pipe'[x] = pipe[x]
      /\ pipe'[p].state = "null"
      /\ pipe'[p].gen = pipe[p].gen /\ pipe'[p].caps = pipe[p].caps
  BY DEF ClientsLeave, NativeInv, NativeTypeOK, PipelineT
<1>3. ASSUME NEW x \in Streams
      PROVE  mounts'[x].gen = mounts[x].gen /\ mounts'[x].caps = mounts[x].caps
  <2>1. mounts[x] \in FactoryT
    BY DEF NativeInv, NativeTypeOK
  <2>2. mounts'[x] = mounts[x] \/ mounts'[x] = [mounts[x] EXCEPT !.media = NULL]
    BY DEF ClientsLeave
  <2> QED
    BY <2>1, <2>2 DEF FactoryT
<1> QED
  BY <1>1, <1>2, <1>3

(* A packet changes what one pipeline was fed, or nothing. *)
LEMMA OnPacketEffect ==
  ASSUME NativeInv, NEW s \in Streams, NEW k \in Kinds, OnPacket(s, k)
  PROVE  /\ UNCHANGED <<table, ctx, mounts, lost>>
         /\ \A x \in Pipelines :
              /\ pipe'[x].kind = pipe[x].kind /\ pipe'[x].state = pipe[x].state
              /\ pipe'[x].gen = pipe[x].gen /\ pipe'[x].caps = pipe[x].caps
         /\ \/ UNCHANGED status
            \/ /\ table[s] \in Contexts
               /\ Accepts(ctx[table[s]], k) /\ ctx[table[s]].appsrc[k] = NULL
<1>1. UNCHANGED <<table, ctx, mounts, lost>>
  BY DEF OnPacket
<1>2. \/ UNCHANGED pipe
      \/ \E p \in Pipelines : pipe' = [pipe EXCEPT ![p].fed = @ \cup {table[s]}]
  BY DEF OnPacket
<1>3. ASSUME NEW x \in Pipelines
      PROVE  /\ pipe'[x].kind = pipe[x].kind /\ pipe'[x].state = pipe[x].state
             /\ pipe'[x].gen = pipe[x].gen /\ pipe'[x].caps = pipe[x].caps
  <2>1. pipe \in [Pipelines -> PipelineT] /\ pipe[x] \in PipelineT
    BY DEF NativeInv, NativeTypeOK
  <2>2. pipe'[x] = pipe[x] \/ pipe'[x] = [pipe[x] EXCEPT !.fed = @ \cup {table[s]}]
    BY <1>2, <2>1
  <2> QED
    BY <2>1, <2>2 DEF PipelineT
<1>4. \/ UNCHANGED status
      \/ /\ table[s] \in Contexts
         /\ Accepts(ctx[table[s]], k) /\ ctx[table[s]].appsrc[k] = NULL
  BY DEF OnPacket, NativeInv, NativeTypeOK
<1> QED
  BY <1>1, <1>3, <1>4

-----------------------------------------------------------------------------
(***************************************************************************)
(* The proof of NoCrash for the flags of SamplePlugin.java: an enabled     *)
(* video track is announced as disabled, so that no context has video.     *)
(***************************************************************************)
LEMMA CrashStutter ==
  ASSUME CrashInv, UNCHANGED <<ctx, mounts, status>>
  PROVE  CrashInv'
BY DEF CrashInv, NoCrash, AudioOnly, Mounted

LEMMA RegisterStreamCrash ==
  ASSUME NativeInv, CrashInv, NEW s \in Streams, RegisterStream(s)
  PROVE  CrashInv'
<1>1. PICK c \in Contexts :
        /\ \A x \in Contexts \ {c} : ctx'[x] = ctx[x]
        /\ ctx'[c].par = NoCodecs /\ ctx'[c].caps = NoCodecs
        /\ UNCHANGED <<mounts, status>>
  BY RegisterStreamEffect
<1>2. NoCodecs["video"] = NULL
  BY DEF NoCodecs
<1> QED
  BY <1>1, <1>2 DEF CrashInv, NoCrash, AudioOnly, Mounted

LEMMA SetStreamInfoCrash ==
  ASSUME NativeInv, CrashInv, NEW s \in Streams, NEW k \in Kinds,
         NEW d \in Codecs \cup {NULL}, NEW e, SetStreamInfo(s, k, d, e),
         k = "video" => e # 1
  PROVE  CrashInv'
<1>1. UNCHANGED <<mounts, status>>
  BY SetStreamInfoEffect
<1>2. CASE UNCHANGED ctx
  BY <1>1, <1>2, CrashStutter
<1>3. CASE e = 1 /\ table[s] \in Contexts /\ InfoEffect(table[s], k, d)
  <2>1. k = "audio"
    BY <1>3
  <2>2. \A x \in Contexts : ctx'[x].par["video"] = NULL /\ ctx'[x].caps["video"] = NULL
    BY <1>3, <2>1 DEF InfoEffect, CrashInv, AudioOnly
  <2> QED
    BY <1>1, <2>2 DEF CrashInv, NoCrash, AudioOnly, Mounted
<1> QED
  BY <1>2, <1>3, SetStreamInfoEffect

(* register_pipeline finds no video parameters, so parse_codec is safe. *)
LEMMA RegisterPipelineCrash ==
  ASSUME NativeInv, CrashInv, NEW s \in Streams, NEW type, RegisterPipeline(s, type)
  PROVE  CrashInv'
<1> DEFINE c == table[s]
<1>1. c \in Contexts \cup {NULL}
  BY DEF NativeInv, NativeTypeOK
<1>2. CASE UNCHANGED <<ctx, mounts, status>>
  BY <1>2, CrashStutter
<1>3. ASSUME c \in Contexts PROVE ~ParseFaults(ctx[c])
  BY <1>3 DEF CrashInv, AudioOnly, ParseFaults
<1>4. ASSUME c \in Contexts, NEW k \in Kinds, ctx'[c].caps[k] # NULL, Parsed(c),
             UNCHANGED status,
             \A x \in Streams : \/ mounts'[x] = mounts[x]
                                \/ mounts'[x].caps = ctx'[c].caps
      PROVE  CrashInv'
  <2>1. \A x \in Contexts : ctx'[x].par["video"] = NULL /\ ctx'[x].caps["video"] = NULL
    BY <1>4 DEF Parsed, CrashInv, AudioOnly
  <2>2. ctx'[c].caps["audio"] # NULL
    BY <1>4, <2>1
  <2> QED
    BY <1>4, <2>1, <2>2 DEF CrashInv, NoCrash, AudioOnly, Mounted
<1>5. CASE /\ c \in Contexts
           /\ \E k \in Kinds : ctx'[c].caps[k] # NULL
           /\ \/ \E p \in Pipelines : LaunchEffect(c, p)
              \/ FailEffect(c)
              \/ RtspEffect(s, c)
  <2>1. Parsed(c) /\ UNCHANGED status
    BY <1>5 DEF LaunchEffect, FailEffect, RtspEffect
  <2>2. \A x \in Streams : mounts'[x] = mounts[x] \/ mounts'[x].caps = ctx'[c].caps
    BY <1>5 DEF LaunchEffect, FailEffect, RtspEffect
  <2> QED
    BY <1>4, <1>5, <2>1, <2>2
<1>6. \/ UNCHANGED <<ctx, mounts, status>>
      \/ /\ c \in Contexts
         /\ \E k \in Kinds : ctx'[c].caps[k] # NULL
         /\ \/ \E p \in Pipelines : LaunchEffect(c, p)
            \/ FailEffect(c)
            \/ RtspEffect(s, c)
  BY <1>1, <1>3, RegisterPipelineEffect
<1> QED
  BY <1>2, <1>5, <1>6

LEMMA UnregisterCrash ==
  ASSUME NativeInv, CrashInv, NEW s \in Streams, Unregister(s)
  PROVE  CrashInv'
<1>1. UNCHANGED status
  BY UnregisterEffect
<1>2. \A x \in Contexts : ctx'[x].par = ctx[x].par /\ ctx'[x].caps = ctx[x].caps
  BY UnregisterEffect
<1>3. \A x \in Streams : mounts'[x] = mounts[x] \/ mounts'[x].gen = NULL
  BY UnregisterEffect
<1> QED
  BY <1>1, <1>2, <1>3 DEF CrashInv, NoCrash, AudioOnly, Mounted

(* The media of a mount point has every appsrc that set_appsrc asks for. *)
LEMMA ClientPlayCrash ==
  ASSUME NativeInv, CrashInv, NEW s \in Streams, ClientPlay(s)
  PROVE  CrashInv'
<1>1. ASSUME table[s] \in Contexts PROVE SetAppsrcAsserts(ctx[table[s]], mounts[s])
  BY <1>1, ClientPlayEffect DEF CrashInv, AudioOnly, SetAppsrcAsserts
<1>2. UNCHANGED status
  BY <1>1, ClientPlayEffect DEF MediaEffect, ClientPlay, MediaConfigure
<1>3. \A x \in Contexts : ctx'[x].par = ctx[x].par /\ ctx'[x].caps = ctx[x].caps
  BY ClientPlayEffect DEF MediaEffect
<1>4. \A x \in Streams : mounts'[x].gen = mounts[x].gen /\ mounts'[x].caps = mounts[x].caps
  BY ClientPlayEffect
<1> QED
  BY <1>2, <1>3, <1>4 DEF CrashInv, NoCrash, AudioOnly, Mounted

LEMMA ClientsLeaveCrash ==
  ASSUME NativeInv, CrashInv, NEW p \in Pipelines, ClientsLeave(p)
  PROVE  CrashInv'
<1>1. /\ UNCHANGED <<ctx, status>>
      /\ \A x \in Streams : mounts'[x].gen = mounts[x].gen /\ mounts'[x].caps = mounts[x].caps
  BY ClientsLeaveEffect
<1> QED
  BY <1>1 DEF CrashInv, NoCrash, AudioOnly, Mounted

(* onPacket never reaches the assertion: a context without caps has no source. *)
LEMMA OnPacketCrash ==
  ASSUME NativeInv, CrashInv, NEW s \in Streams, NEW k \in Kinds, OnPacket(s, k)
  PROVE  CrashInv'
<1>1. ASSUME table[s] \in Contexts, ctx[table[s]].appsrc[k] = NULL
      PROVE  ~Accepts(ctx[table[s]], k)
  BY <1>1 DEF Accepts, CrashInv, AudioOnly
<1>2. UNCHANGED <<ctx, mounts, status>>
  BY <1>1, OnPacketEffect
<1> QED
  BY <1>2, CrashStutter

LEMMA SessionCrash ==
  ASSUME NativeInv, JavaTypeOK, CrashInv, IsVideo = 0,
         NEW a \in Apps, NEW s \in Streams, Session(a, s)
  PROVE  CrashInv'
<1>1. CASE StreamStarted(a, s) \/ AddPacketListener(a, s)
  BY <1>1, CrashStutter DEF StreamStarted, AddPacketListener, native
<1>2. CASE JavaRegister(a, s)
  BY <1>2, RegisterStreamCrash DEF JavaRegister
<1>3. CASE JavaVideoInfo(a, s) \/ JavaAudioInfo(a, s)
  <2>1. \A k \in Kinds : codec[<<a, s>>][k] \in Codecs \cup {NULL}
    BY DEF JavaTypeOK, Sessions
  <2>2. CASE JavaVideoInfo(a, s)
    <3>1. SetStreamInfo(s, "video", codec[<<a, s>>]["video"], IsVideo)
      BY <2>2 DEF JavaVideoInfo
    <3> QED
      BY <2>1, <3>1, SetStreamInfoCrash
  <2>3. CASE JavaAudioInfo(a, s)
    <3>1. SetStreamInfo(s, "audio", codec[<<a, s>>]["audio"], 1)
      BY <2>3 DEF JavaAudioInfo
    <3> QED
      BY <2>1, <3>1, SetStreamInfoCrash
  <2> QED
    BY <1>3, <2>2, <2>3
<1>4. CASE JavaDefault(a, s)
  <2>1. UNCHANGED native \/ \E type : RegisterPipeline(s, type)
    BY <1>4 DEF JavaDefault, CallDefaultPipeline
  <2> QED
    BY <2>1, RegisterPipelineCrash, CrashStutter DEF native
<1>5. CASE StreamFinished(a, s)
  BY <1>5, UnregisterCrash DEF StreamFinished
<1>6. CASE \E k \in Kinds : Packet(a, s, k)
  BY <1>6, OnPacketCrash DEF Packet
<1> QED
  BY <1>1, <1>2, <1>3, <1>4, <1>5, <1>6 DEF Session

LEMMA NextCrash ==
  ASSUME NativeInv, JavaTypeOK, CrashInv, IsVideo = 0, [Next]_vars
  PROVE  CrashInv'
<1>1. CASE \E a \in Apps, s \in Streams : Session(a, s)
  BY <1>1, SessionCrash
<1>2. CASE GetConfig \/ NewTable \/ GstInit \/ InitRtsp
  BY <1>2, CrashStutter DEF GetConfig, NewTable, GstInit, InitRtsp, InitStep
<1>3. CASE \E p \in Pipelines : ClientsLeave(p)
  BY <1>3, ClientsLeaveCrash
<1>4. CASE \E s \in Streams : ClientPlay(s)
  BY <1>4, ClientPlayCrash
<1>5. CASE \E s \in Streams, type \in OutTypes : Rest(s, type)
  BY <1>5, RegisterPipelineCrash DEF Rest
<1>6. CASE UNCHANGED vars
  BY <1>6, CrashStutter DEF vars
<1> QED
  BY <1>1, <1>2, <1>3, <1>4, <1>5, <1>6 DEF Next, Plugin

(***************************************************************************)
(* With the flags that SamplePlugin.java passes, no order of               *)
(* registrations, REST requests, RTSP clients and packets makes            *)
(* parse_codec read a missing filter, or set_appsrc or onPacket fail an    *)
(* assertion.  With is_video = 1 a codec without a filter would: the flag   *)
(* is what keeps the plugin up.                                            *)
(***************************************************************************)
THEOREM NothingCrashes == IsVideo = 0 => (Spec => []NoCrash)
<1> SUFFICES ASSUME IsVideo = 0 PROVE Spec => []NoCrash
  OBVIOUS
<1>1. Init => CrashInv
  BY NullFacts DEF Init, CrashInv, NoCrash, AudioOnly, Mounted, FreeContext, NoCodecs, NoFactory
<1>2. NativeInv /\ JavaTypeOK /\ CrashInv /\ [Next]_vars => CrashInv'
  BY NextCrash
<1>3. CrashInv => NoCrash
  BY DEF CrashInv
<1> QED
  BY <1>1, <1>2, <1>3, Ownership_Invariant, PTL DEF Spec

-----------------------------------------------------------------------------
(***************************************************************************)
(* The proof of OwnCaps where one application publishes an id: all caps    *)
(* were made from a context whose tracks do not change any more, because   *)
(* each track is announced once.                                           *)
(***************************************************************************)
NativeCaps == CapsDeclared /\ SourcesDeclared /\ MountsOwned

LEMMA NativeCapsKept ==
  ASSUME NativeInv, NativeCaps,
         \A c \in Contexts : ctx[c].stream # NULL =>
           /\ ctx'[c].stream = ctx[c].stream
           /\ ctx[c].rtsp_mountpoint => ctx'[c].rtsp_mountpoint
           /\ \A k \in Kinds : ctx[c].par[k] # NULL => ctx'[c].par[k] = ctx[c].par[k],
         \A c \in Contexts, k \in Kinds :
           ctx'[c].caps[k] # NULL => ctx'[c].caps[k] = ctx'[c].par[k],
         \A c \in Contexts, k \in Kinds :
           ctx'[c].appsrc[k] # NULL => pipe'[ctx'[c].appsrc[k]].caps[k] # NULL,
         \A s \in Streams :
           \/ mounts'[s].gen = NULL
           \/ mounts'[s].gen = mounts[s].gen /\ mounts'[s].caps = mounts[s].caps
           \/ \E c \in Contexts : /\ mounts'[s].gen = c /\ mounts'[s].caps = ctx'[c].caps
                                  /\ ctx'[c].stream = s /\ ctx'[c].rtsp_mountpoint,
         \A p \in Pipelines :
           \/ pipe'[p].gen = pipe[p].gen /\ pipe'[p].caps = pipe[p].caps
           \/ \E c \in Contexts : /\ pipe'[p].gen = c /\ pipe'[p].caps = ctx'[c].caps
                                  /\ ctx'[c].stream # NULL
           \/ \E s \in Streams : /\ Mounted(s) /\ pipe'[p].gen = mounts[s].gen
                                 /\ pipe'[p].caps = mounts[s].caps
  PROVE  NativeCaps'
<1> USE NullFacts
<1>1. /\ \A s \in Streams : mounts[s].gen \in Contexts \cup {NULL}
      /\ \A p \in Pipelines : pipe[p].gen \in Contexts \cup {NULL}
  BY DEF NativeInv, NativeTypeOK, FactoryT, PipelineT
<1>2. ASSUME NEW c \in Contexts, ctx[c].stream # NULL, NEW caps, Declares(caps, c)
      PROVE  \A k \in Kinds : caps[k] # NULL => caps[k] = ctx'[c].par[k]
  BY <1>2 DEF Declares
<1>3. ASSUME NEW s \in Streams, Mounted(s)
      PROVE  /\ mounts[s].gen \in Contexts /\ ctx[mounts[s].gen].stream = s
             /\ ctx[mounts[s].gen].stream # NULL /\ Declares(mounts[s].caps, mounts[s].gen)
             /\ ctx[mounts[s].gen].rtsp_mountpoint
  BY <1>1, <1>3 DEF NativeCaps, CapsDeclared, MountsOwned, Mounted
<1>4. MountsOwned'
  BY <1>3 DEF MountsOwned, Mounted
<1>5. ASSUME NEW s \in Streams, Mounted(s)'
      PROVE  Declares(mounts[s].caps, mounts[s].gen)'
  <2>1. CASE mounts'[s].gen = mounts[s].gen /\ mounts'[s].caps = mounts[s].caps
    <3>1. Mounted(s)
      BY <1>5, <2>1 DEF Mounted
    <3>2. \A k \in Kinds : mounts[s].caps[k] # NULL =>
                             mounts[s].caps[k] = ctx'[mounts[s].gen].par[k]
      BY <3>1, <1>3, <1>2
    <3> QED
      BY <2>1, <3>2 DEF Declares
  <2>2. CASE \E c \in Contexts : mounts'[s].gen = c /\ mounts'[s].caps = ctx'[c].caps
    BY <2>2 DEF Declares
  <2> QED
    BY <1>5, <2>1, <2>2 DEF Mounted
<1>6. ASSUME NEW p \in Pipelines, pipe'[p].gen # NULL
      PROVE  Declares(pipe[p].caps, pipe[p].gen)' /\ ctx'[pipe'[p].gen].stream # NULL
  <2>1. CASE pipe'[p].gen = pipe[p].gen /\ pipe'[p].caps = pipe[p].caps
    <3>1. /\ pipe[p].gen \in Contexts /\ ctx[pipe[p].gen].stream # NULL
          /\ Declares(pipe[p].caps, pipe[p].gen)
      BY <1>1, <1>6, <2>1 DEF NativeCaps, CapsDeclared
    <3>2. \A k \in Kinds : pipe[p].caps[k] # NULL =>
                             pipe[p].caps[k] = ctx'[pipe[p].gen].par[k]
      BY <3>1, <1>2
    <3> QED
      BY <2>1, <3>1, <3>2 DEF Declares
  <2>2. CASE \E c \in Contexts : /\ pipe'[p].gen = c /\ pipe'[p].caps = ctx'[c].caps
                                 /\ ctx'[c].stream # NULL
    BY <2>2 DEF Declares
  <2>3. CASE \E s \in Streams : /\ Mounted(s) /\ pipe'[p].gen = mounts[s].gen
                                /\ pipe'[p].caps = mounts[s].caps
    <3>1. PICK s \in Streams : /\ Mounted(s) /\ pipe'[p].gen = mounts[s].gen
                               /\ pipe'[p].caps = mounts[s].caps
      BY <2>3
    <3>2. \A k \in Kinds : mounts[s].caps[k] # NULL =>
                             mounts[s].caps[k] = ctx'[mounts[s].gen].par[k]
      BY <3>1, <1>3, <1>2
    <3> QED
      BY <3>1, <3>2, <1>3 DEF Declares
  <2> QED
    BY <2>1, <2>2, <2>3
<1>7. CapsDeclared'
  BY <1>5, <1>6 DEF CapsDeclared, Declares
<1>8. SourcesDeclared'
  BY DEF SourcesDeclared
<1> QED
  BY <1>4, <1>7, <1>8 DEF NativeCaps

LEMMA CapsStutter ==
  ASSUME NativeCaps, UNCHANGED <<ctx, mounts, pipe>>
  PROVE  NativeCaps'
BY DEF NativeCaps, CapsDeclared, SourcesDeclared, MountsOwned, Declares, Mounted

LEMMA RegisterStreamCaps ==
  ASSUME NativeInv, NativeCaps, NEW s \in Streams, RegisterStream(s)
  PROVE  NativeCaps'
<1>1. PICK c \in Contexts :
        /\ ctx[c].stream = NULL
        /\ \A x \in Contexts \ {c} : ctx'[x] = ctx[x]
        /\ ctx'[c].caps = NoCodecs
        /\ \A k \in Kinds : ctx'[c].appsrc[k] = NULL
        /\ UNCHANGED <<mounts, pipe>>
  BY RegisterStreamEffect
<1>2. \A k \in Kinds : NoCodecs[k] = NULL
  BY DEF NoCodecs
<1>3. \A x \in Contexts, k \in Kinds :
        ctx'[x].caps[k] # NULL => ctx'[x].caps[k] = ctx'[x].par[k]
  BY <1>1, <1>2 DEF NativeCaps, CapsDeclared, Declares
<1>4. \A x \in Contexts, k \in Kinds :
        ctx'[x].appsrc[k] # NULL => pipe'[ctx'[x].appsrc[k]].caps[k] # NULL
  BY <1>1 DEF NativeCaps, SourcesDeclared
<1> QED
  BY <1>1, <1>3, <1>4, NativeCapsKept

(* setStreamInfo for a kind that no caps of the context can hold yet. *)
LEMMA SetStreamInfoCaps ==
  ASSUME NativeInv, NativeCaps, NEW s \in Streams, NEW k \in Kinds,
         NEW d \in Codecs \cup {NULL}, NEW e, SetStreamInfo(s, k, d, e),
         table[s] # NULL => ctx[table[s]].par[k] = NULL
  PROVE  NativeCaps'
<1> DEFINE c == table[s]
<1>1. UNCHANGED <<table, mounts, pipe>>
  BY SetStreamInfoEffect
<1>2. CASE UNCHANGED ctx
  BY <1>1, <1>2, CapsStutter
<1>3. CASE c \in Contexts /\ InfoEffect(c, k, d)
  <2>1. /\ \A x \in Contexts : /\ ctx'[x].stream = ctx[x].stream
                               /\ ctx'[x].caps = ctx[x].caps
                               /\ ctx'[x].appsrc = ctx[x].appsrc
                               /\ ctx'[x].rtsp_mountpoint = ctx[x].rtsp_mountpoint
    BY <1>3 DEF InfoEffect
  <2>2. ctx[c].par[k] = NULL
    BY <1>3, NullFacts
  <2>3. \A x \in Contexts, j \in Kinds :
          ctx[x].par[j] # NULL => ctx'[x].par[j] = ctx[x].par[j]
    BY <1>3, <2>2 DEF InfoEffect
  <2>4. \A x \in Contexts, j \in Kinds :
          ctx'[x].caps[j] # NULL => ctx'[x].caps[j] = ctx'[x].par[j]
    BY <2>1, <2>3 DEF NativeCaps, CapsDeclared, Declares
  <2>5. \A x \in Contexts, j \in Kinds :
          ctx'[x].appsrc[j] # NULL => pipe'[ctx'[x].appsrc[j]].caps[j] # NULL
    BY <1>1, <2>1 DEF NativeCaps, SourcesDeclared
  <2> QED
    BY <1>1, <2>1, <2>3, <2>4, <2>5, NativeCapsKept
<1> QED
  BY <1>2, <1>3, SetStreamInfoEffect

(* A source is in a pipeline that was built. *)
LEMMA SourceBuilt ==
  ASSUME NativeInv, NEW c \in Contexts, NEW k \in Kinds, ctx[c].appsrc[k] # NULL
  PROVE  ctx[c].appsrc[k] \in Pipelines /\ ~Free(ctx[c].appsrc[k])
BY DEF NativeInv, NativeTypeOK, StreamMapT, SourcesOwned, FreeUnused

LEMMA RegisterPipelineCaps ==
  ASSUME NativeInv, NativeCaps, NEW s \in Streams, NEW type, RegisterPipeline(s, type)
  PROVE  NativeCaps' /\ table' = table
         /\ \A x \in Contexts : ctx'[x].par = ctx[x].par
<1> DEFINE c == table[s]
<1>1. CASE UNCHANGED <<ctx, mounts, pipe>>
  BY <1>1, CapsStutter, RegisterPipelineEffect
<1>2. CASE /\ c \in Contexts
           /\ \/ \E p \in Pipelines : LaunchEffect(c, p)
              \/ FailEffect(c)
              \/ RtspEffect(s, c)
  <2>1. Parsed(c)
    BY <1>2 DEF LaunchEffect, FailEffect, RtspEffect
  <2>2. ctx[c].stream = s /\ s # NULL
    BY <1>2, NullFacts DEF NativeInv, TableOwned
  <2>3. \A x \in Contexts :
          /\ ctx'[x].stream = ctx[x].stream /\ ctx'[x].par = ctx[x].par
          /\ ctx[x].rtsp_mountpoint => ctx'[x].rtsp_mountpoint
    BY <1>2, <2>1 DEF Parsed, LaunchEffect, FailEffect, RtspEffect
  <2>4. \A x \in Contexts, k \in Kinds :
          ctx'[x].caps[k] # NULL => ctx'[x].caps[k] = ctx'[x].par[k]
    BY <2>1 DEF Parsed, NativeCaps, CapsDeclared, Declares
  <2>5. \A x \in Streams :
          \/ mounts'[x].gen = mounts[x].gen /\ mounts'[x].caps = mounts[x].caps
          \/ /\ mounts'[x].gen = c /\ mounts'[x].caps = ctx'[c].caps
             /\ ctx'[c].stream = x /\ ctx'[c].rtsp_mountpoint
    BY <1>2, <2>2, <2>3 DEF LaunchEffect, FailEffect, RtspEffect
  <2>6. \A x \in Pipelines :
          \/ pipe'[x].gen = pipe[x].gen /\ pipe'[x].caps = pipe[x].caps
          \/ pipe'[x].gen = c /\ pipe'[x].caps = ctx'[c].caps /\ ctx'[c].stream # NULL
    BY <1>2, <2>2, <2>3 DEF LaunchEffect, FailEffect, RtspEffect
  <2>7. ASSUME NEW x \in Contexts, NEW k \in Kinds, ctx'[x].appsrc[k] # NULL
        PROVE  pipe'[ctx'[x].appsrc[k]].caps[k] # NULL
    <3> DEFINE q == ctx[x].appsrc[k]
    <3>1. CASE ctx'[x].appsrc[k] = q
      <4>1. q \in Pipelines /\ ~Free(q) /\ pipe[q].caps[k] # NULL
        BY <2>7, <3>1, SourceBuilt DEF NativeCaps, SourcesDeclared
      <4>2. pipe'[q] = pipe[q]
        BY <1>2, <4>1 DEF LaunchEffect, FailEffect, RtspEffect
      <4> QED
        BY <3>1, <4>1, <4>2
    <3>2. CASE ctx'[x].appsrc[k] # q
      <4>1. x = c
        BY <2>1, <3>2 DEF Parsed
      <4>2. PICK p \in Pipelines : LaunchEffect(c, p)
        BY <1>2, <3>2, <4>1 DEF FailEffect, RtspEffect
      <4>3. ctx'[c].caps[k] # NULL /\ ctx'[c].appsrc[k] = p
        BY <3>2, <4>1, <4>2 DEF LaunchEffect
      <4> QED
        BY <4>1, <4>2, <4>3 DEF LaunchEffect
    <3> QED
      BY <3>1, <3>2
  <2>8. NativeCaps'
    BY <1>2, <2>3, <2>4, <2>5, <2>6, <2>7, NativeCapsKept
  <2> QED
    BY <2>3, <2>8, RegisterPipelineEffect
<1> QED
  BY <1>1, <1>2, RegisterPipelineEffect

LEMMA UnregisterCaps ==
  ASSUME NativeInv, NativeCaps, NEW s \in Streams, Unregister(s)
  PROVE  NativeCaps' /\ table' = [table EXCEPT ![s] = NULL]
         /\ \A x \in Contexts : ctx'[x].par = ctx[x].par
<1>1. \A x \in Contexts :
        /\ ctx'[x].stream = ctx[x].stream /\ ctx'[x].par = ctx[x].par
        /\ ctx'[x].caps = ctx[x].caps /\ ctx'[x].appsrc = ctx[x].appsrc
        /\ ctx'[x].rtsp_mountpoint = ctx[x].rtsp_mountpoint
  BY UnregisterEffect
<1>2. \A x \in Pipelines : pipe'[x].gen = pipe[x].gen /\ pipe'[x].caps = pipe[x].caps
  BY UnregisterEffect
<1>3. \A x \in Streams : mounts'[x] = mounts[x] \/ mounts'[x].gen = NULL
  BY UnregisterEffect
<1>4. \A x \in Contexts, k \in Kinds :
        ctx'[x].caps[k] # NULL => ctx'[x].caps[k] = ctx'[x].par[k]
  BY <1>1 DEF NativeCaps, CapsDeclared, Declares
<1>5. \A x \in Contexts, k \in Kinds :
        ctx'[x].appsrc[k] # NULL => pipe'[ctx'[x].appsrc[k]].caps[k] # NULL
  BY <1>1, <1>2, SourceBuilt DEF NativeCaps, SourcesDeclared
<1>6. NativeCaps'
  BY <1>1, <1>2, <1>3, <1>4, <1>5, NativeCapsKept
<1> QED
  BY <1>1, <1>6, UnregisterEffect

(* The media declares what its mount point does, made for whatever context. *)
LEMMA ClientPlayCaps ==
  ASSUME NativeInv, NativeCaps, NEW s \in Streams, ClientPlay(s)
  PROVE  NativeCaps' /\ table' = table
         /\ \A x \in Contexts : ctx'[x].par = ctx[x].par
<1>1. PICK p \in Pipelines :
        /\ Free(p)
        /\ pipe'[p].gen = mounts[s].gen /\ pipe'[p].caps = mounts[s].caps
        /\ \A x \in Pipelines \ {p} : pipe'[x] = pipe[x]
        /\ \A x \in Streams : mounts'[x].gen = mounts[x].gen
                              /\ mounts'[x].caps = mounts[x].caps
        /\ \/ UNCHANGED ctx
           \/ /\ table[s] \in Contexts
              /\ SetAppsrcAsserts(ctx[table[s]], mounts[s])
              /\ MediaEffect(table[s], p)
  BY ClientPlayEffect
<1>2. \A x \in Contexts :
        /\ ctx'[x].stream = ctx[x].stream /\ ctx'[x].par = ctx[x].par
        /\ ctx'[x].caps = ctx[x].caps
        /\ ctx'[x].rtsp_mountpoint = ctx[x].rtsp_mountpoint
  BY <1>1 DEF MediaEffect
<1>3. \A x \in Contexts, k \in Kinds :
        ctx'[x].caps[k] # NULL => ctx'[x].caps[k] = ctx'[x].par[k]
  BY <1>2 DEF NativeCaps, CapsDeclared, Declares
<1>4. ASSUME NEW x \in Contexts, NEW k \in Kinds, ctx'[x].appsrc[k] # NULL
      PROVE  pipe'[ctx'[x].appsrc[k]].caps[k] # NULL
  <2>1. CASE ctx'[x].appsrc[k] = ctx[x].appsrc[k]
    BY <1>1, <1>4, <2>1, SourceBuilt DEF NativeCaps, SourcesDeclared
  <2>2. CASE ctx'[x].appsrc[k] # ctx[x].appsrc[k]
    <3>1. /\ ctx'[x].appsrc[k] = p /\ ctx[x].caps[k] # NULL
          /\ SetAppsrcAsserts(ctx[x], mounts[s])
      BY <1>1, <2>2 DEF MediaEffect
    <3> QED
      BY <1>1, <3>1 DEF SetAppsrcAsserts
  <2> QED
    BY <2>1, <2>2
<1>5. Mounted(s)
  BY ClientPlayEffect
<1>6. NativeCaps'
  BY <1>1, <1>2, <1>3, <1>4, <1>5, NativeCapsKept
<1> QED
  BY <1>2, <1>6, ClientPlayEffect

LEMMA ClientsLeaveCaps ==
  ASSUME NativeInv, NativeCaps, NEW p \in Pipelines, ClientsLeave(p)
  PROVE  NativeCaps'
<1>1. /\ UNCHANGED ctx
      /\ \A x \in Pipelines : pipe'[x].gen = pipe[x].gen /\ pipe'[x].caps = pipe[x].caps
      /\ \A x \in Streams : mounts'[x].gen = mounts[x].gen /\ mounts'[x].caps = mounts[x].caps
  BY ClientsLeaveEffect
<1>2. \A x \in Contexts, k \in Kinds :
        ctx'[x].appsrc[k] # NULL => pipe'[ctx'[x].appsrc[k]].caps[k] # NULL
  BY <1>1, SourceBuilt DEF NativeCaps, SourcesDeclared
<1> QED
  BY <1>1, <1>2, NativeCapsKept DEF NativeCaps, CapsDeclared, Declares

LEMMA OnPacketCaps ==
  ASSUME NativeInv, NativeCaps, NEW s \in Streams, NEW k \in Kinds, OnPacket(s, k)
  PROVE  NativeCaps' /\ UNCHANGED <<table, ctx>>
<1>1. /\ UNCHANGED <<table, ctx, mounts>>
      /\ \A x \in Pipelines : pipe'[x].gen = pipe[x].gen /\ pipe'[x].caps = pipe[x].caps
  BY OnPacketEffect
<1>2. \A x \in Contexts, j \in Kinds :
        ctx'[x].appsrc[j] # NULL => pipe'[ctx'[x].appsrc[j]].caps[j] # NULL
  BY <1>1, SourceBuilt DEF NativeCaps, SourcesDeclared
<1> QED
  BY <1>1, <1>2, NativeCapsKept DEF NativeCaps, CapsDeclared, Declares

-----------------------------------------------------------------------------
(* The announcements: only the session itself touches its stream's entry. *)

LEMMA AnnouncedKept ==
  ASSUME NativeInv, AnnouncedOnce, UNCHANGED <<phase, table>>,
         \A x \in Contexts : ctx'[x].par = ctx[x].par
  PROVE  AnnouncedOnce'
<1>1. \A s \in Streams : table[s] # NULL => table[s] \in Contexts
  BY EntriesTyped
<1> QED
  BY <1>1 DEF AnnouncedOnce

LEMMA AnnouncedMoved ==
  ASSUME OneApp, JavaTypeOK, AnnouncedOnce, NEW a \in Apps, NEW s \in Streams,
         NEW to, phase' = [phase EXCEPT ![<<a, s>>] = to],
         \A t \in Streams \ {s} :
           /\ table'[t] = table[t]
           /\ table[t] # NULL => ctx'[table[t]].par = ctx[table[t]].par,
         IF a = RtmpOut
         THEN /\ to \in {"idle", "live"}
              /\ \/ table'[s] = NULL
                 \/ /\ table'[s] = table[s]
                    /\ table[s] # NULL => ctx'[table[s]].par = ctx[table[s]].par
         ELSE /\ to \in {"idle", "register"} => table'[s] = NULL
              /\ to = "video" /\ table'[s] # NULL => ctx'[table'[s]].par = NoCodecs
              /\ to = "audio" /\ table'[s] # NULL => ctx'[table'[s]].par["audio"] = NULL
  PROVE  AnnouncedOnce'
<1> DEFINE Announced(b, t) ==
      /\ b = RtmpOut => phase[<<b, t>>] \in {"idle", "live"}
      /\ b # RtmpOut /\ phase[<<b, t>>] \in {"idle", "register"} => table[t] = NULL
      /\ phase[<<b, t>>] = "video" /\ table[t] # NULL => ctx[table[t]].par = NoCodecs
      /\ phase[<<b, t>>] = "audio" /\ table[t] # NULL => ctx[table[t]].par["audio"] = NULL
<1>1. /\ phase'[<<a, s>>] = to
      /\ \A b \in Apps, t \in Streams : <<b, t>> # <<a, s>> => phase'[<<b, t>>] = phase[<<b, t>>]
  BY DEF JavaTypeOK, Sessions
<1>2. \A b \in Apps, t \in Streams : Announced(b, t)
  BY DEF AnnouncedOnce
<1>3. Announced(a, s)'
  BY <1>1
<1>4. ASSUME NEW b \in Apps, NEW t \in Streams \ {s}
      PROVE  Announced(b, t)'
  BY <1>1, <1>2
<1>5. ASSUME NEW b \in Apps \ {a}
      PROVE  Announced(b, s)'
  <2>1. phase'[<<b, s>>] = phase[<<b, s>>] /\ Announced(b, s)
    BY <1>1, <1>2
  <2>2. CASE a = RtmpOut
    BY <2>1, <2>2
  <2>3. CASE a # RtmpOut
    <3>1. b = RtmpOut
      BY <2>3 DEF OneApp
    <3> QED
      BY <2>1, <3>1
  <2> QED
    BY <2>2, <2>3
<1> HIDE DEF Announced
<1>6. \A b \in Apps, t \in Streams : Announced(b, t)'
  BY <1>3, <1>4, <1>5
<1> QED
  BY <1>6 DEF Announced, AnnouncedOnce

LEMMA SessionCaps ==
  ASSUME OneApp, NativeInv, JavaTypeOK, NativeCaps, AnnouncedOnce,
         NEW a \in Apps, NEW s \in Streams, Session(a, s)
  PROVE  NativeCaps' /\ AnnouncedOnce'
<1> USE NullFacts
<1>t. /\ \A t \in Streams : table[t] # NULL => table[t] \in Contexts /\ ctx[table[t]].stream = t
      /\ table \in [Streams -> Contexts \cup {NULL}]
      /\ \A k \in Kinds : codec[<<a, s>>][k] \in Codecs \cup {NULL}
  BY DEF NativeInv, NativeTypeOK, TableOwned, JavaTypeOK, Sessions
<1>p. phase[<<a, s>>] \notin {"idle", "live"} => a # RtmpOut
  BY DEF AnnouncedOnce
<1>1. CASE StreamStarted(a, s)
  <2>1. /\ phase[<<a, s>>] = "idle" /\ UNCHANGED <<table, ctx, mounts, pipe>>
        /\ phase' = [phase EXCEPT ![<<a, s>>] = IF a = RtmpOut THEN "live" ELSE "register"]
    BY <1>1 DEF StreamStarted, Move, native
  <2>2. a # RtmpOut => table[s] = NULL
    BY <2>1 DEF AnnouncedOnce
  <2> QED
    BY <2>1, <2>2, CapsStutter, AnnouncedMoved
<1>2. CASE JavaRegister(a, s)
  <2>1. /\ phase[<<a, s>>] = "register" /\ RegisterStream(s)
        /\ phase' = [phase EXCEPT ![<<a, s>>] = "video"]
    BY <1>2 DEF JavaRegister, Move
  <2>2. a # RtmpOut /\ table[s] = NULL
    BY <1>p, <2>1 DEF AnnouncedOnce
  <2>3. PICK c \in Contexts :
          /\ ctx[c].stream = NULL
          /\ \A x \in Contexts \ {c} : ctx'[x] = ctx[x]
          /\ ctx'[c].par = NoCodecs
          /\ table' = [table EXCEPT ![s] = c] \/ UNCHANGED table
    BY <2>1, RegisterStreamEffect
  <2>4. \A t \in Streams \ {s} : /\ table'[t] = table[t]
                                 /\ table[t] # NULL => ctx'[table[t]] = ctx[table[t]]
    BY <1>t, <2>3
  <2>5. table'[s] # NULL => ctx'[table'[s]].par = NoCodecs
    BY <1>t, <2>2, <2>3
  <2> QED
    BY <2>1, <2>2, <2>4, <2>5, RegisterStreamCaps, AnnouncedMoved
<1>3. CASE JavaVideoInfo(a, s)
  <2>1. /\ phase[<<a, s>>] = "video"
        /\ phase' = [phase EXCEPT ![<<a, s>>] = "audio"]
        /\ SetStreamInfo(s, "video", codec[<<a, s>>]["video"], IsVideo)
    BY <1>3 DEF JavaVideoInfo, Move
  <2>2. a # RtmpOut /\ (table[s] # NULL => ctx[table[s]].par = NoCodecs)
    BY <1>p, <2>1 DEF AnnouncedOnce
  <2>3. \A k \in Kinds : NoCodecs[k] = NULL
    BY DEF NoCodecs
  <2>4. NativeCaps'
    BY <1>t, <2>1, <2>2, <2>3, SetStreamInfoCaps
  <2>5. /\ UNCHANGED table
        /\ \/ UNCHANGED ctx
           \/ /\ table[s] \in Contexts
              /\ \A x \in Contexts \ {table[s]} : ctx'[x] = ctx[x]
              /\ ctx'[table[s]].par["audio"] = ctx[table[s]].par["audio"]
    BY <1>t, <2>1, SetStreamInfoEffect DEF InfoEffect
  <2>6. \A t \in Streams \ {s} : table[t] # NULL => ctx'[table[t]].par = ctx[table[t]].par
    BY <1>t, <2>5
  <2>7. table[s] # NULL => ctx'[table[s]].par["audio"] = NULL
    BY <2>2, <2>3, <2>5
  <2> QED
    BY <2>1, <2>2, <2>4, <2>5, <2>6, <2>7, AnnouncedMoved
<1>4. CASE JavaAudioInfo(a, s)
  <2>1. /\ phase[<<a, s>>] = "audio"
        /\ phase' = [phase EXCEPT ![<<a, s>>] = "default"]
        /\ SetStreamInfo(s, "audio", codec[<<a, s>>]["audio"], 1)
    BY <1>4 DEF JavaAudioInfo, Move
  <2>2. a # RtmpOut /\ (table[s] # NULL => ctx[table[s]].par["audio"] = NULL)
    BY <1>p, <2>1 DEF AnnouncedOnce
  <2>3. NativeCaps'
    BY <1>t, <2>1, <2>2, SetStreamInfoCaps
  <2>4. /\ UNCHANGED table
        /\ \/ UNCHANGED ctx
           \/ /\ table[s] \in Contexts
              /\ \A x \in Contexts \ {table[s]} : ctx'[x] = ctx[x]
    BY <1>t, <2>1, SetStreamInfoEffect DEF InfoEffect
  <2>5. \A t \in Streams \ {s} : table[t] # NULL => ctx'[table[t]].par = ctx[table[t]].par
    BY <1>t, <2>4
  <2> QED
    BY <2>1, <2>2, <2>3, <2>4, <2>5, AnnouncedMoved
<1>5. CASE JavaDefault(a, s)
  <2>1. /\ phase[<<a, s>>] = "default"
        /\ phase' = [phase EXCEPT ![<<a, s>>] = "listen"]
        /\ UNCHANGED native \/ \E type : RegisterPipeline(s, type)
    BY <1>5 DEF JavaDefault, CallDefaultPipeline, Move
  <2>2. /\ NativeCaps' /\ table' = table
        /\ \A x \in Contexts : ctx'[x].par = ctx[x].par
    BY <2>1, CapsStutter, RegisterPipelineCaps DEF native
  <2> QED
    BY <1>p, <1>t, <2>1, <2>2, AnnouncedMoved
<1>6. CASE AddPacketListener(a, s)
  <2>1. /\ phase[<<a, s>>] = "listen" /\ UNCHANGED <<table, ctx, mounts, pipe>>
        /\ phase' = [phase EXCEPT ![<<a, s>>] = "live"]
    BY <1>6 DEF AddPacketListener, Move, native
  <2> QED
    BY <2>1, CapsStutter, AnnouncedMoved
<1>7. CASE StreamFinished(a, s)
  <2>1. /\ phase' = [phase EXCEPT ![<<a, s>>] = "idle"] /\ Unregister(s)
    BY <1>7 DEF StreamFinished, Move
  <2>2. /\ NativeCaps' /\ table' = [table EXCEPT ![s] = NULL]
        /\ \A x \in Contexts : ctx'[x].par = ctx[x].par
    BY <2>1, UnregisterCaps
  <2> QED
    BY <1>t, <2>1, <2>2, AnnouncedMoved
<1>8. CASE \E k \in Kinds : Packet(a, s, k)
  BY <1>8, OnPacketCaps, AnnouncedKept DEF Packet, java
<1> QED
  BY <1>1, <1>2, <1>3, <1>4, <1>5, <1>6, <1>7, <1>8 DEF Session

LEMMA NextCaps ==
  ASSUME OneApp, NativeInv, JavaTypeOK, NativeCaps, AnnouncedOnce, [Next]_vars
  PROVE  NativeCaps' /\ AnnouncedOnce'
<1>1. CASE \E a \in Apps, s \in Streams : Session(a, s)
  BY <1>1, SessionCaps
<1>2. CASE GetConfig \/ NewTable \/ GstInit \/ InitRtsp
  <2>1. UNCHANGED <<table, ctx, mounts, pipe, phase>>
    BY <1>2 DEF GetConfig, NewTable, GstInit, InitRtsp, InitStep, java
  <2> QED
    BY <2>1, CapsStutter, AnnouncedKept
<1>3. CASE \E p \in Pipelines : ClientsLeave(p)
  BY <1>3, ClientsLeaveCaps, AnnouncedKept DEF ClientsLeave, java
<1>4. CASE \E s \in Streams : ClientPlay(s)
  BY <1>4, ClientPlayCaps, AnnouncedKept DEF ClientPlay, java
<1>5. CASE \E s \in Streams, type \in OutTypes : Rest(s, type)
  BY <1>5, RegisterPipelineCaps, AnnouncedKept DEF Rest, java
<1>6. CASE UNCHANGED vars
  BY <1>6, CapsStutter, AnnouncedKept DEF vars
<1> QED
  BY <1>1, <1>2, <1>3, <1>4, <1>5, <1>6 DEF Next, Plugin

(***************************************************************************)
(* A pipeline made for the context that feeds it declares the codecs of    *)
(* that context's tracks (parse_codec, set_appsrc, media_configure), where *)
(* at most one application besides rtmpout publishes an id: two of them    *)
(* would announce their tracks into one another's context.                 *)
(***************************************************************************)
THEOREM CapsAreOwn == OneApp => (Spec => []OwnCaps)
<1> SUFFICES ASSUME OneApp PROVE Spec => []OwnCaps
  OBVIOUS
<1> DEFINE I == NativeCaps /\ AnnouncedOnce
<1>1. Init => I
  <2>1. Init => AnnouncedOnce
    BY DEF Init, AnnouncedOnce, Sessions
  <2>2. Init => NativeCaps
    BY NullFacts
    DEF Init, NativeCaps, CapsDeclared, SourcesDeclared, MountsOwned, Declares, Mounted,
        FreeContext, FreePipeline, NoFactory, NoCodecs
  <2> QED
    BY <2>1, <2>2
<1>2. NativeInv /\ JavaTypeOK /\ I /\ [Next]_vars => I'
  BY NextCaps
<1>3. NativeInv /\ I => OwnCaps
  <2> SUFFICES ASSUME NativeInv, NativeCaps, NEW c \in Contexts, NEW k \in Kinds,
                      ctx[c].appsrc[k] # NULL, pipe[ctx[c].appsrc[k]].gen = c
               PROVE  pipe[ctx[c].appsrc[k]].caps[k] = ctx[c].par[k]
    BY DEF OwnCaps
  <2> DEFINE p == ctx[c].appsrc[k]
  <2>1. p \in Pipelines /\ pipe[p].caps[k] # NULL
    BY SourceBuilt DEF NativeCaps, SourcesDeclared
  <2> QED
    BY <2>1, NullFacts DEF NativeCaps, CapsDeclared, Declares
<1> HIDE DEF I
<1> QED
  BY <1>1, <1>2, <1>3, Ownership_Invariant, PTL DEF Spec

-----------------------------------------------------------------------------
(***************************************************************************)
(* What is left behind: the proof of LeakOnlyLost and MountOutlives.       *)
(* LeftKept is for the calls that change the context of one registered     *)
(* stream, LeftStutter for those that change none.                         *)
(***************************************************************************)
Launching(p) == pipe[p].kind = "launch" /\ pipe[p].state = "playing"

LEMMA LeftStutter ==
  ASSUME LeftBehindInv, UNCHANGED <<table, ctx, lost>>,
         \A s \in Streams : mounts'[s].gen = mounts[s].gen,
         \A p \in Pipelines : Launching(p)' => Launching(p)
  PROVE  LeftBehindInv'
BY DEF LeftBehindInv, LeakOnlyLost, MountOutlives, MountsOwned, OutputsHeld, Mounted,
       Launching

LEMMA LeftKept ==
  ASSUME NativeInv, LeftBehindInv, NEW s \in Streams, NEW c \in Contexts,
         table[s] = c, table' = table,
         \A x \in Contexts \ {c} : ctx'[x] = ctx[x],
         ctx'[c].stream = ctx[c].stream,
         ctx[c].rtsp_mountpoint => ctx'[c].rtsp_mountpoint,
         lost \subseteq lost',
         ctx[c].pipeline \in {NULL, ctx'[c].pipeline} \cup lost',
         ctx'[c].pipeline = NULL =>
           \/ c \in lost'
           \/ /\ ctx[c].pipeline = NULL
              /\ ctx'[c].pipeline_initialized => ctx[c].pipeline_initialized,
         \A t \in Streams :
           \/ mounts'[t].gen = mounts[t].gen
           \/ t = s /\ mounts'[t].gen = c /\ ctx'[c].rtsp_mountpoint,
         \A p \in Pipelines : Launching(p)' => Launching(p) \/ p = ctx'[c].pipeline
  PROVE  LeftBehindInv'
<1> USE NullFacts
<1>1. ctx[c].stream = s
  BY DEF NativeInv, TableOwned
<1>2. \A t \in Streams : table[t] # NULL => table[t] \in Contexts /\ ctx[table[t]].stream = t
  BY EntriesTyped DEF NativeInv, TableOwned
<1>3. \A t \in Streams : Mounted(t) => /\ mounts[t].gen \in Contexts
                                       /\ ctx[mounts[t].gen].stream = t
                                       /\ ctx[mounts[t].gen].rtsp_mountpoint
  BY DEF NativeInv, NativeTypeOK, FactoryT, Mounted, LeftBehindInv, MountsOwned
<1>4. LeakOnlyLost'
  <2> SUFFICES ASSUME NEW p \in Pipelines, Launching(p)'
               PROVE  \/ p \in lost'
                      \/ \E t \in Streams : table'[t] # NULL /\ ctx'[table'[t]].pipeline = p
    BY DEF LeakOnlyLost, Launching
  <2>1. CASE Launching(p)
    <3>1. p \in lost \/ \E t \in Streams : table[t] # NULL /\ ctx[table[t]].pipeline = p
      BY <2>1 DEF Launching, LeftBehindInv, LeakOnlyLost
    <3>2. ASSUME NEW t \in Streams, table[t] # NULL, ctx[table[t]].pipeline = p
          PROVE  p \in lost' \/ ctx'[table[t]].pipeline = p
      BY <1>2, <3>2
    <3> QED
      BY <3>1, <3>2
  <2>2. CASE p = ctx'[c].pipeline
    BY <2>2
  <2> QED
    BY <2>1, <2>2
<1>5. MountOutlives'
  <2> SUFFICES ASSUME NEW t \in Streams, mounts'[t].gen # NULL, table'[t] # mounts'[t].gen
               PROVE  \/ mounts'[t].gen \in lost'
                      \/ ~ctx'[mounts'[t].gen].pipeline_initialized
    BY DEF MountOutlives
  <2>1. mounts'[t].gen = mounts[t].gen /\ Mounted(t)
    BY DEF Mounted
  <2>2. mounts[t].gen \in Contexts /\ mounts[t].gen # c
    BY <1>1, <1>3, <2>1
  <2> QED
    BY <2>1, <2>2 DEF LeftBehindInv, MountOutlives
<1>6. MountsOwned'
  <2> SUFFICES ASSUME NEW t \in Streams, mounts'[t].gen # NULL
               PROVE  /\ ctx'[mounts'[t].gen].stream = t
                      /\ ctx'[mounts'[t].gen].rtsp_mountpoint
    BY DEF MountsOwned, Mounted
  <2>1. CASE mounts'[t].gen = mounts[t].gen
    BY <1>3, <2>1 DEF Mounted
  <2>2. CASE t = s /\ mounts'[t].gen = c /\ ctx'[c].rtsp_mountpoint
    BY <1>1, <2>2
  <2> QED
    BY <2>1, <2>2
<1>7. OutputsHeld'
  <2> SUFFICES ASSUME NEW t \in Streams, table[t] # NULL,
                      ctx'[table[t]].pipeline_initialized, ctx'[table[t]].pipeline = NULL
               PROVE  table[t] \in lost'
    BY DEF OutputsHeld
  <2> QED
    BY <1>2 DEF LeftBehindInv, OutputsHeld
<1> QED
  BY <1>4, <1>5, <1>6, <1>7 DEF LeftBehindInv

(* register_stream puts what it replaces among the lost. *)
LEMMA RegisterStreamLeft ==
  ASSUME NativeInv, LeftBehindInv, NEW s \in Streams, RegisterStream(s)
  PROVE  LeftBehindInv'
<1> USE NullFacts
<1>1. PICK c \in Contexts :
        /\ ctx[c].stream = NULL
        /\ \A x \in Contexts \ {c} : ctx'[x] = ctx[x]
        /\ ~ctx'[c].pipeline_initialized
        /\ \/ /\ table' = [table EXCEPT ![s] = c]
              /\ lost' = IF table[s] = NULL THEN lost
                         ELSE lost \cup {table[s]} \cup Dropped(ctx[table[s]].pipeline)
           \/ UNCHANGED <<table, lost>>
        /\ UNCHANGED <<mounts, pipe>>
  BY RegisterStreamEffect
<1>2. \A t \in Streams : table[t] # NULL => table[t] \in Contexts \ {c}
  BY <1>1, EntriesTyped DEF NativeInv, TableOwned
<1>3. \A t \in Streams : Mounted(t) => mounts[t].gen \in Contexts \ {c}
  BY <1>1 DEF NativeInv, NativeTypeOK, FactoryT, Mounted, LeftBehindInv, MountsOwned
<1>4. /\ lost \subseteq lost' /\ table \in [Streams -> Contexts \cup {NULL}]
      /\ \A t \in Streams \ {s} : table'[t] = table[t]
      /\ \/ table'[s] = table[s]
         \/ /\ table'[s] = c
            /\ table[s] # NULL => table[s] \in lost' /\ Dropped(ctx[table[s]].pipeline) \subseteq lost'
  BY <1>1 DEF NativeInv, NativeTypeOK
<1>5. LeakOnlyLost'
  <2> SUFFICES ASSUME NEW p \in Pipelines, Launching(p)
               PROVE  \/ p \in lost'
                      \/ \E t \in Streams : table'[t] # NULL /\ ctx'[table'[t]].pipeline = p
    BY <1>1 DEF LeakOnlyLost, Launching
  <2>1. p \in lost \/ \E t \in Streams : table[t] # NULL /\ ctx[table[t]].pipeline = p
    BY DEF Launching, LeftBehindInv, LeakOnlyLost
  <2>2. ASSUME NEW t \in Streams, table[t] # NULL, ctx[table[t]].pipeline = p
        PROVE  p \in lost' \/ (table'[t] # NULL /\ ctx'[table'[t]].pipeline = p)
    <3>1. CASE table'[t] = table[t]
      BY <1>1, <1>2, <2>2, <3>1
    <3>2. CASE table'[t] # table[t]
      BY <1>4, <2>2, <3>2 DEF Dropped
    <3> QED
      BY <3>1, <3>2
  <2> QED
    BY <1>4, <2>1, <2>2
<1>6. MountOutlives' /\ MountsOwned'
  BY <1>1, <1>3, <1>4 DEF MountOutlives, MountsOwned, Mounted, LeftBehindInv
<1>7. OutputsHeld'
  BY <1>1, <1>2, <1>4 DEF OutputsHeld, LeftBehindInv
<1> QED
  BY <1>5, <1>6, <1>7 DEF LeftBehindInv

LEMMA SetStreamInfoLeft ==
  ASSUME NativeInv, LeftBehindInv, NEW s \in Streams, NEW k \in Kinds,
         NEW d \in Codecs \cup {NULL}, NEW e, SetStreamInfo(s, k, d, e)
  PROVE  LeftBehindInv'
<1>1. UNCHANGED <<table, mounts, pipe, lost>>
  BY SetStreamInfoEffect
<1>2. CASE UNCHANGED ctx
  BY <1>1, <1>2, LeftStutter DEF Launching
<1>3. CASE table[s] \in Contexts /\ InfoEffect(table[s], k, d)
  BY <1>1, <1>3, LeftKept DEF InfoEffect, Launching
<1> QED
  BY <1>2, <1>3, SetStreamInfoEffect

LEMMA RegisterPipelineLeft ==
  ASSUME NativeInv, LeftBehindInv, NEW s \in Streams, NEW type, RegisterPipeline(s, type)
  PROVE  LeftBehindInv'
<1> USE NullFacts
<1> DEFINE c == table[s]
<1>1. table' = table
  BY RegisterPipelineEffect
<1>2. CASE UNCHANGED <<ctx, mounts, pipe, lost>>
  BY <1>1, <1>2, LeftStutter DEF Launching
<1>3. ASSUME c \in Contexts, NEW p \in Pipelines, LaunchEffect(c, p)
      PROVE  LeftBehindInv'
  <2>1. /\ ctx'[c].pipeline = p /\ p # NULL
        /\ \A x \in Pipelines : Launching(x)' => Launching(x) \/ x = p
    BY <1>3 DEF LaunchEffect, Launching
  <2>2. lost \subseteq lost' /\ ctx[c].pipeline \in {NULL} \cup lost'
    BY <1>3 DEF LaunchEffect, Dropped
  <2> QED
    BY <1>1, <1>3, <2>1, <2>2, LeftKept DEF LaunchEffect, Parsed
<1>4. CASE c \in Contexts /\ FailEffect(c)
  <2>1. lost \subseteq lost' /\ c \in lost' /\ ctx[c].pipeline \in {NULL} \cup lost'
    BY <1>4 DEF FailEffect, Dropped
  <2> QED
    BY <1>1, <1>4, <2>1, LeftKept DEF FailEffect, Parsed, Launching
<1>5. CASE c \in Contexts /\ RtspEffect(s, c)
  BY <1>1, <1>5, LeftKept DEF RtspEffect, Parsed, Launching
<1> QED
  BY <1>2, <1>3, <1>4, <1>5, RegisterPipelineEffect

(***************************************************************************)
(* unregister_stream stops the pipeline it can still reach; a registration *)
(* whose mount point it leaves had no output, or had lost it.              *)
(***************************************************************************)
LEMMA UnregisterLeft ==
  ASSUME NativeInv, LeftBehindInv, NEW s \in Streams, Unregister(s)
  PROVE  LeftBehindInv'
<1> USE NullFacts
<1>1. lost' = lost /\ table' = [table EXCEPT ![s] = NULL]
  BY UnregisterEffect
<1>2. /\ \A t \in Streams : table[t] # NULL => table[t] \in Contexts /\ ctx[table[t]].stream = t
      /\ table \in [Streams -> Contexts \cup {NULL}]
  BY EntriesTyped DEF NativeInv, NativeTypeOK, TableOwned
<1>3. \A x \in Contexts :
        /\ ctx'[x].stream = ctx[x].stream
        /\ ctx'[x].rtsp_mountpoint = ctx[x].rtsp_mountpoint
        /\ ctx'[x].pipeline_initialized = ctx[x].pipeline_initialized
        /\ x # table[s] => ctx'[x] = ctx[x]
  BY UnregisterEffect
<1>4. \A t \in Streams : \/ mounts'[t].gen = NULL
                         \/ mounts'[t].gen = mounts[t].gen
  BY UnregisterEffect
<1>5. \A p \in Pipelines : Launching(p)' => /\ Launching(p)
                                            /\ table[s] # NULL => ctx[table[s]].pipeline # p
  BY UnregisterEffect DEF Launching
<1>6. \A t \in Streams : mounts[t].gen \in Contexts \cup {NULL}
  BY DEF NativeInv, NativeTypeOK, FactoryT
<1>7. LeakOnlyLost'
  <2> SUFFICES ASSUME NEW p \in Pipelines, Launching(p)', p \notin lost
               PROVE  \E t \in Streams : table'[t] # NULL /\ ctx'[table'[t]].pipeline = p
    BY <1>1 DEF LeakOnlyLost, Launching
  <2>1. PICK t \in Streams : table[t] # NULL /\ ctx[table[t]].pipeline = p
    BY <1>5 DEF Launching, LeftBehindInv, LeakOnlyLost
  <2>2. t # s /\ table[t] # table[s]
    BY <1>2, <1>5, <2>1
  <2> QED
    BY <1>1, <1>2, <1>3, <2>1, <2>2
<1>8. MountOutlives'
  <2> SUFFICES ASSUME NEW t \in Streams, mounts'[t].gen # NULL
               PROVE  \/ table'[t] = mounts'[t].gen
                      \/ mounts'[t].gen \in lost'
                      \/ ~ctx'[mounts'[t].gen].pipeline_initialized
    BY DEF MountOutlives
  <2> DEFINE g == mounts[t].gen
  <2>1. mounts'[t].gen = g /\ g \in Contexts
    BY <1>4, <1>6
  <2>2. CASE t = s /\ table[s] = g
    <3>1. ctx[g].rtsp_mountpoint
      BY <2>1 DEF LeftBehindInv, MountsOwned, Mounted
    <3>2. ctx[g].pipeline = NULL
      BY <2>1, <2>2, <3>1, UnregisterEffect
    <3> QED
      BY <1>1, <1>3, <2>1, <2>2, <3>2 DEF LeftBehindInv, OutputsHeld
  <2>3. CASE t # s \/ table[s] # g
    BY <1>1, <1>2, <1>3, <2>1, <2>3 DEF LeftBehindInv, MountOutlives
  <2> QED
    BY <2>2, <2>3
<1>9. MountsOwned'
  BY <1>3, <1>4, <1>6 DEF LeftBehindInv, MountsOwned, Mounted
<1>10. OutputsHeld'
  BY <1>1, <1>2, <1>3 DEF LeftBehindInv, OutputsHeld
<1> QED
  BY <1>7, <1>8, <1>9, <1>10 DEF LeftBehindInv

LEMMA ClientPlayLeft ==
  ASSUME NativeInv, LeftBehindInv, NEW s \in Streams, ClientPlay(s)
  PROVE  LeftBehindInv'
<1> USE NullFacts
<1>1. PICK p \in Pipelines :
        /\ pipe'[p].kind = "media"
        /\ \A x \in Pipelines \ {p} : pipe'[x] = pipe[x]
        /\ \A x \in Streams : mounts'[x].gen = mounts[x].gen
        /\ \/ UNCHANGED <<ctx, lost>>
           \/ table[s] \in Contexts /\ MediaEffect(table[s], p)
  BY ClientPlayEffect
<1>2. table' = table /\ \A x \in Pipelines : Launching(x)' => Launching(x)
  BY <1>1, ClientPlayEffect DEF Launching
<1>3. CASE UNCHANGED <<ctx, lost>>
  BY <1>1, <1>2, <1>3, LeftStutter
<1>4. CASE table[s] \in Contexts /\ MediaEffect(table[s], p)
  <2>1. lost \subseteq lost' /\ ctx[table[s]].pipeline \in {NULL} \cup lost'
    BY <1>4 DEF MediaEffect, Dropped
  <2> QED
    BY <1>1, <1>2, <1>4, <2>1, LeftKept DEF MediaEffect
<1> QED
  BY <1>1, <1>3, <1>4

LEMMA SessionLeft ==
  ASSUME NativeInv, JavaTypeOK, LeftBehindInv,
         NEW a \in Apps, NEW s \in Streams, Session(a, s)
  PROVE  LeftBehindInv'
<1>c. \A k \in Kinds : codec[<<a, s>>][k] \in Codecs \cup {NULL}
  BY DEF JavaTypeOK, Sessions
<1>1. CASE UNCHANGED native
  BY <1>1, LeftStutter DEF native, Launching
<1>2. CASE JavaRegister(a, s)
  BY <1>2, RegisterStreamLeft DEF JavaRegister
<1>3. CASE JavaVideoInfo(a, s)
  BY <1>3, <1>c, SetStreamInfoLeft DEF JavaVideoInfo
<1>4. CASE JavaAudioInfo(a, s)
  BY <1>4, <1>c, SetStreamInfoLeft DEF JavaAudioInfo
<1>5. CASE JavaDefault(a, s)
  BY <1>1, <1>5, RegisterPipelineLeft DEF JavaDefault, CallDefaultPipeline
<1>6. CASE StreamFinished(a, s)
  BY <1>6, UnregisterLeft DEF StreamFinished
<1>7. ASSUME NEW k \in Kinds, Packet(a, s, k)
      PROVE  LeftBehindInv'
  BY <1>7, OnPacketEffect, LeftStutter DEF Packet, Launching
<1> QED
  BY <1>1, <1>2, <1>3, <1>4, <1>5, <1>6, <1>7
  DEF Session, StreamStarted, AddPacketListener

LEMMA NextLeft ==
  ASSUME NativeInv, JavaTypeOK, LeftBehindInv, [Next]_vars
  PROVE  LeftBehindInv'
<1>1. CASE \E a \in Apps, s \in Streams : Session(a, s)
  BY <1>1, SessionLeft
<1>2. CASE GetConfig \/ NewTable \/ GstInit \/ InitRtsp \/ UNCHANGED vars
  <2>1. UNCHANGED <<table, ctx, mounts, pipe, lost>>
    BY <1>2 DEF GetConfig, NewTable, GstInit, InitRtsp, InitStep, vars
  <2> QED
    BY <2>1, LeftStutter DEF Launching
<1>3. ASSUME NEW p \in Pipelines, ClientsLeave(p)
      PROVE  LeftBehindInv'
  <2>1. \A x \in Pipelines : Launching(x)' => Launching(x)
    BY <1>3, ClientsLeaveEffect DEF Launching
  <2> QED
    BY <1>3, <2>1, ClientsLeaveEffect, LeftStutter
<1>4. CASE \E s \in Streams : ClientPlay(s)
  BY <1>4, ClientPlayLeft
<1>5. CASE \E s \in Streams, type \in OutTypes : Rest(s, type)
  BY <1>5, RegisterPipelineLeft DEF Rest
<1> QED
  BY <1>1, <1>2, <1>3, <1>4, <1>5 DEF Next, Plugin

LEMMA LeftBehindHolds == Spec => []LeftBehindInv
<1>1. Init => LeftBehindInv
  BY DEF Init, LeftBehindInv, LeakOnlyLost, MountOutlives, MountsOwned, OutputsHeld,
         Mounted, FreePipeline, NoFactory
<1>2. NativeInv /\ JavaTypeOK /\ LeftBehindInv /\ [Next]_vars => LeftBehindInv'
  BY NextLeft
<1> QED
  BY <1>1, <1>2, Ownership_Invariant, PTL DEF Spec

(***************************************************************************)
(* A launched pipeline that plays is pointed to by a registered context,   *)
(* unless add_gstreamer_pipeline, media_configure or register_stream       *)
(* overwrote the pointer: unregister_stream itself leaves none behind.     *)
(***************************************************************************)
THEOREM LeaksOnlyLost == Spec => []LeakOnlyLost
<1>1. LeftBehindInv => LeakOnlyLost
  BY DEF LeftBehindInv
<1> QED
  BY <1>1, LeftBehindHolds, PTL

(***************************************************************************)
(* A mount point outlives its registration only if that never had an       *)
(* output, lost it to a failed launch, or was replaced in the table.       *)
(***************************************************************************)
THEOREM MountsOutlive == Spec => []MountOutlives
<1>1. LeftBehindInv => MountOutlives
  BY DEF LeftBehindInv
<1> QED
  BY <1>1, LeftBehindHolds, PTL
=============================================================================
