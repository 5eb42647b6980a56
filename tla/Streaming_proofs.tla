-------------------------- MODULE Streaming_proofs --------------------------
(***************************************************************************)
(* Proofs about Streaming, for every video, view, threshold and algorithm. *)
(***************************************************************************)
EXTENDS Streaming, Player_proofs, FiniteSetTheorems

\* An empty window of layers is no exception in what LayerMajor lists.
LEMMA LayerMajorIs ==
    ASSUME NEW T, NEW k, NEW v \in Seq(T), NEW lo \in Int, NEW hi \in Int
    PROVE  LayerMajor(k, v, lo, hi) =
             [i \in 1 .. Len(v) * (hi - lo + 1) |->
                StreamInfo(k, v[((i - 1) % Len(v)) + 1], lo + (i - 1) \div Len(v))]
<1>1. CASE hi < lo
  <2>1. Len(v) * (hi - lo + 1) <= 0
    BY <1>1
  <2>2. 1 .. Len(v) * (hi - lo + 1) = {}
    BY <2>1
  <2> QED
    BY <1>1, <2>2 DEF LayerMajor
<1>2. CASE ~(hi < lo)
  BY <1>2 DEF LayerMajor
<1> QED
  BY <1>1, <1>2

\* A finite set in the order of a sequence has all its elements.
LEMMA InOrderOfAll ==
    ASSUME NEW s, NEW S, NEW r \in InOrderOf(s, S), IsFiniteSet(S), NEW c \in S
    PROVE  \E j \in DOMAIN r : r[j] = c
<1> DEFINE D == 1 .. Cardinality(S)
<1>1. Cardinality(S) \in Nat
  BY FS_CardinalityType
<1>2. r \in [D -> S] /\ \A i, j \in D : i # j => r[i] # r[j]
  BY DEF InOrderOf, SetToSeqs
<1>3. r \in Injection(D, S)
  BY <1>2 DEF Injection, IsInjective
<1>4. Cardinality(D) = Cardinality(S)
  BY <1>1, FS_Interval
<1> HIDE DEF D
<1>5. r \in Surjection(D, S)
  BY <1>3, <1>4, FS_Injection
<1> QED
  BY <1>2, <1>5 DEF Surjection

\* A chunk of an enhancement layer of segment k.
ELChunk(k, top) == [sid : {k}, fid : Tiles, lid : 1 .. top]

\* What LayerMajor lists.
LEMMA LayerMajorType ==
    ASSUME NEW k, NEW v \in Seq(Tiles), NEW lo \in Nat \ {0}, NEW hi \in Nat
    PROVE  LayerMajor(k, v, lo, hi) \in Seq(ELChunk(k, hi))
<1> DEFINE d == Len(v) * (hi - lo + 1)
           f == LayerMajor(k, v, lo, hi)
<1>1. f = [i \in 1 .. d |-> StreamInfo(k, v[((i - 1) % Len(v)) + 1],
                                       lo + (i - 1) \div Len(v))]
  BY LayerMajorIs
<1>2. ASSUME NEW i \in 1 .. d PROVE f[i] \in ELChunk(k, hi)
  <2>1. /\ (i - 1) % Len(v) \in 0 .. Len(v) - 1
        /\ (i - 1) \div Len(v) \in 0 .. hi - lo
    BY RowOf
  <2>2. v[((i - 1) % Len(v)) + 1] \in Tiles
    BY <2>1
  <2>3. lo + (i - 1) \div Len(v) \in 1 .. hi
    BY <2>1
  <2> QED
    BY <1>1, <2>2, <2>3 DEF StreamInfo, ELChunk
<1>3. d \in Int
  OBVIOUS
<1>4. PICK n \in Nat : 1 .. d = 1 .. n
  BY <1>3, d >= 0 \/ 1 .. d = 1 .. 0
<1> QED
  BY <1>1, <1>2, <1>4, IsASeq

\* What TileMajor lists.
LEMMA TileMajorType ==
    ASSUME NEW k, NEW v \in Seq(Tiles), NEW l \in Nat
    PROVE  TileMajor(k, v, l) \in Seq(ELChunk(k, l))
<1> DEFINE d == Len(v) * l
           f == TileMajor(k, v, l)
<1>1. f = [i \in 1 .. d |-> StreamInfo(k, v[((i - 1) \div l) + 1],
                                          ((i - 1) % l) + 1)]
  BY DEF TileMajor
<1>2. ASSUME NEW i \in 1 .. d PROVE f[i] \in ELChunk(k, l)
  <2>1. Len(v) \in Nat /\ i \in 1 .. l * Len(v)
    OBVIOUS
  <2>2. /\ (i - 1) % l \in 0 .. l - 1
        /\ (i - 1) \div l \in 0 .. Len(v) - 1
    <3> DEFINE m == Len(v)
    <3>1. m \in Int /\ i \in 1 .. l * m
      BY <2>1
    <3> HIDE DEF m
    <3>2. (i - 1) % l \in 0 .. l - 1 /\ (i - 1) \div l \in 0 .. m - 1
      BY <3>1, RowOf
    <3> QED
      BY <3>2 DEF m
  <2>3. v[((i - 1) \div l) + 1] \in Tiles
    BY <2>2
  <2> QED
    BY <1>1, <2>2, <2>3 DEF StreamInfo, ELChunk
<1>3. d \in Nat
  OBVIOUS
<1> QED
  BY <1>1, <1>2, <1>3, IsASeq

\* A finite set in the order of a sequence is a sequence of its elements.
LEMMA InOrderOfType ==
    ASSUME NEW s, NEW S, NEW r \in InOrderOf(s, S), IsFiniteSet(S)
    PROVE  r \in Seq(S) /\ \A i, j \in DOMAIN r : r[i] = r[j] => i = j
<1>1. Cardinality(S) \in Nat
  BY FS_CardinalityType
<1>2. r \in [1 .. Cardinality(S) -> S]
  BY DEF InOrderOf, SetToSeqs
<1> QED
  BY <1>1, <1>2, SeqDef DEF InOrderOf, SetToSeqs

\* The elements of a sequence are finitely many, and elements of what the
\* sequence is over.
LEMMA ToSetType ==
    ASSUME NEW T, NEW s \in Seq(T)
    PROVE  ToSet(s) \in SUBSET T /\ IsFiniteSet(ToSet(s))
<1>1. ToSet(s) = {s[i] : i \in 1 .. Len(s)}
  BY DEF ToSet
<1>2. IsFiniteSet(1 .. Len(s))
  BY FS_Interval
<1> DEFINE f == [i \in 1 .. Len(s) |-> s[i]]
<1>3. f \in Surjection(1 .. Len(s), ToSet(s))
  BY <1>1 DEF Surjection
<1> QED
  BY <1>1, <1>2, <1>3, FS_Surjection

\* A prefix of a sequence over T is one, too.
LEMMA PrefixType ==
    ASSUME NEW T, NEW s \in Seq(T), NEW r \in Prefixes(s)
    PROVE  r \in Seq(T)
<1>1. PICK l \in 0 .. Len(s) : r = SubSeq(s, 1, l)
  BY DEF Prefixes
<1>2. /\ l \in Nat /\ l <= Len(s)
      /\ \A i \in 1 .. l : s[i] \in T
  BY <1>1
<1>3. r = [i \in 1 .. l |-> s[i]]
  BY <1>1, <1>2
<1> QED
  BY <1>2, <1>3, IsASeq

\* Whatever an algorithm offers is a list of layers of tiles of that segment.
LEMMA OffersType ==
    ASSUME NEW alg \in ALGS,
           EL_VER_NUM >= (IF alg \in {3, 4} THEN 2 ELSE 1),
           NEW k, NEW v \in Seq(Tiles), NEW adj \in Seq(Tiles),
           NEW r \in Offers(alg, k, v, adj, EL_VER_NUM)
    PROVE  r \in Seq(ELChunk(k, EL_VER_NUM))
<1> DEFINE top == EL_VER_NUM
<1>0. top \in Nat \ {0} /\ (alg \in {3, 4} => top >= 2)
  BY LayerAssumption
<1> HIDE DEF top
<1>1. ASSUME NEW w \in Seq(Tiles), NEW lo \in Nat \ {0}, NEW hi \in Nat, hi <= top
      PROVE  LayerMajor(k, w, lo, hi) \in Seq(ELChunk(k, top))
  <2>1. ELChunk(k, hi) \subseteq ELChunk(k, top)
    BY <1>0, <1>1 DEF ELChunk
  <2> QED
    BY <2>1, <1>1, LayerMajorType, SeqMonotonic
<1>2. CASE alg \in UniformLayers
  <2>1. PICK l \in 0 .. top : r = TileMajor(k, v, l)
    BY <1>2 DEF Offers, UniformLayers, top
  <2>2. ELChunk(k, l) \subseteq ELChunk(k, top)
    BY <1>0 DEF ELChunk
  <2> QED
    BY <1>0, <2>1, <2>2, TileMajorType, SeqMonotonic DEF top
<1>3. CASE alg = 4
  <2> DEFINE all == LayerMajor(k, v, 1, 2)
  <2>1. all \in Seq(ELChunk(k, top))
    BY <1>0, <1>1, <1>3 DEF top
  <2> HIDE DEF all
  <2>2. PICK f \in [ToSet(v) -> 0 .. 2] :
            r \in InOrderOf(all, {c \in ToSet(all) : c.lid <= f[c.fid]})
    <3>1. r \in UNION {Selected(k, v, f) : f \in [ToSet(v) -> 0 .. 2]}
      BY <1>3 DEF Offers, UniformLayers
    <3>2. PICK f \in [ToSet(v) -> 0 .. 2] : r \in Selected(k, v, f)
      BY <3>1
    <3> QED
      BY <3>2 DEF Selected, all
  <2> DEFINE S == {c \in ToSet(all) : c.lid <= f[c.fid]}
  <2>3. S \in SUBSET ELChunk(k, top) /\ IsFiniteSet(S)
    <3>1. S \in SUBSET ToSet(all)
      OBVIOUS
    <3> QED
      BY <2>1, <3>1, ToSetType, FS_Subset
  <2>4. r \in Seq(S)
    BY <2>2, <2>3, InOrderOfType
  <2> QED
    BY <2>3, <2>4, SeqMonotonic DEF top
<1>4. CASE alg \notin UniformLayers \cup {4}
  <2>1. PICK e \in {<<>>, adj}, lo \in {1} \cup 1 .. top, hi \in {top} \cup 1 .. top :
            r \in Prefixes(Candidates(alg, k, v, e, lo, hi, top))
    BY <1>4 DEF Offers, UniformLayers, top
  <2>2. e \in Seq(Tiles)
    BY EmptySeq
  <2>3. v \o e \in Seq(Tiles)
    BY <2>2, ConcatProperties
  <2>4. lo \in Nat \ {0} /\ hi \in Nat /\ hi <= top
    BY <1>0
  <2> DEFINE C == Candidates(alg, k, v, e, lo, hi, top)
  <2>5. C \in Seq(ELChunk(k, top))
    <3> USE DEF Candidates, ExtendFirst
    <3>1. LayerMajor(k, v, 1, top) \in Seq(ELChunk(k, top))
      BY <1>0, <1>1
    <3>2. CASE alg = 3
      <4>1. LayerMajor(k, v, 1, 2) \in Seq(ELChunk(k, top))
        BY <1>0, <1>1, <3>2
      <4> QED
        BY <4>1, <3>2
    <3>3. CASE alg = 5
      BY <3>1, <3>3
    <3>4. CASE alg = 9
      BY <1>1, <2>4, <3>4
    <3>5. CASE alg \in ExtendFirst
      <4>1. LayerMajor(k, e, 1, 1) \in Seq(ELChunk(k, top))
        BY <1>0, <1>1, <2>2
      <4> QED
        BY <3>1, <3>5, <4>1, ConcatProperties
    <3>6. CASE alg \in {7, 12}
      <4> DEFINE w == v \o e
      <4>1. w \in Seq(Tiles)
        BY <2>3
      <4> HIDE DEF w
      <4>2. LayerMajor(k, w, 1, top) \in Seq(ELChunk(k, top))
        BY <1>0, <1>1, <4>1
      <4>3. LayerMajor(k, v \o e, 1, top) \in Seq(ELChunk(k, top))
        BY <4>2 DEF w
      <4> QED
        BY <3>6, <4>3
    <3>7. CASE alg \in {10, 13}
      <4>1. LayerMajor(k, v \o e, lo, hi) \in Seq(ELChunk(k, top))
        BY <1>1, <2>3, <2>4
      <4> QED
        BY <3>7, <4>1
    <3> QED
      BY <1>4, <3>2, <3>3, <3>4, <3>5, <3>6, <3>7 DEF ALGS, UniformLayers
  <2> QED
    BY <2>1, <2>5, PrefixType DEF top
<1> QED
  BY <1>2, <1>3, <1>4
-----------------------------------------------------------------------------
(***************************************************************************)
(* The inductive invariant.                                                *)
(***************************************************************************)
\* The part of StreamingTypeOK about the variables of the network thread.
NetTypeOK ==
    /\ ALG \in Algs
    /\ netpc \in {"init", "decide", "low", "full", "base", "next", "head", "idle",
                 "close", "sleep", "stopped"}
    /\ INI_BUFFERING \in BOOLEAN
    /\ RE_BUFFERRING \in BOOLEAN
    /\ LAST_ITER_MASK \in {0, 1}
    /\ EL_seg_id \in 0 .. NO_SEG + 1
    /\ seg_EL_download \in SUBSET Segs
    /\ iter_req_stream \in Seq(Chunk)
    /\ iter_req_stream_fin \in SUBSET DOMAIN iter_req_stream
    /\ response_end \in SUBSET DOMAIN iter_req_stream
    /\ face_dow_data \in SUBSET DOMAIN iter_req_stream
    /\ closing \in SUBSET DOMAIN iter_req_stream
    /\ cancelled_request_stream \in SUBSET (Nat \ {0})
    /\ iter_tile_list \in SUBSET Tiles
    /\ iter_re_decide \in BOOLEAN
    /\ req_s_num \in Nat
    /\ fin_s_num \in Nat
    /\ resets \in 0 .. MaxResets

\* Between iterations nothing is left of the last one; an engine at work has
\* also zeroed the counter of its requests and forgotten the cancelled ones.
CleanSlate ==
    /\ ~InIteration => /\ iter_req_stream = <<>>
                       /\ iter_req_stream_fin = {}
                       /\ response_end = {}
                       /\ face_dow_data = {}
                       /\ closing = {}
    /\ netpc \in {"low", "full", "base", "next", "head", "sleep"} =>
                       /\ req_s_num = 0
                       /\ cancelled_request_stream = {}

\* The requests of an iteration: the next base layer, or enhancement layers of
\* tiles of one segment that was not enhanced before.
TheBase == <<StreamInfo(BL_seg_id, BASE, 0)>>

ELRequests ==
    /\ EL_seg_id \in Segs \ seg_EL_download
    /\ iter_req_stream \in Seq(ELChunk(EL_seg_id, EL_VER_NUM))

OneKind == InIteration => (BL_seg_id \in Segs /\ iter_req_stream = TheBase) \/ ELRequests

\* Only requests of this iteration are recorded as cancelled, and neither they
\* nor those being reset are base layers.
OnlyELCancelled ==
    InIteration => /\ cancelled_request_stream \subseteq Requested
                   /\ iter_req_stream = TheBase
                        => closing = {} /\ cancelled_request_stream = {}

\* A base layer that has ended does so at a moment the link allows.
EndAllowed == netpc = "close" /\ iter_req_stream = TheBase => LinkAllows

NetInv ==
    /\ NetTypeOK
    /\ IterationAccounting
    /\ CleanSlate
    /\ OneKind
    /\ OnlyELCancelled
    /\ EndAllowed

NInv == IInv /\ NetInv

\* A base layer request is not an enhancement layer.
LEMMA KindsDiffer ==
    ASSUME NEW k, NEW s \in Seq(ELChunk(k, EL_VER_NUM))
    PROVE  /\ \A i \in DOMAIN s : /\ s[i].sid = k
                                  /\ s[i].fid \in Tiles
                                  /\ s[i].lid \in Layers \ {0}
                                  /\ s[i].fid # BASE
           /\ s # TheBase
<1>1. \A i \in DOMAIN s : /\ s[i] \in ELChunk(k, EL_VER_NUM)
                          /\ s[i].sid = k
                          /\ s[i].fid \in Tiles
                          /\ s[i].lid \in 1 .. EL_VER_NUM
  <2>1. \A i \in DOMAIN s : s[i] \in ELChunk(k, EL_VER_NUM)
    OBVIOUS
  <2>2. \A c \in ELChunk(k, EL_VER_NUM) :
            c.sid = k /\ c.fid \in Tiles /\ c.lid \in 1 .. EL_VER_NUM
    BY DEF ELChunk
  <2> QED
    BY <2>1, <2>2
<1>2. \A i \in DOMAIN s : s[i].fid # BASE
  BY <1>1, ViewAssumption DEF BASE
<1>3. 1 \in DOMAIN TheBase /\ TheBase[1].fid = BASE
  BY DEF TheBase, StreamInfo
<1> QED
  BY <1>1, <1>2, <1>3, LayerAssumption DEF Layers

\* Both kinds of requests are lists of chunks.
LEMMA ChunkType ==
    ASSUME NEW k \in Segs
    PROVE  /\ <<StreamInfo(k, BASE, 0)>> \in Seq(Chunk)
           /\ ELChunk(k, EL_VER_NUM) \subseteq Chunk
BY LayerAssumption DEF Chunk, ELChunk, StreamInfo, Layers, BASE

\* The initial state is clean.
LEMMA InitNInv == Init => NInv
<1> SUFFICES ASSUME Init PROVE NInv
  OBVIOUS
<1>1. IInv
  BY InitIInv DEF Init
<1>2. NetTypeOK
  <2>1. iter_req_stream \in Seq(Chunk) /\ ALG \in Algs
    BY EmptySeq DEF Init
  <2>2. EL_seg_id \in 0 .. NO_SEG + 1 /\ resets \in 0 .. MaxResets
    BY ThresAssumption, SegAssumption DEF Init
  <2> QED
    BY <2>1, <2>2 DEF Init, NetTypeOK
<1>3. CleanSlate /\ ~InIteration
  BY DEF Init, CleanSlate, InIteration
<1>4. netpc # "close"
  BY DEF Init
<1> QED
  BY <1>1, <1>2, <1>3, <1>4 DEF NInv, NetInv, IterationAccounting, OneKind,
     OnlyELCancelled, EndAllowed
-----------------------------------------------------------------------------
(***************************************************************************)
(* Steps of the playback thread and of the clock.                          *)
(***************************************************************************)
\* A step that moves no base layer and leaves the network thread where it is.
LEMMA NetStutters ==
    ASSUME NetInv, UNCHANGED netVars, BL_seg_id' = BL_seg_id,
           netpc = "close" /\ LinkAllows => LinkAllows'
    PROVE  NetInv'
<1> USE DEF netVars, engineVars, iterVars
<1>1. NetTypeOK'
  BY DEF NetInv, NetTypeOK
<1>2. IterationAccounting' /\ CleanSlate'
  BY DEF NetInv, IterationAccounting, CleanSlate, InIteration
<1>3. OneKind' /\ OnlyELCancelled' /\ EndAllowed'
  BY DEF NetInv, OneKind, OnlyELCancelled, EndAllowed, InIteration, TheBase,
     ELRequests, Requested, StreamInfo
<1> QED
  BY <1>1, <1>2, <1>3 DEF NetInv

\* The playback thread never makes a link look too fast: it only starts to wait
\* with an empty buffer.
LEMMA LinkStaysAllowed ==
    ASSUME IInv, LinkAllows, PlayerStep
    PROVE  LinkAllows' /\ BL_seg_id' = BL_seg_id
<1> USE SegAssumption
    DEF LinkAllows, IInv, TypeOK, INITIAL_BUFFERING, PLAYING, RE_BUFFERING_STATE
<1>1. CASE PollStart \/ PollResume
  BY <1>1 DEF PollStart, PollResume, Poll, StartAt
<1>2. CASE Drain
  BY <1>2 DEF Drain
<1>3. CASE Advance \/ StartSegment
  BY <1>3 DEF Advance, StartSegment
<1>4. CASE CheckEmpty
  BY <1>4 DEF CheckEmpty
<1>5. CASE StartReport \/ Report
  BY <1>5 DEF StartReport, Report
<1> QED
  BY <1>1, <1>2, <1>3, <1>4, <1>5 DEF PlayerStep

LEMMA PlaybackNet ==
    ASSUME NInv, Playback
    PROVE  NetInv'
<1>1. BL_seg_id' = BL_seg_id
  BY DEF Playback, PlayerStep, PollStart, PollResume, Poll, Drain, Advance,
     StartSegment, CheckEmpty, StartReport, Report
<1> QED
  BY <1>1, LinkStaysAllowed, NetStutters DEF Playback, NInv

\* The clock only wakes the engine from its sleep.
LEMMA TimePassesNet ==
    ASSUME NInv, TimePasses
    PROVE  NetInv'
<1> USE DEF TimePasses, Tick, engineVars, iterVars, NInv, NetInv
<1>1. NetTypeOK'
  BY DEF NetTypeOK
<1>2. netpc' # "close" /\ (InIteration' <=> InIteration)
  BY DEF InIteration, Working
<1>3. IterationAccounting'
  BY <1>2 DEF IterationAccounting
<1>4. CleanSlate'
  BY <1>2 DEF CleanSlate
<1>5. OneKind' /\ OnlyELCancelled' /\ EndAllowed'
  BY <1>2 DEF OneKind, OnlyELCancelled, EndAllowed, TheBase, ELRequests,
     Requested, StreamInfo
<1> QED
  BY <1>1, <1>3, <1>4, <1>5
-----------------------------------------------------------------------------
(***************************************************************************)
(* Steps of the engines.                                                   *)
(***************************************************************************)
\* A look at the buffer: whatever it finds, nothing is requested by it.
LEMMA LookNet ==
    ASSUME NInv,
           \/ StartAdaptation \/ StartIteration \/ DetectLowBuffer
           \/ DetectRecovery \/ CheckLastSegment
    PROVE  NetInv'
<1> USE DEF NInv, NetInv, engineVars, iterVars, StartAdaptation, StartIteration,
            DetectLowBuffer, DetectRecovery, CheckLastSegment
<1>1. NetTypeOK'
  <2> USE DEF NetTypeOK
  <2>1. CASE StartAdaptation
    BY <2>1
  <2>2. CASE StartIteration
    BY <2>2
  <2>3. CASE DetectLowBuffer
    BY <2>3
  <2>4. CASE DetectRecovery
    BY <2>4
  <2>5. CASE CheckLastSegment
    BY <2>5
  <2> QED
    BY <2>1, <2>2, <2>3, <2>4, <2>5
<1>2. ~InIteration /\ ~InIteration'
  BY DEF InIteration
<1>3. CleanSlate'
  BY <1>2 DEF CleanSlate
<1>4. netpc' # "close"
  OBVIOUS
<1> QED
  BY <1>1, <1>2, <1>3, <1>4 DEF IterationAccounting, OneKind, OnlyELCancelled,
     EndAllowed

\* An iteration that begins with the next base layer.
LEMMA BaseIteration ==
    ASSUME NInv, netpc \notin {"idle", "close"}, netpc' = "idle",
           BL_seg_id < NO_SEG, BL_seg_id' = BL_seg_id,
           iter_req_stream' = TheBase, req_s_num' = 1, fin_s_num' = 0,
           cancelled_request_stream' = {}, LAST_ITER_MASK' \in {0, 1},
           UNCHANGED <<ALG, INI_BUFFERING, RE_BUFFERRING, EL_seg_id,
                       seg_EL_download, iter_req_stream_fin, response_end,
                       face_dow_data, closing, iter_tile_list, iter_re_decide,
                       resets>>
    PROVE  NetInv'
<1> USE DEF NInv, NetInv
<1>1. BL_seg_id \in Segs
  BY SegAssumption DEF IInv, TypeOK, Segs
<1>2. ~InIteration /\ InIteration'
  BY DEF InIteration
<1>3. /\ iter_req_stream_fin' = {} /\ response_end' = {}
      /\ face_dow_data' = {} /\ closing' = {}
  BY <1>2 DEF CleanSlate
<1>4. iter_req_stream' \in Seq(Chunk) /\ Len(iter_req_stream') = 1
  BY <1>1, ChunkType DEF TheBase
<1>5. NetTypeOK'
  BY <1>3, <1>4 DEF NetTypeOK
<1>6. Cardinality(iter_req_stream_fin') = 0
  BY <1>3, FS_EmptySet
<1>7. IterationAccounting'
  BY <1>4, <1>6 DEF IterationAccounting
<1>8. CleanSlate'
  BY <1>2 DEF CleanSlate
<1>9. OneKind'
  BY <1>1 DEF OneKind, TheBase, StreamInfo
<1>10. OnlyELCancelled' /\ EndAllowed'
  BY <1>3 DEF OnlyELCancelled, EndAllowed
<1> QED
  BY <1>5, <1>7, <1>8, <1>9, <1>10

LEMMA DecideBaseNet ==
    ASSUME NInv, DecideBase
    PROVE  NetInv'
<1>1. CASE WantsBase
  <2>1. cancelled_request_stream = {}
    BY DEF DecideBase, NInv, NetInv, CleanSlate
  <2> QED
    BY <1>1, <2>1, BaseIteration DEF DecideBase, WantsBase, TheBase, playerVars
<1>2. CASE ~WantsBase
  <2> USE <1>2 DEF DecideBase, NInv, NetInv, playerVars
  <2>1. NetTypeOK'
    BY DEF NetTypeOK
  <2>2. ~InIteration /\ ~InIteration' /\ netpc' # "close"
    BY DEF InIteration
  <2>3. CleanSlate'
    BY <2>2 DEF CleanSlate
  <2> QED
    BY <2>1, <2>2, <2>3 DEF IterationAccounting, OneKind, OnlyELCancelled,
       EndAllowed
<1> QED
  BY <1>1, <1>2

LEMMA StartIteration2017Net ==
    ASSUME NInv, StartIteration2017
    PROVE  NetInv'
<1> DEFINE Wants == BL_seg_id < NO_SEG /\ base_layer_buff_sec < Threshold - SD
<1>1. CASE Wants
  <2>1. LAST_ITER_MASK' \in {0, 1}
    BY DEF StartIteration2017, engineVars, NInv, NetInv, NetTypeOK
  <2> QED
    BY <1>1, <2>1, BaseIteration
    DEF StartIteration2017, TheBase, playerVars, engineVars
<1>2. CASE ~Wants
  <2> USE <1>2 DEF StartIteration2017, NInv, NetInv, playerVars, engineVars
  <2>1. NetTypeOK'
    BY DEF NetTypeOK
  <2>2. ~InIteration /\ ~InIteration' /\ netpc' # "close"
    BY DEF InIteration
  <2>3. CleanSlate'
    BY <2>2 DEF CleanSlate
  <2> QED
    BY <2>1, <2>2, <2>3 DEF IterationAccounting, OneKind, OnlyELCancelled,
       EndAllowed
<1> QED
  BY <1>1, <1>2

\* A view, the tiles next to it, and what is requested and recorded for it.
LEMMA RequestType ==
    ASSUME NEW alg \in Algs, NEW k \in Segs, NEW v \in Views,
           NEW r \in Offers(alg, k, v, Adjacent[v], EL_VER_NUM)
    PROVE  /\ r \in Seq(ELChunk(k, EL_VER_NUM))
           /\ Recorded(alg, v, r) \in SUBSET Tiles
<1>1. v \in Seq(Tiles) /\ Adjacent[v] \in Seq(Tiles)
  BY ViewAssumption
<1>2. alg \in ALGS /\ EL_VER_NUM >= (IF alg \in {3, 4} THEN 2 ELSE 1)
  BY AlgAssumption
<1>3. r \in Seq(ELChunk(k, EL_VER_NUM))
  BY <1>1, <1>2, OffersType
<1>4. {r[i].fid : i \in DOMAIN r} \subseteq Tiles
  BY <1>3, KindsDiffer
<1> QED
  BY <1>1, <1>3, <1>4, ToSetType DEF Recorded

LEMMA DecideEnhancementNet ==
    ASSUME NInv, DecideEnhancement
    PROVE  NetInv'
<1> USE DEF NInv, NetInv
<1>1. /\ EL_seg_id' = playing_seg_id + 1 /\ EL_seg_id' \in 0 .. NO_SEG + 1
      /\ BL_seg_id' = BL_seg_id
  BY SegAssumption DEF DecideEnhancement, playerVars, IInv, TypeOK
<1>2. /\ ~InIteration /\ netpc = "head"
      /\ req_s_num = 0 /\ cancelled_request_stream = {}
      /\ iter_req_stream = <<>> /\ iter_req_stream_fin = {} /\ response_end = {}
      /\ face_dow_data = {} /\ closing = {}
  BY DEF DecideEnhancement, InIteration, CleanSlate
<1>3. CASE HeadNeeds(EL_seg_id')
  <2>1. EL_seg_id' \in Segs \ seg_EL_download'
    BY <1>1, <1>3, SegAssumption DEF HeadNeeds, Segs, DecideEnhancement
  <2>2. PICK v \in Views : RequestLayers(v)
    BY <1>3 DEF DecideEnhancement
  <2>3. PICK r \in Offers(ALG, EL_seg_id', v, Adjacent[v], EL_VER_NUM) :
            /\ iter_req_stream' = r
            /\ req_s_num' = Len(r)
            /\ iter_tile_list' = iter_tile_list \cup Recorded(ALG, v, r)
            /\ fin_s_num' = IF ALG \in UniformLayers /\ r = <<>>
                            THEN fin_s_num ELSE 0
    BY <2>2 DEF RequestLayers
  <2>4. /\ r \in Seq(ELChunk(EL_seg_id', EL_VER_NUM))
        /\ Recorded(ALG, v, r) \in SUBSET Tiles
    BY <2>1, <2>3, RequestType DEF NetTypeOK
  <2>5. r \in Seq(Chunk)
    BY <2>1, <2>4, ChunkType, SeqMonotonic
  <2>6. Len(r) \in Nat /\ (Len(r) = 0 => r = <<>>)
    BY <2>4, EmptySeq
  <2>7. LAST_ITER_MASK' \in {0, 1}
    BY <1>3 DEF DecideEnhancement, NetTypeOK
  <2>8. NetTypeOK'
    <3>1. iter_req_stream' \in Seq(Chunk) /\ iter_tile_list' \in SUBSET Tiles
      BY <2>3, <2>4, <2>5 DEF NetTypeOK
    <3>2. req_s_num' \in Nat /\ fin_s_num' \in Nat
      BY <2>3, <2>6 DEF NetTypeOK
    <3>3. netpc' \in {"idle", "sleep"}
      BY DEF DecideEnhancement
    <3> QED
      BY <1>1, <1>2, <2>7, <3>1, <3>2, <3>3 DEF DecideEnhancement, NetTypeOK
  <2>9. CASE r = <<>>
    <3>1. netpc' = "sleep" /\ req_s_num' = 0 /\ iter_req_stream' = <<>>
      BY <2>3, <2>9 DEF DecideEnhancement
    <3>2. CleanSlate' /\ ~InIteration' /\ netpc' # "close"
      BY <1>2, <3>1 DEF DecideEnhancement, CleanSlate, InIteration
    <3> QED
      BY <2>8, <3>2 DEF IterationAccounting, OneKind, OnlyELCancelled, EndAllowed
  <2>10. CASE r # <<>>
    <3>1. /\ netpc' = "idle" /\ req_s_num' = Len(iter_req_stream')
          /\ fin_s_num' = 0 /\ req_s_num' > 0
      BY <2>3, <2>6, <2>10 DEF DecideEnhancement
    <3>2. iter_req_stream_fin' = {} /\ Cardinality(iter_req_stream_fin') = 0
      BY <1>2, FS_EmptySet DEF DecideEnhancement
    <3>3. IterationAccounting'
      BY <3>1, <3>2 DEF IterationAccounting
    <3>4. CleanSlate' /\ EndAllowed'
      BY <3>1 DEF CleanSlate, EndAllowed, InIteration
    <3>5. OneKind'
      BY <2>1, <2>3, <2>4 DEF OneKind, ELRequests
    <3>6. OnlyELCancelled'
      BY <1>2 DEF OnlyELCancelled, DecideEnhancement
    <3> QED
      BY <2>8, <3>3, <3>4, <3>5, <3>6
  <2> QED
    BY <2>9, <2>10
<1>4. CASE ~HeadNeeds(EL_seg_id')
  <2>1. netpc' = "sleep" /\ ~InIteration'
    BY <1>2, <1>4 DEF DecideEnhancement, InIteration
  <2>2. NetTypeOK'
    BY <1>1, <1>4 DEF DecideEnhancement, NetTypeOK
  <2>3. CleanSlate'
    BY <1>2, <1>4, <2>1 DEF DecideEnhancement, CleanSlate
  <2> QED
    BY <2>1, <2>2, <2>3 DEF IterationAccounting, OneKind, OnlyELCancelled,
       EndAllowed
<1> QED
  BY <1>3, <1>4

LEMMA DecideNet ==
    ASSUME NInv, Decide
    PROVE  NetInv'
BY LookNet, DecideBaseNet, StartIteration2017Net, DecideEnhancementNet DEF Decide
-----------------------------------------------------------------------------
(***************************************************************************)
(* Steps of the callbacks.                                                 *)
(***************************************************************************)
\* The tiles that are new in view.
LEMMA NewTilesType ==
    ASSUME NEW v \in Views, NEW new \in NewTiles(v)
    PROVE  /\ new \in Seq(Tiles)
           /\ ToSet(new) \in SUBSET Tiles
<1>1. v \in Seq(Tiles)
  BY ViewAssumption
<1>2. ToSet(v) \in SUBSET Tiles /\ IsFiniteSet(ToSet(v))
  BY <1>1, ToSetType
<1> DEFINE S == ToSet(v) \ iter_tile_list
<1>3. S \in SUBSET Tiles /\ IsFiniteSet(S)
  BY <1>2, FS_Subset
<1>4. new \in InOrderOf(v, S)
  BY DEF NewTiles
<1> HIDE DEF S
<1>5. new \in Seq(S)
  BY <1>3, <1>4, InOrderOfType
<1> QED
  BY <1>3, <1>5, SeqMonotonic, ToSetType

\* A re-decision adds enhancement layers of the segment of the iteration.
LEMMA RedecideType ==
    ASSUME NInv, ELRequests, NEW v \in Views, NEW l \in 0 .. EL_VER_NUM,
           Redecide(v, l), fin_s_num' = fin_s_num, EL_seg_id' = EL_seg_id
    PROVE  /\ iter_req_stream' \in Seq(ELChunk(EL_seg_id, EL_VER_NUM))
           /\ req_s_num' - req_s_num = Len(iter_req_stream') - Len(iter_req_stream)
           /\ Len(iter_req_stream) <= Len(iter_req_stream')
           /\ req_s_num' \in Nat
           /\ closing' \in SUBSET Requested
           /\ iter_tile_list' \in SUBSET Tiles
           /\ iter_re_decide' \in BOOLEAN
           /\ cancelled_request_stream' = cancelled_request_stream
<1> USE DEF NInv, NetInv, NetTypeOK
<1>1. PICK new \in NewTiles(v) :
          /\ iter_re_decide' = TRUE
          /\ closing' \in SUBSET (closing \cup Requested)
          /\ iter_req_stream' = iter_req_stream \o TileMajor(EL_seg_id, new, l)
          /\ req_s_num' = req_s_num + Len(TileMajor(EL_seg_id, new, l))
          /\ iter_tile_list' \in SUBSET (iter_tile_list \cup ToSet(new))
          /\ cancelled_request_stream' = cancelled_request_stream
  BY DEF Redecide, Stale, Unfinished
<1>2. new \in Seq(Tiles) /\ ToSet(new) \in SUBSET Tiles
  BY NewTilesType
<1> DEFINE more == TileMajor(EL_seg_id, new, l)
<1>3. more \in Seq(ELChunk(EL_seg_id, l))
  BY <1>2, LayerAssumption, TileMajorType
<1>4. ELChunk(EL_seg_id, l) \subseteq ELChunk(EL_seg_id, EL_VER_NUM)
  BY LayerAssumption DEF ELChunk
<1>5. more \in Seq(ELChunk(EL_seg_id, EL_VER_NUM))
  BY <1>3, <1>4, SeqMonotonic
<1>6. /\ iter_req_stream' = iter_req_stream \o more
      /\ req_s_num' = req_s_num + Len(more)
  BY <1>1
<1> HIDE DEF more
<1>7. /\ iter_req_stream \o more \in Seq(ELChunk(EL_seg_id, EL_VER_NUM))
      /\ Len(iter_req_stream \o more) = Len(iter_req_stream) + Len(more)
  BY <1>5, ConcatProperties DEF ELRequests
<1>8. Len(more) \in Nat /\ Len(iter_req_stream) \in Nat
  BY <1>5 DEF ELRequests
<1>9. closing' \in SUBSET Requested
  BY <1>1 DEF Requested
<1> QED
  BY <1>1, <1>2, <1>6, <1>7, <1>8, <1>9

\* A DATA frame ends no iteration, and cancels nothing of a base layer.
LEMMA OnDataNet ==
    ASSUME NInv, NEW i \in Requested, NEW end \in BOOLEAN, OnData(i, end)
    PROVE  NetInv'
<1> USE DEF NInv, NetInv
<1>1. /\ InIteration /\ InIteration' /\ netpc = "idle"
      /\ netpc' = IF end THEN "close" ELSE "idle"
      /\ i \in Requested \ iter_req_stream_fin
      /\ face_dow_data' = face_dow_data \cup {i}
      /\ response_end' \in SUBSET (response_end \cup {i})
      /\ UNCHANGED <<ALG, INI_BUFFERING, RE_BUFFERRING, LAST_ITER_MASK, EL_seg_id,
                     seg_EL_download, iter_req_stream_fin, fin_s_num, resets>>
      /\ BL_seg_id' = BL_seg_id
      /\ end /\ iter_req_stream[i].fid = BASE => LinkAllows'
  BY DEF OnData, Receiving, Unfinished, InIteration, engineVars, playerVars,
     LinkAllows
<1>2. CleanSlate'
  BY <1>1 DEF CleanSlate
<1>3. CASE KeepIteration
  <2> USE <1>3 DEF KeepIteration
  <2>1. NetTypeOK'
    BY <1>1 DEF NetTypeOK, Requested
  <2>2. IterationAccounting'
    BY <1>1 DEF IterationAccounting
  <2>3. OneKind' /\ OnlyELCancelled'
    BY <1>1 DEF OneKind, OnlyELCancelled, ELRequests, TheBase, StreamInfo, Requested
  <2>4. EndAllowed'
    <3> SUFFICES ASSUME netpc' = "close", iter_req_stream = TheBase
                 PROVE  LinkAllows'
      BY <1>1 DEF EndAllowed, TheBase, StreamInfo
    <3>1. i = 1 /\ TheBase[1].fid = BASE
      BY DEF TheBase, StreamInfo, Requested
    <3> QED
      BY <1>1, <3>1
  <2> QED
    BY <1>2, <2>1, <2>2, <2>3, <2>4
<1>4. CASE ~KeepIteration
  <2>1. ELRequests
    <3>1. iter_req_stream[i].fid # BASE
      BY <1>4 DEF OnData
    <3>2. TheBase[1].fid = BASE /\ DOMAIN TheBase = {1}
      BY DEF TheBase, StreamInfo
    <3> QED
      BY <1>1, <3>1, <3>2 DEF OneKind, Requested
  <2>2. iter_req_stream # TheBase /\ iter_req_stream \in Seq(Chunk)
    BY <2>1, KindsDiffer DEF ELRequests, NetTypeOK
  <2>3. CASE CancelIteration
    <3> USE <2>3 DEF CancelIteration
    <3>1. NetTypeOK'
      <4>1. DOMAIN iter_req_stream \subseteq Nat \ {0}
        BY <2>2
      <4>2. /\ cancelled_request_stream' \in SUBSET (Nat \ {0})
            /\ closing' \in SUBSET DOMAIN iter_req_stream
        BY <4>1 DEF NetTypeOK, Requested, Unfinished
      <4> QED
        BY <1>1, <4>2 DEF NetTypeOK, Requested
    <3>2. IterationAccounting'
      BY <1>1 DEF IterationAccounting
    <3>3. OneKind' /\ iter_req_stream' # TheBase'
      BY <1>1, <2>1, <2>2 DEF OneKind, ELRequests, TheBase, StreamInfo
    <3>4. OnlyELCancelled' /\ EndAllowed'
      BY <1>1, <3>3 DEF OnlyELCancelled, EndAllowed, Requested, Unfinished
    <3> QED
      BY <1>2, <3>1, <3>2, <3>3, <3>4
  <2>4. CASE \E v \in Views, l \in 0 .. EL_VER_NUM : Redecide(v, l)
    <3>1. PICK v \in Views, l \in 0 .. EL_VER_NUM : Redecide(v, l)
      BY <2>4
    <3>2. /\ iter_req_stream' \in Seq(ELChunk(EL_seg_id, EL_VER_NUM))
          /\ req_s_num' - req_s_num = Len(iter_req_stream') - Len(iter_req_stream)
          /\ Len(iter_req_stream) <= Len(iter_req_stream')
          /\ req_s_num' \in Nat
          /\ closing' \in SUBSET Requested
          /\ iter_tile_list' \in SUBSET Tiles
          /\ iter_re_decide' \in BOOLEAN
          /\ cancelled_request_stream' = cancelled_request_stream
      BY <1>1, <2>1, <3>1, RedecideType
    <3>3. Requested \subseteq Requested' /\ iter_req_stream' \in Seq(Chunk)
      <4>1. ELChunk(EL_seg_id, EL_VER_NUM) \subseteq Chunk
        BY <2>1, ChunkType DEF ELRequests
      <4>2. Requested = 1 .. Len(iter_req_stream)
        BY <2>2 DEF Requested
      <4>3. Requested' = 1 .. Len(iter_req_stream')
        BY <3>2 DEF Requested
      <4>4. Len(iter_req_stream) \in Nat /\ Len(iter_req_stream') \in Nat
        BY <2>2, <3>2
      <4> QED
        BY <3>2, <4>1, <4>2, <4>3, <4>4, SeqMonotonic
    <3>4. NetTypeOK'
      BY <1>1, <3>2, <3>3 DEF NetTypeOK, Requested
    <3>5. IterationAccounting'
      BY <1>1, <2>2, <3>2, <3>3 DEF IterationAccounting, NetTypeOK
    <3>6. OneKind' /\ iter_req_stream' # TheBase'
      <4>1. iter_req_stream' # TheBase
        BY <3>2, KindsDiffer
      <4> QED
        BY <1>1, <2>1, <3>2, <4>1 DEF OneKind, ELRequests, TheBase, StreamInfo
    <3>7. OnlyELCancelled' /\ EndAllowed'
      BY <1>1, <3>2, <3>3, <3>6 DEF OnlyELCancelled, EndAllowed
    <3> QED
      BY <1>2, <3>4, <3>5, <3>6, <3>7
  <2> QED
    BY <1>4, <2>3, <2>4 DEF OnData
<1> QED
  BY <1>3, <1>4

\* The other frames only change what is known of stream i.
LEMMA OtherFrames ==
    ASSUME NEW i \in Requested, OnHeadersEnd(i) \/ OnPushPromise(i)
    PROVE  /\ InIteration /\ InIteration' /\ netpc = "idle"
           /\ i \in Requested \ iter_req_stream_fin
           /\ face_dow_data' \in SUBSET face_dow_data
           /\ response_end' \in SUBSET (response_end \cup {i})
           /\ netpc' \in {"idle", "close"}
           /\ netpc' = "close" /\ iter_req_stream[i].fid = BASE => LinkAllows'
           /\ KeepIteration
           /\ UNCHANGED <<playerVars, ALG, INI_BUFFERING, RE_BUFFERRING,
                          LAST_ITER_MASK, EL_seg_id, seg_EL_download,
                          iter_req_stream_fin, fin_s_num, resets>>
BY DEF OnHeadersEnd, OnPushPromise, Receiving, Unfinished, InIteration,
   engineVars, playerVars, LinkAllows

LEMMA OtherFramesNet ==
    ASSUME NInv, NEW i \in Requested, OnHeadersEnd(i) \/ OnPushPromise(i)
    PROVE  NetInv'
<1> USE DEF NInv, NetInv, KeepIteration, playerVars
<1>1. NetTypeOK'
  BY OtherFrames DEF NetTypeOK, Requested
<1>2. IterationAccounting'
  BY OtherFrames DEF IterationAccounting
<1>3. CleanSlate'
  BY OtherFrames DEF CleanSlate
<1>4. OneKind' /\ OnlyELCancelled'
  BY OtherFrames DEF OneKind, OnlyELCancelled, ELRequests, TheBase, StreamInfo, Requested
<1>5. EndAllowed'
  <2> SUFFICES ASSUME netpc' = "close", iter_req_stream = TheBase
               PROVE  LinkAllows'
    BY OtherFrames DEF EndAllowed, TheBase, StreamInfo
  <2>1. i = 1 /\ TheBase[1].fid = BASE
    BY DEF TheBase, StreamInfo, Requested
  <2> QED
    BY OtherFrames, <2>1
<1> QED
  BY <1>1, <1>2, <1>3, <1>4, <1>5

\* What a closing stream does to the bookkeeping of the network thread.
LEMMA StreamCloseNet ==
    ASSUME NInv, InIteration, NEW i \in Requested \ iter_req_stream_fin,
           OnStreamClose(i), resets' \in 0 .. MaxResets
    PROVE  NetInv'
<1> USE DEF NInv, NetInv
<1> DEFINE c == iter_req_stream[i]
<1>1. /\ fin_s_num' = fin_s_num + 1
      /\ UNCHANGED <<ALG, INI_BUFFERING, RE_BUFFERRING, LAST_ITER_MASK,
                     EL_seg_id, cancelled_request_stream, req_s_num>>
      /\ fin_s_num' \in Nat
  BY DEF OnStreamClose, NetTypeOK
<1>2. c \in Chunk /\ c.sid \in Segs
  <2>1. \A d \in Chunk : d.sid \in Segs
    BY DEF Chunk
  <2>2. c \in Chunk
    BY DEF NetTypeOK, Requested
  <2> QED
    BY <2>1, <2>2
<1>3. CASE fin_s_num' = req_s_num
  <2>1. EndIteration(c)
    BY <1>3 DEF OnStreamClose
  <2> USE DEF EndIteration
  <2>2. seg_EL_download' \in SUBSET Segs
    BY <1>2, <2>1 DEF NetTypeOK
  <2>3. NetTypeOK'
    <3>1. iter_req_stream' \in Seq(Chunk)
      BY <2>1, EmptySeq
    <3> QED
      BY <1>1, <2>1, <2>2, <3>1 DEF NetTypeOK
  <2>4. ~InIteration' /\ netpc' = "decide"
    BY <2>1 DEF InIteration
  <2>5. CleanSlate'
    BY <2>1, <2>4 DEF CleanSlate
  <2> QED
    BY <2>3, <2>4, <2>5 DEF IterationAccounting, OneKind, OnlyELCancelled,
       EndAllowed
<1>4. CASE fin_s_num' # req_s_num
  <2>1. ContinueIteration(i)
    BY <1>4 DEF OnStreamClose
  <2> USE DEF ContinueIteration
  <2>2. NetTypeOK'
    BY <1>1, <2>1 DEF NetTypeOK, Requested
  <2>3. IsFiniteSet(iter_req_stream_fin)
    <3>1. IsFiniteSet(1 .. Len(iter_req_stream))
      BY FS_Interval DEF NetTypeOK
    <3>2. iter_req_stream_fin \subseteq 1 .. Len(iter_req_stream)
      BY DEF NetTypeOK
    <3> QED
      BY <3>1, <3>2, FS_Subset
  <2>4. Cardinality(iter_req_stream_fin') = Cardinality(iter_req_stream_fin) + 1
    BY <2>1, <2>3, FS_AddElement
  <2>5. IterationAccounting'
    BY <1>1, <1>4, <2>1, <2>4 DEF IterationAccounting, NetTypeOK
  <2>6. CleanSlate' /\ EndAllowed'
    BY <2>1 DEF CleanSlate, EndAllowed, InIteration
  <2>7. OneKind' /\ OnlyELCancelled'
    BY <1>1, <2>1 DEF OneKind, OnlyELCancelled, ELRequests, TheBase, StreamInfo,
       Requested
  <2> QED
    BY <2>2, <2>5, <2>6, <2>7
<1> QED
  BY <1>3, <1>4

\* A closing stream is one of the three: ended, reset by the client, or reset
\* by the server.  A base layer only closes when the link allows.
LEMMA ClosingStream ==
    ASSUME NInv, NEW i \in Requested,
           CloseEnded(i) \/ CloseReset(i) \/ ServerReset(i)
    PROVE  /\ InIteration /\ pc # "exit"
           /\ i \in Requested \ iter_req_stream_fin
           /\ OnStreamClose(i)
           /\ resets' \in 0 .. MaxResets
           /\ iter_req_stream = TheBase => LinkAllows /\ cancelled_request_stream = {}
<1> USE DEF NInv, NetInv
<1>1. resets' \in 0 .. MaxResets
  BY ThresAssumption DEF CloseEnded, CloseReset, ServerReset, NetTypeOK
<1>2. /\ InIteration /\ pc # "exit" /\ OnStreamClose(i)
      /\ i \in Requested \ iter_req_stream_fin
  BY DEF CloseEnded, CloseReset, ServerReset, InIteration, Receiving, Unfinished
<1>3. ASSUME iter_req_stream = TheBase
      PROVE  LinkAllows /\ cancelled_request_stream = {}
  <2>1. cancelled_request_stream = {} /\ closing = {}
    BY <1>2, <1>3 DEF OnlyELCancelled
  <2>2. CASE CloseEnded(i)
    BY <1>3, <2>1, <2>2 DEF CloseEnded, EndAllowed
  <2>3. CASE CloseReset(i)
    BY <2>1, <2>3 DEF CloseReset
  <2>4. CASE ServerReset(i)
    <3>1. i = 1 /\ TheBase[1].fid = BASE
      BY <1>3 DEF TheBase, StreamInfo, Requested
    <3> QED
      BY <1>3, <2>1, <2>4, <3>1 DEF ServerReset
  <2> QED
    BY <2>2, <2>3, <2>4
<1> QED
  BY <1>1, <1>2, <1>3
-----------------------------------------------------------------------------
(***************************************************************************)
(* The engine is a correct environment of the playback thread.             *)
(***************************************************************************)
\* A comparison with a deadline has an outcome.
LEMMA DeadlineOutcome ==
    ASSUME NEW k, NEW late \in DeadlinePassed(k)
    PROVE  late \in BOOLEAN
<1>1. CASE clock = Unset
  BY <1>1 DEF DeadlinePassed
<1>2. CASE clock # Unset
  <2>1. late = (clock >= k * SD)
    BY <1>2 DEF DeadlinePassed
  <2> QED
    BY <2>1
<1> QED
  BY <1>1, <1>2

LEMMA LateOutcome ==
    ASSUME NEW i, NEW late \in Late(i)
    PROVE  late = FALSE \/ (late = TRUE /\ late \in DeadlinePassed(iter_req_stream[i].sid))
<1>1. late = FALSE \/ late \in DeadlinePassed(iter_req_stream[i].sid)
  BY DEF Late
<1> QED
  BY <1>1, DeadlineOutcome

\* Marking what has arrived, as the player sees it: the next base layer, or a
\* layer of a tile, or nothing at all.
LEMMA StreamClosePlayer ==
    ASSUME NInv, InIteration, pc # "exit",
           NEW i \in Requested \ iter_req_stream_fin, OnStreamClose(i),
           iter_req_stream = TheBase => LinkAllows /\ cancelled_request_stream = {}
    PROVE  [PlayerNext]_playerVars
<1> USE DEF NInv, NetInv
<1> DEFINE c == iter_req_stream[i]
<1>1. PICK late \in Late(i) : MarkLayer(c, late, i \in cancelled_request_stream)
  BY DEF OnStreamClose
<1>2. late = FALSE \/ (late = TRUE /\ TRUE \in DeadlinePassed(c.sid))
  BY LateOutcome
<1>3. UNCHANGED <<state, pc, played_sec, playing_seg_id, seg_tile_version, clock>>
  BY DEF OnStreamClose
<1>4. CASE iter_req_stream = TheBase
  <2>1. /\ BL_seg_id \in Segs
        /\ i = 1 /\ c = StreamInfo(BL_seg_id, BASE, 0)
        /\ c.sid = BL_seg_id /\ c.fid = BASE
        /\ Len(iter_req_stream) = 1
    <3>1. ~ELRequests
      BY <1>4, KindsDiffer DEF ELRequests
    <3> QED
      BY <1>4, <3>1 DEF OneKind, TheBase, StreamInfo, Requested
  <2>2. LinkAllows /\ i \notin cancelled_request_stream
    BY <1>4
  <2>3. fin_s_num' = req_s_num
    BY <2>1 DEF OnStreamClose, IterationAccounting, NetTypeOK
  <2>4. EndIteration(c)
    BY <2>3 DEF OnStreamClose
  <2>5. /\ base_layer_buff_sec' = base_layer_buff_sec + SD
        /\ BL_seg_id' = BL_seg_id + 1
    BY <2>1, <2>4 DEF EndIteration
  <2>6. tile_ver' = IF late THEN tile_ver ELSE WithBase(BL_seg_id)
    <3>1. CASE late = FALSE
      BY <1>1, <2>1, <2>2, <3>1 DEF MarkLayer
    <3>2. CASE late = TRUE
      BY <1>1, <2>1, <2>2, <3>2 DEF MarkLayer
    <3> QED
      BY <1>2, <3>1, <3>2
  <2>7. BaseLayerArrives(late)
    <3>1. late => TRUE \in DeadlinePassed(BL_seg_id)
      BY <1>2, <2>1
    <3>2. BL_seg_id < NO_SEG
      BY <2>1, SegAssumption DEF Segs
    <3> QED
      BY <1>3, <2>2, <2>5, <2>6, <3>1, <3>2 DEF BaseLayerArrives
  <2> QED
    BY <1>2, <2>7 DEF PlayerNext, Environment
<1>5. CASE iter_req_stream # TheBase
  <2>1. /\ c.sid \in Segs /\ c.fid \in Tiles /\ c.fid # BASE
        /\ c.lid \in Layers \ {0}
    BY <1>5, KindsDiffer DEF OneKind, ELRequests, Requested
  <2>2. UNCHANGED <<base_layer_buff_sec, BL_seg_id>>
    BY <2>1 DEF OnStreamClose, EndIteration, ContinueIteration
  <2>3. CASE tile_ver' = tile_ver
    BY <1>3, <2>2, <2>3 DEF playerVars
  <2>4. CASE tile_ver' # tile_ver
    <3>1. tile_ver' = WithTile(c.sid, c.fid, c.lid)
      BY <1>1, <2>1, <2>4 DEF MarkLayer
    <3>2. TileMarked(c.sid, c.fid, c.lid)
      BY <1>3, <2>2, <3>1 DEF TileMarked
    <3> QED
      BY <2>1, <3>2 DEF PlayerNext, Environment
  <2> QED
    BY <2>3, <2>4
<1> QED
  BY <1>4, <1>5

\* Every step of Streaming is a step of Player or leaves its variables alone.
LEMMA StepRefines ==
    ASSUME NInv, [Next]_vars
    PROVE  [PlayerNext]_playerVars
<1>1. CASE Playback
  BY <1>1 DEF Playback, PlayerNext
<1>2. CASE TimePasses
  BY <1>2 DEF TimePasses, PlayerNext
<1>3. CASE Decide
  BY <1>3 DEF Decide, StartAdaptation, StartIteration, StartIteration2017,
     DetectLowBuffer, DetectRecovery, DecideBase, CheckLastSegment,
     DecideEnhancement
<1>4. ASSUME NEW i \in Requested, NEW end \in BOOLEAN, OnData(i, end)
      PROVE  UNCHANGED playerVars
  BY <1>4 DEF OnData
<1>5. ASSUME NEW i \in Requested,
             CloseEnded(i) \/ CloseReset(i) \/ ServerReset(i)
      PROVE  [PlayerNext]_playerVars
  BY <1>5, ClosingStream, StreamClosePlayer
<1>6. CASE UNCHANGED vars
  BY <1>6 DEF vars
<1>7. ASSUME NEW i \in Requested, OnHeadersEnd(i) \/ OnPushPromise(i)
      PROVE  UNCHANGED playerVars
  BY <1>7, OtherFrames
<1> QED
  BY <1>1, <1>2, <1>3, <1>4, <1>5, <1>6, <1>7 DEF Next, Close, Network, Terminated

\* Every step preserves the invariant.
LEMMA NextNInv ==
    ASSUME NInv, [Next]_vars
    PROVE  NInv'
<1>1. IInv'
  BY StepRefines, NextIInv DEF NInv
<1>2. NetInv'
  <2>1. CASE Playback
    BY <2>1, PlaybackNet
  <2>2. CASE TimePasses
    BY <2>2, TimePassesNet
  <2>3. CASE Decide
    BY <2>3, DecideNet
  <2>4. ASSUME NEW i \in Requested, NEW end \in BOOLEAN, OnData(i, end)
        PROVE  NetInv'
    BY <2>4, OnDataNet
  <2>5. ASSUME NEW i \in Requested,
               CloseEnded(i) \/ CloseReset(i) \/ ServerReset(i)
        PROVE  NetInv'
    BY <2>5, ClosingStream, StreamCloseNet
  <2>6. CASE UNCHANGED vars
    <3>1. LinkAllows <=> LinkAllows'
      BY <2>6 DEF vars, playerVars, LinkAllows
    <3>2. BL_seg_id' = BL_seg_id
      BY <2>6 DEF vars, playerVars
    <3> QED
      BY <2>6, <3>1, <3>2, NetStutters DEF vars, NInv
  <2>7. ASSUME NEW i \in Requested, OnHeadersEnd(i) \/ OnPushPromise(i)
        PROVE  NetInv'
    BY <2>7, OtherFramesNet
  <2> QED
    BY <2>1, <2>2, <2>3, <2>4, <2>5, <2>6, <2>7 DEF Next, Close, Network, Terminated
<1> QED
  BY <1>1, <1>2 DEF NInv

LEMMA SpecNInv == Spec => []NInv
<1>1. NInv /\ [Next]_vars => NInv'
  BY NextNInv
<1> QED
  BY <1>1, InitNInv, PTL DEF Spec
-----------------------------------------------------------------------------
(***************************************************************************)
(* What follows for every run of the client.                               *)
(***************************************************************************)
\* Type correctness of both threads: among others, no request is ever made for
\* a segment outside the video, and iter_req_stream_fin, face_dow_data and
\* closing only hold indices of requests.
THEOREM StreamingTypeCorrect == Spec => []StreamingTypeOK
<1>1. NInv => StreamingTypeOK
  BY DEF NInv, NetInv, IInv, NetTypeOK, StreamingTypeOK
<1> QED
  BY <1>1, SpecNInv, PTL

\* req_s_num and fin_s_num count the requests and the closed streams in every
\* interleaving, so on_stream_close_callback ends an iteration exactly with its
\* last stream.
THEOREM IterationsAccounted == Spec => []IterationAccounting
<1>1. NInv => IterationAccounting
  BY DEF NInv, NetInv
<1> QED
  BY <1>1, SpecNInv, PTL

\* Whichever stream closes last, on_stream_close_callback credits the iteration
\* to the right segment and kind.
THEOREM IterationsOfOneSegment == Spec => []IterationOfOneSegment
<1>1. NInv => IterationOfOneSegment
  <2>1. ASSUME ELRequests
        PROVE  \A i \in Requested : /\ iter_req_stream[i].sid = EL_seg_id
                                    /\ iter_req_stream[i].fid # BASE
    BY <2>1, KindsDiffer DEF ELRequests, Requested
  <2> QED
    BY <2>1 DEF NInv, NetInv, OneKind, IterationOfOneSegment, TheBase
<1> QED
  BY <1>1, SpecNInv, PTL

\* on_frame_recv_callback2 never resets or cancels the stream of a base layer.
THEOREM BaseLayersNeverCancelled == Spec => []BaseNeverCancelled
<1>1. NInv => BaseNeverCancelled
  <2> SUFFICES ASSUME NInv, InIteration,
                      NEW i \in closing \cup cancelled_request_stream
               PROVE  iter_req_stream[i].fid # BASE
    BY DEF BaseNeverCancelled
  <2>1. i \in Requested /\ iter_req_stream # TheBase
    BY DEF NInv, NetInv, NetTypeOK, OnlyELCancelled, Requested
  <2> QED
    BY <2>1, KindsDiffer DEF NInv, NetInv, OneKind, ELRequests, Requested
<1> QED
  BY <1>1, SpecNInv, PTL

\* The playback thread cannot tell the engine from the environment that Player
\* assumes: what is proved of Player holds of the client.
THEOREM EngineRefinesEnvironment == Spec => PlayerRefined
<1>1. Init => PlayerInit
  BY DEF Init
<1>2. NInv /\ [Next]_vars => [PlayerNext]_playerVars
  BY StepRefines
<1> QED
  BY <1>1, <1>2, SpecNInv, PTL DEF Spec, PlayerRefined, PlayerSpec

\* In particular the viewer is kept the promise of Playback, whatever the
\* engine requests, the server resets and the link delays.
THEOREM ClientKeepsPlayback == Spec => PlaybackKept
BY EngineRefinesEnvironment, PlayerKeepsPlayback, PTL DEF PlayerRefined

\* A segment that has not started: its deadline has not passed, or there is none.
LEMMA NotPassedNotStarted ==
    ASSUME IInv, NEW k \in Segs, FALSE \in DeadlinePassed(k)
    PROVE  playing_seg_id < k
<1> USE SegAssumption DEF IInv, TypeOK, Segs, VIDEO_LEN, Unset
<1>1. CASE clock = Unset
  BY <1>1 DEF Playhead, NotStarted
<1>2. CASE clock # Unset
  <2>1. clock < k * SD
    <3>1. (clock >= k * SD) = FALSE
      BY <1>2 DEF DeadlinePassed
    <3>2. clock \in Int /\ k * SD \in Int
      OBVIOUS
    <3> QED
      BY <3>1, <3>2
  <2>2. played_sec <= clock
    BY <1>2 DEF AheadOfDeadlines
  <2>3. ~Ended
    <3>1. k * SD <= NO_SEG * SD
      BY MulMono
    <3> QED
      BY <2>1, <2>2, <3>1 DEF Reporting
  <2>4. state # INITIAL_BUFFERING
    BY <1>2 DEF NotStarted
  <2>5. playing_seg_id * SD <= played_sec
    BY <2>3, <2>4 DEF Playhead
  <2>6. playing_seg_id * SD < k * SD
    <3> DEFINE m == k * SD
               n == playing_seg_id * SD
    <3>1. clock \in Int /\ played_sec \in Int /\ m \in Int /\ n \in Int
      OBVIOUS
    <3>2. clock < m /\ n <= played_sec
      BY <2>1, <2>5
    <3> HIDE DEF m, n
    <3>3. n < m
      BY <2>2, <3>1, <3>2
    <3> QED
      BY <3>3 DEF m, n
  <2> SUFFICES ASSUME k <= playing_seg_id PROVE FALSE
    OBVIOUS
  <2>7. k * SD <= playing_seg_id * SD
    BY MulMono
  <2> QED
    BY <2>6, <2>7
<1> QED
  BY <1>1, <1>2

\* update_tile_version is not called for a segment that is being played: the
\* deadline of a segment passes before it starts, in every interleaving.
THEOREM LateLayersNeverMarked == Spec => LateNeverMarked
<1> DEFINE A == \A k \in Segs : netpc = "close" /\ tile_ver'[k] # tile_ver[k]
                                  => playing_seg_id < k
<1>1. NInv /\ [Next]_vars => [A]_vars
  <2> SUFFICES ASSUME NInv, [Next]_vars, NEW k \in Segs, netpc = "close",
                      tile_ver'[k] # tile_ver[k]
               PROVE  playing_seg_id < k
    OBVIOUS
  <2>1. \E i \in Requested : CloseEnded(i)
    <3>1. ~UNCHANGED tile_ver
      OBVIOUS
    <3>2. ~Playback
      BY <3>1 DEF Playback, PlayerStep, PollStart, PollResume, Poll, Drain, Advance,
         StartSegment, CheckEmpty, StartReport, Report
    <3>3. ~TimePasses /\ ~Decide /\ ~Terminated
      BY <3>1 DEF TimePasses, Working, Decide, StartAdaptation, StartIteration,
         StartIteration2017, DetectLowBuffer, DetectRecovery, DecideBase,
         CheckLastSegment, DecideEnhancement, Terminated, vars, playerVars
    <3>4. ~Network /\ vars' # vars
      BY <3>1 DEF Network, OnData, OnHeadersEnd, OnPushPromise, ServerReset, vars, playerVars
    <3> QED
      BY <3>2, <3>3, <3>4 DEF Next, Close, CloseReset
  <2>2. PICK i \in Requested : CloseEnded(i)
    BY <2>1
  <2> DEFINE c == iter_req_stream[i]
  <2>3. /\ i \in response_end
        /\ OnStreamClose(i)
    BY <2>2 DEF CloseEnded
  <2>4. PICK late \in Late(i) : MarkLayer(c, late, i \in cancelled_request_stream)
    BY <2>3 DEF OnStreamClose
  <2>5. late = FALSE /\ late \in DeadlinePassed(c.sid)
    <3>1. late \in DeadlinePassed(c.sid)
      BY <2>3 DEF Late
    <3>2. late # TRUE
      BY <2>4 DEF MarkLayer
    <3> QED
      BY <3>1, <3>2, DeadlineOutcome
  <2>6. c.sid \in Segs /\ k = c.sid
    <3>1. c.sid \in Segs
      <4>1. \A d \in Chunk : d.sid \in Segs
        BY DEF Chunk
      <4>2. c \in Chunk
        BY DEF NInv, NetInv, NetTypeOK, Requested
      <4> QED
        BY <4>1, <4>2
    <3>2. tile_ver' \in {tile_ver, WithBase(c.sid), WithTile(c.sid, c.fid, c.lid)}
      BY <2>4 DEF MarkLayer
    <3> QED
      BY <3>1, <3>2 DEF WithBase, WithTile, NInv, IInv, TypeOK
  <2> QED
    BY <2>5, <2>6, NotPassedNotStarted DEF NInv
<1> QED
  BY <1>1, SpecNInv, PTL DEF Spec, LateNeverMarked
-----------------------------------------------------------------------------
(***************************************************************************)
(* No chunk twice.                                                         *)
(***************************************************************************)
\* A sequence without repetitions.
Once(s) == \A i, j \in DOMAIN s : s[i] = s[j] => i = j

\* The tiles that a list of requests is for.
Fids(s) == {s[i].fid : i \in DOMAIN s}

\* LayerMajor and TileMajor repeat nothing, and leave the tiles of v alone.
LEMMA LayerMajorOnce ==
    ASSUME NEW k, NEW v \in Seq(Tiles), Once(v), NEW lo \in Nat, NEW hi \in Nat
    PROVE  /\ Once(LayerMajor(k, v, lo, hi))
           /\ Fids(LayerMajor(k, v, lo, hi)) \subseteq ToSet(v)
<1> DEFINE n == Len(v)
           m == hi - lo + 1
           col(i) == (i - 1) % n
           row(i) == (i - 1) \div n
           f == LayerMajor(k, v, lo, hi)
<1>1. n \in Nat /\ m \in Int /\ DOMAIN v = 1 .. n
  OBVIOUS
<1>2. f = [i \in 1 .. n * m |->
               StreamInfo(k, v[((i - 1) % n) + 1], lo + (i - 1) \div n)]
  BY LayerMajorIs
<1> HIDE DEF n, m, f
<1>3. ASSUME NEW i \in 1 .. n * m
      PROVE  /\ n \in Nat \ {0} /\ i - 1 \in Nat
             /\ col(i) \in Nat /\ col(i) + 1 \in DOMAIN v
             /\ row(i) \in Nat
             /\ f[i].fid = v[col(i) + 1]
             /\ f[i].lid = lo + row(i)
  <2>1. n > 0 /\ (i - 1) % n \in 0 .. n - 1 /\ (i - 1) \div n \in 0 .. m - 1
    BY <1>1, RowOf
  <2>2. f[i] = StreamInfo(k, v[((i - 1) % n) + 1], lo + (i - 1) \div n)
    BY <1>2
  <2>3. i - 1 \in Nat
    BY <1>1
  <2> QED
    BY <1>1, <2>1, <2>2, <2>3 DEF StreamInfo
<1>4. ASSUME NEW i \in 1 .. n * m, NEW j \in 1 .. n * m, f[i] = f[j]
      PROVE  i = j
  <2> HIDE DEF col, row
  <2>1. col(i) + 1 = col(j) + 1
    <3>1. v[col(i) + 1] = v[col(j) + 1]
      BY <1>3, <1>4
    <3>2. col(i) + 1 \in DOMAIN v /\ col(j) + 1 \in DOMAIN v
      BY <1>3
    <3> QED
      BY <1>1, <3>1, <3>2 DEF Once
  <2>2. col(i) = col(j) /\ row(i) = row(j)
    BY <1>3, <1>4, <2>1
  <2> USE DEF col, row
  <2>3. i - 1 = j - 1
    BY <1>3, <2>2, DivMod
  <2> QED
    BY <2>3
<1>5. DOMAIN f = 1 .. n * m
  BY <1>2
<1>6. \A i \in DOMAIN f : f[i].fid \in ToSet(v)
  BY <1>3, <1>5 DEF ToSet
<1> QED
  BY <1>4, <1>5, <1>6 DEF Once, Fids, f

LEMMA TileMajorOnce ==
    ASSUME NEW k, NEW v \in Seq(Tiles), Once(v), NEW l \in Nat
    PROVE  /\ Once(TileMajor(k, v, l))
           /\ Fids(TileMajor(k, v, l)) \subseteq ToSet(v)
<1> DEFINE m == Len(v)
           col(i) == (i - 1) % l
           row(i) == (i - 1) \div l
           f == TileMajor(k, v, l)
<1>1. m \in Nat /\ DOMAIN v = 1 .. m
  OBVIOUS
<1>2. f = [i \in 1 .. m * l |->
               StreamInfo(k, v[((i - 1) \div l) + 1], ((i - 1) % l) + 1)]
  BY DEF TileMajor
<1> HIDE DEF m, f
<1>3. ASSUME NEW i \in 1 .. m * l
      PROVE  /\ l \in Nat \ {0} /\ i - 1 \in Nat
             /\ row(i) \in Nat /\ row(i) + 1 \in DOMAIN v
             /\ col(i) \in Nat
             /\ f[i].fid = v[row(i) + 1]
             /\ f[i].lid = col(i) + 1
  <2>1. i - 1 \in Nat /\ m * l = l * m
    BY <1>1
  <2>2. l > 0 /\ (i - 1) % l \in 0 .. l - 1 /\ (i - 1) \div l \in 0 .. m - 1
    <3>1. m \in Int /\ l \in Nat /\ i \in 1 .. l * m
      BY <1>1, <2>1
    <3> QED
      BY ONLY <3>1, RowOf
  <2>3. f[i] = StreamInfo(k, v[((i - 1) \div l) + 1], ((i - 1) % l) + 1)
    BY <1>2
  <2> QED
    BY <1>1, <2>1, <2>2, <2>3 DEF StreamInfo
<1>4. ASSUME NEW i \in 1 .. m * l, NEW j \in 1 .. m * l, f[i] = f[j]
      PROVE  i = j
  <2> HIDE DEF col, row
  <2>1. row(i) + 1 = row(j) + 1
    BY <1>3, <1>4 DEF Once
  <2>2. col(i) = col(j) /\ row(i) = row(j)
    BY <1>3, <1>4, <2>1
  <2> USE DEF col, row
  <2>3. i - 1 = j - 1
    BY <1>3, <2>2, DivMod
  <2> QED
    BY <2>3
<1>5. DOMAIN f = 1 .. m * l
  BY <1>2
<1>6. \A i \in DOMAIN f : f[i].fid \in ToSet(v)
  BY <1>3, <1>5 DEF ToSet
<1> QED
  BY <1>4, <1>5, <1>6 DEF Once, Fids, f

\* Neither does a prefix of what repeats nothing.
LEMMA PrefixOnce ==
    ASSUME NEW T, NEW s \in Seq(T), Once(s), NEW r \in Prefixes(s)
    PROVE  Once(r) /\ Fids(r) \subseteq Fids(s)
<1>1. PICK l \in 0 .. Len(s) : r = SubSeq(s, 1, l)
  BY DEF Prefixes
<1>2. l \in Nat /\ l <= Len(s)
  OBVIOUS
<1>3. DOMAIN r = 1 .. l /\ \A i \in 1 .. l : r[i] = s[i] /\ i \in DOMAIN s
  BY <1>1, <1>2
<1> QED
  BY <1>3 DEF Once, Fids

\* No algorithm but those that extend the view requests a chunk twice, or for a
\* tile that it does not record.
LEMMA OffersOnce ==
    ASSUME NEW alg \in Algs \ Extending, NEW k \in Segs, NEW v \in Views,
           NEW r \in Offers(alg, k, v, Adjacent[v], EL_VER_NUM)
    PROVE  Once(r) /\ Fids(r) \subseteq Recorded(alg, v, r)
<1> DEFINE top == EL_VER_NUM
<1>1. v \in Seq(Tiles) /\ Once(v)
  BY ViewAssumption DEF Once
<1>2. top \in Nat /\ alg \in {1, 2, 3, 4, 5, 9}
  BY LayerAssumption, AlgAssumption
  DEF ALGS, Extending, ExtendFirst, ExtendLast
<1> HIDE DEF top
<1>3. CASE alg \in {1, 2}
  <2>1. PICK l \in 0 .. top : r = TileMajor(k, v, l)
    BY <1>3 DEF Offers, UniformLayers, top
  <2> QED
    <3>1. l \in Nat
      BY <1>2
    <3>2. Once(r)
      BY <1>1, <2>1, <3>1, TileMajorOnce
    <3> QED
      BY <1>3, <3>2 DEF Recorded, Fids
<1>4. CASE alg = 4
  <2> DEFINE all == LayerMajor(k, v, 1, 2)
  <2>1. PICK f : r \in InOrderOf(all, {c \in ToSet(all) : c.lid <= f[c.fid]})
    <3>1. r \in UNION {Selected(k, v, f) : f \in [ToSet(v) -> 0 .. 2]}
      BY <1>4 DEF Offers, UniformLayers
    <3>2. PICK f \in [ToSet(v) -> 0 .. 2] : r \in Selected(k, v, f)
      BY <3>1
    <3> QED
      BY <3>2 DEF Selected, all
  <2>2. all \in Seq(ELChunk(k, 2))
    BY <1>1, LayerMajorType
  <2> DEFINE S == {c \in ToSet(all) : c.lid <= f[c.fid]}
  <2> HIDE DEF all
  <2>3. IsFiniteSet(S)
    BY <2>2, ToSetType, FS_Subset
  <2>4. Once(r)
    BY <2>1, <2>3, InOrderOfType DEF Once
  <2> QED
    BY <1>4, <2>4 DEF Recorded, Fids
<1>5. CASE alg \in {3, 5, 9}
  <2>1. PICK lo \in {1} \cup 1 .. top, hi \in {top} \cup 1 .. top :
            r \in Prefixes(Candidates(alg, k, v, <<>>, lo, hi, top))
    <3>1. alg \notin Extending \cup UniformLayers \cup {4}
      BY <1>5 DEF UniformLayers
    <3> QED
      BY <3>1 DEF Offers, top
  <2>2. /\ 1 \in Nat \ {0} /\ 2 \in Nat /\ top \in Nat
        /\ lo \in Nat \ {0} /\ hi \in Nat
    BY <1>2
  <2>3. PICK a \in Nat \ {0}, b \in Nat : r \in Prefixes(LayerMajor(k, v, a, b))
    <3>1. CASE alg = 3
      <4>1. Candidates(alg, k, v, <<>>, lo, hi, top) = LayerMajor(k, v, 1, 2)
        BY <3>1 DEF Candidates, ExtendFirst
      <4> QED
        BY <2>1, <2>2, <4>1
    <3>2. CASE alg = 5
      <4>1. Candidates(alg, k, v, <<>>, lo, hi, top) = LayerMajor(k, v, 1, top)
        BY <3>2 DEF Candidates, ExtendFirst
      <4> QED
        BY <2>1, <2>2, <4>1
    <3>3. CASE alg = 9
      <4>1. Candidates(alg, k, v, <<>>, lo, hi, top) = LayerMajor(k, v, lo, hi)
        BY <3>3 DEF Candidates, ExtendFirst
      <4> QED
        BY <2>1, <2>2, <4>1
    <3> QED
      BY <1>5, <3>1, <3>2, <3>3
  <2> DEFINE s == LayerMajor(k, v, a, b)
  <2>4. s \in Seq(ELChunk(k, b)) /\ Once(s) /\ Fids(s) \subseteq ToSet(v)
    BY <1>1, LayerMajorType, LayerMajorOnce
  <2> HIDE DEF s
  <2>5. Once(r) /\ Fids(r) \subseteq ToSet(v)
    BY <2>3, <2>4, PrefixOnce DEF s
  <2> QED
    BY <1>5, <2>5 DEF Recorded
<1> QED
  BY <1>2, <1>3, <1>4, <1>5

\* Lists for different tiles have no request in common.
LEMMA ConcatOnce ==
    ASSUME NEW T, NEW s \in Seq(T), NEW t \in Seq(T), Once(s), Once(t),
           Fids(s) \cap Fids(t) = {}
    PROVE  Once(s \o t) /\ Fids(s \o t) = Fids(s) \cup Fids(t)
<1> DEFINE n == Len(s)
           u == s \o t
<1>1. /\ DOMAIN s = 1 .. n /\ DOMAIN t = 1 .. Len(t)
      /\ n \in Nat /\ Len(t) \in Nat
      /\ DOMAIN u = 1 .. n + Len(t)
      /\ \A i \in 1 .. n : u[i] = s[i]
      /\ \A i \in 1 .. Len(t) : u[n + i] = t[i]
  BY ConcatProperties
<1> HIDE DEF n, u
<1>2. \A i \in DOMAIN u : \/ i \in DOMAIN s /\ u[i] = s[i]
                          \/ i - n \in DOMAIN t /\ u[i] = t[i - n]
  <2> SUFFICES ASSUME NEW i \in DOMAIN u, i \notin DOMAIN s
               PROVE  i - n \in DOMAIN t /\ u[i] = t[i - n]
    BY <1>1
  <2>1. i - n \in 1 .. Len(t) /\ n + (i - n) = i
    BY <1>1
  <2> QED
    BY <1>1, <2>1
<1>3. ASSUME NEW i \in DOMAIN u, NEW j \in DOMAIN u, u[i] = u[j] PROVE i = j
  <2>1. CASE i \in DOMAIN s /\ u[i] = s[i] /\ j \in DOMAIN s /\ u[j] = s[j]
    BY <1>3, <2>1 DEF Once
  <2>2. CASE /\ i - n \in DOMAIN t /\ u[i] = t[i - n]
             /\ j - n \in DOMAIN t /\ u[j] = t[j - n]
    <3>1. i - n = j - n
      BY <1>3, <2>2 DEF Once
    <3> QED
      BY <1>1, <3>1
  <2>3. CASE i \in DOMAIN s /\ u[i] = s[i] /\ j - n \in DOMAIN t /\ u[j] = t[j - n]
    BY <1>3, <2>3 DEF Fids
  <2>4. CASE j \in DOMAIN s /\ u[j] = s[j] /\ i - n \in DOMAIN t /\ u[i] = t[i - n]
    BY <1>3, <2>4 DEF Fids
  <2> QED
    BY <1>2, <2>1, <2>2, <2>3, <2>4
<1>4. Fids(u) = Fids(s) \cup Fids(t)
  <2>1. Fids(u) \subseteq Fids(s) \cup Fids(t)
    BY <1>2 DEF Fids
  <2>2. \A i \in DOMAIN s : i \in DOMAIN u /\ u[i] = s[i]
    BY <1>1
  <2>3. \A i \in DOMAIN t : n + i \in DOMAIN u /\ u[n + i] = t[i]
    BY <1>1
  <2>4. Fids(s) \subseteq Fids(u)
    BY <2>2 DEF Fids
  <2>5. Fids(t) \subseteq Fids(u)
    <3> SUFFICES ASSUME NEW i \in DOMAIN t PROVE t[i].fid \in Fids(u)
      BY DEF Fids
    <3>1. n + i \in DOMAIN u /\ u[n + i].fid = t[i].fid
      BY <2>3
    <3> QED
      BY <3>1 DEF Fids
  <2> QED
    BY <2>1, <2>4, <2>5
<1> QED
  BY <1>3, <1>4 DEF Once, u

\* Nothing is requested twice, and every tile that is requested is recorded, so
\* that a re-decision can tell the new ones.
NoRepeat ==
    InIteration /\ ALG \notin Extending =>
        /\ Once(iter_req_stream)
        /\ Fids(iter_req_stream) \ {BASE} \subseteq iter_tile_list

\* A re-decision only adds tiles that are not recorded.
LEMMA RedecideOnce ==
    ASSUME NInv, NoRepeat, InIteration, ALG \notin Extending, ELRequests,
           NEW v \in Views, NEW l \in 0 .. EL_VER_NUM, Redecide(v, l)
    PROVE  Once(iter_req_stream') /\ Fids(iter_req_stream') \subseteq iter_tile_list'
<1>1. PICK new \in NewTiles(v) :
          /\ iter_req_stream' = iter_req_stream \o TileMajor(EL_seg_id, new, l)
          /\ iter_tile_list' =
                 IF l > 0 THEN iter_tile_list \cup ToSet(new) ELSE iter_tile_list
  BY DEF Redecide
<1>2. v \in Seq(Tiles) /\ IsFiniteSet(ToSet(v)) /\ ToSet(v) \in SUBSET Tiles
  BY ViewAssumption, ToSetType
<1> DEFINE S == ToSet(v) \ iter_tile_list
           more == TileMajor(EL_seg_id, new, l)
<1>3. S \in SUBSET Tiles /\ IsFiniteSet(S)
  BY <1>2, FS_Subset
<1>4. new \in Seq(S) /\ Once(new)
  <2>1. new \in InOrderOf(v, S)
    BY DEF NewTiles
  <2> HIDE DEF S
  <2> QED
    BY <1>3, <2>1, InOrderOfType DEF Once
<1>5. new \in Seq(Tiles) /\ ToSet(new) \subseteq S
  BY <1>3, <1>4, SeqMonotonic, ToSetType
<1>6. l \in Nat /\ l <= EL_VER_NUM
  BY LayerAssumption
<1>7. more \in Seq(ELChunk(EL_seg_id, EL_VER_NUM))
  <2>1. ELChunk(EL_seg_id, l) \subseteq ELChunk(EL_seg_id, EL_VER_NUM)
    BY <1>6, LayerAssumption DEF ELChunk
  <2> QED
    BY <1>5, <1>6, <2>1, TileMajorType, SeqMonotonic
<1>8. Once(more) /\ Fids(more) \subseteq ToSet(new)
  BY <1>4, <1>5, <1>6, TileMajorOnce
<1>9. l = 0 => Fids(more) = {}
  BY <1>5 DEF TileMajor, Fids
<1>10. /\ iter_req_stream \in Seq(ELChunk(EL_seg_id, EL_VER_NUM))
       /\ Once(iter_req_stream)
       /\ Fids(iter_req_stream) \subseteq iter_tile_list
  BY KindsDiffer DEF ELRequests, NoRepeat, Fids
<1>11. Fids(iter_req_stream) \cap Fids(more) = {}
  BY <1>5, <1>8, <1>10
<1>12. iter_req_stream' = iter_req_stream \o more
  BY <1>1
<1> HIDE DEF more
<1>13. /\ Once(iter_req_stream \o more)
       /\ Fids(iter_req_stream \o more) = Fids(iter_req_stream) \cup Fids(more)
  BY <1>7, <1>8, <1>10, <1>11, ConcatOnce
<1>14. Fids(more) \subseteq iter_tile_list'
  BY <1>1, <1>6, <1>8, <1>9
<1>15. iter_tile_list \subseteq iter_tile_list'
  BY <1>1
<1> QED
  BY <1>10, <1>12, <1>13, <1>14, <1>15

LEMMA NextNoRepeat ==
    ASSUME NInv, NoRepeat, [Next]_vars
    PROVE  NoRepeat'
<1> USE DEF InIteration
<1>1. CASE /\ UNCHANGED <<iter_req_stream, iter_tile_list, ALG>>
           /\ InIteration' => InIteration
  BY <1>1 DEF NoRepeat, Fids, Once
<1>2. CASE ~InIteration'
  BY <1>2 DEF NoRepeat
<1>3. ASSUME iter_req_stream' = TheBase
      PROVE  NoRepeat'
  BY <1>3 DEF NoRepeat, TheBase, StreamInfo, Once, Fids
<1>4. CASE Playback \/ TimePasses \/ UNCHANGED vars
  BY <1>1, <1>4 DEF Playback, TimePasses, Working, netVars, iterVars, engineVars, vars
<1>5. CASE Decide
  <2>1. CASE StartAdaptation \/ StartIteration \/ DetectLowBuffer
             \/ DetectRecovery \/ CheckLastSegment
    BY <1>2, <2>1 DEF StartAdaptation, StartIteration, DetectLowBuffer,
       DetectRecovery, CheckLastSegment
  <2>2. CASE DecideBase
    BY <1>2, <1>3, <2>2 DEF DecideBase, TheBase
  <2>3. CASE StartIteration2017
    BY <1>2, <1>3, <2>3 DEF StartIteration2017, TheBase
  <2>4. CASE DecideEnhancement
    <3>1. CASE HeadNeeds(EL_seg_id')
      <4>1. EL_seg_id' \in Segs
        BY <2>4, <3>1, SegAssumption
        DEF DecideEnhancement, NInv, IInv, TypeOK, HeadNeeds, Segs
      <4>2. PICK v \in Views : RequestLayers(v)
        BY <2>4, <3>1 DEF DecideEnhancement
      <4>3. PICK r \in Offers(ALG, EL_seg_id', v, Adjacent[v], EL_VER_NUM) :
                /\ iter_req_stream' = r
                /\ iter_tile_list' = iter_tile_list \cup Recorded(ALG, v, r)
        BY <4>2 DEF RequestLayers
      <4>4. ALG' = ALG /\ ALG \in Algs
        BY <2>4 DEF DecideEnhancement, NInv, NetInv, NetTypeOK
      <4>5. ASSUME ALG \notin Extending
            PROVE  Once(r) /\ Fids(r) \subseteq Recorded(ALG, v, r)
        BY <4>1, <4>3, <4>4, <4>5, OffersOnce
      <4> QED
        BY <4>3, <4>4, <4>5 DEF NoRepeat
    <3>2. CASE ~HeadNeeds(EL_seg_id')
      <4>1. req_s_num = 0 /\ req_s_num' = req_s_num
        BY <2>4, <3>2 DEF DecideEnhancement, NInv, NetInv, CleanSlate
      <4> QED
        BY <1>2, <2>4, <4>1 DEF DecideEnhancement
    <3> QED
      BY <3>1, <3>2
  <2> QED
    BY <1>5, <2>1, <2>2, <2>3, <2>4 DEF Decide
<1>6. ASSUME NEW i \in Requested, NEW end \in BOOLEAN, OnData(i, end)
      PROVE  NoRepeat'
  <2>1. InIteration /\ ALG' = ALG
    BY <1>6 DEF OnData, engineVars
  <2>2. CASE KeepIteration \/ CancelIteration
    BY <1>1, <2>1, <2>2 DEF KeepIteration, CancelIteration
  <2>3. ASSUME NEW v \in Views, NEW l \in 0 .. EL_VER_NUM, Redecide(v, l),
               iter_req_stream[i].fid # BASE
        PROVE  NoRepeat'
    <3>1. ELRequests
      <4>1. TheBase[1].fid = BASE /\ DOMAIN TheBase = {1}
        BY DEF TheBase, StreamInfo
      <4> QED
        BY <2>1, <2>3, <4>1 DEF NInv, NetInv, OneKind, Requested
    <3> QED
      BY <2>1, <2>3, <3>1, RedecideOnce DEF NoRepeat
  <2> QED
    BY <1>6, <2>2, <2>3 DEF OnData
<1>7. ASSUME NEW i \in Requested,
             CloseEnded(i) \/ CloseReset(i) \/ ServerReset(i)
      PROVE  NoRepeat'
  <2>1. InIteration /\ OnStreamClose(i)
    BY <1>7, ClosingStream
  <2>2. ALG' = ALG
    BY <2>1 DEF OnStreamClose
  <2>3. CASE EndIteration(iter_req_stream[i])
    BY <1>2, <2>3 DEF EndIteration
  <2>4. CASE ContinueIteration(i)
    BY <1>1, <2>1, <2>2, <2>4 DEF ContinueIteration
  <2> QED
    BY <2>1, <2>3, <2>4 DEF OnStreamClose
<1>8. ASSUME NEW i \in Requested, OnHeadersEnd(i) \/ OnPushPromise(i)
      PROVE  NoRepeat'
  BY <1>1, <1>8, OtherFrames DEF KeepIteration
<1> QED
  BY <1>4, <1>5, <1>6, <1>7, <1>8 DEF Next, Close, Network, Terminated

\* No layer of a tile is requested twice: within an iteration, where a
\* re-decision requests more, by any algorithm that does not request tiles next
\* to the view; and in a later iteration, by any algorithm.
THEOREM ChunksRequestedOnce == Spec => []NoChunkTwice
<1>1. Init => NoRepeat
  BY DEF Init, NoRepeat, InIteration
<1>2. NInv /\ NoRepeat /\ [Next]_vars => NoRepeat'
  BY NextNoRepeat
<1>3. NInv /\ NoRepeat => NoChunkTwice
  <2> SUFFICES ASSUME NInv, NoRepeat PROVE NoChunkTwice
    OBVIOUS
  <2>1. CASE ~InIteration
    BY <2>1 DEF NInv, NetInv, CleanSlate, NoChunkTwice, Requested
  <2>2. CASE InIteration
    <3>1. ALG \notin Extending =>
             \A i, j \in Requested : iter_req_stream[i] = iter_req_stream[j] => i = j
      BY <2>2 DEF NoRepeat, Once, Requested
    <3>2. ASSUME NEW i \in Requested, iter_req_stream[i].fid # BASE
          PROVE  iter_req_stream[i].sid \notin seg_EL_download
      <4>1. ELRequests
        <5>1. TheBase[1].fid = BASE /\ DOMAIN TheBase = {1}
          BY DEF TheBase, StreamInfo
        <5> QED
          BY <2>2, <3>2, <5>1 DEF NInv, NetInv, OneKind, Requested
      <4> QED
        BY <4>1, KindsDiffer DEF ELRequests, Requested
    <3> QED
      BY <3>1, <3>2 DEF NoChunkTwice
  <2> QED
    BY <2>1, <2>2
<1> QED
  BY <1>1, <1>2, <1>3, SpecNInv, PTL DEF Spec
-----------------------------------------------------------------------------
(***************************************************************************)
(* Layers from below.                                                      *)
(***************************************************************************)
\* The request for layer l of the same tile.
AtLayer(c, l) == [c EXCEPT !.lid = l]

\* A list of requests with no layer missing under another one, and a list that
\* has the lower layers first, of which every prefix has none missing either.
FromBelow(s) ==
    \A i \in DOMAIN s : \A l \in 1 .. s[i].lid - 1 :
        \E j \in DOMAIN s : s[j] = AtLayer(s[i], l)
LowerFirst(s) ==
    \A i \in DOMAIN s : \A l \in 1 .. s[i].lid - 1 :
        \E j \in 1 .. i : s[j] = AtLayer(s[i], l)

\* Layer by layer from the first one, the lower layers come first.
LEMMA LayerMajorLowerFirst ==
    ASSUME NEW k, NEW v \in Seq(Tiles), NEW hi \in Nat
    PROVE  LowerFirst(LayerMajor(k, v, 1, hi))
<1> DEFINE n == Len(v)
           f == LayerMajor(k, v, 1, hi)
           chunk(i) == StreamInfo(k, v[((i - 1) % n) + 1], 1 + (i - 1) \div n)
<1>1. n \in Nat /\ n * (hi - 1 + 1) = n * hi
  OBVIOUS
<1>2. DOMAIN f = 1 .. n * hi /\ \A i \in 1 .. n * hi : f[i] = chunk(i)
  <2>1. f = [i \in 1 .. n * (hi - 1 + 1) |-> chunk(i)]
    BY LayerMajorIs, 1 \in Int, hi \in Int
  <2> QED
    BY <1>1, <2>1
<1> HIDE DEF n, f
<1> SUFFICES ASSUME NEW i \in 1 .. n * hi, NEW l \in 1 .. f[i].lid - 1
             PROVE  \E j \in 1 .. i : f[j] = AtLayer(f[i], l)
  BY <1>2 DEF LowerFirst, f
<1> DEFINE c == (i - 1) % n
           q == (i - 1) \div n
           p == (l - 1) * n + c
<1>3. /\ n \in Nat \ {0} /\ i - 1 \in Nat
      /\ c \in 0 .. n - 1 /\ q \in 0 .. hi - 1
  <2>1. hi \in Int /\ i - 1 \in Nat
    BY <1>1
  <2>2. n > 0 /\ (i - 1) % n \in 0 .. n - 1 /\ (i - 1) \div n \in 0 .. hi - 1
    BY ONLY <1>1, <2>1, i \in 1 .. n * hi, RowOf
  <2> QED
    BY <1>1, <2>1, <2>2
<1>4. i - 1 = q * n + c
  BY <1>3, DivRest
<1>5. f[i] = StreamInfo(k, v[c + 1], 1 + q)
  BY <1>2
<1> HIDE DEF c, q
<1>6. f[i].lid = 1 + q /\ l \in 1 .. q
  BY <1>3, <1>5 DEF StreamInfo
<1>7. l - 1 \in Nat /\ p \in Nat /\ p % n = c /\ p \div n = l - 1
  <2>1. l - 1 \in Nat
    BY <1>3, <1>6
  <2> QED
    BY <1>3, <2>1, Compose
<1>8. p + 1 \in 1 .. i
  <2>1. (l - 1) * n + n <= q * n
    <3>1. l - 1 \in Nat /\ q \in Nat /\ l - 1 < q
      BY <1>3, <1>6
    <3> QED
      BY <1>3, <3>1, MulMono
  <2>2. (l - 1) * n \in Nat /\ q * n \in Nat
    BY <1>3, <1>7
  <2>3. i \in Int
    BY <1>1
  <2> QED
    BY <1>3, <1>4, <1>7, <2>1, <2>2, <2>3
<1>9. f[p + 1] = StreamInfo(k, v[c + 1], l)
  <2>1. p + 1 \in 1 .. n * hi /\ (p + 1) - 1 = p
    <3> HIDE DEF p
    <3>1. n * hi \in Int /\ i \in Int /\ i <= n * hi
      BY <1>1
    <3> QED
      BY <1>7, <1>8, <3>1
  <2>2. f[p + 1] = StreamInfo(k, v[(p % n) + 1], 1 + p \div n)
    BY <1>2, <2>1
  <2>3. 1 + (l - 1) = l
    BY <1>6, <1>3
  <2> HIDE DEF p
  <2> QED
    BY <1>7, <2>2, <2>3
<1>10. StreamInfo(k, v[c + 1], l) = AtLayer(StreamInfo(k, v[c + 1], 1 + q), l)
  BY DEF StreamInfo, AtLayer
<1> QED
  BY <1>5, <1>8, <1>9, <1>10

\* The tiles that LayerMajor lists are those of v.
LEMMA LayerMajorFids ==
    ASSUME NEW k, NEW v \in Seq(Tiles), NEW hi \in Nat
    PROVE  Fids(LayerMajor(k, v, 1, hi)) \subseteq ToSet(v)
<1> DEFINE n == Len(v)
           f == LayerMajor(k, v, 1, hi)
<1>1. n \in Nat /\ n * (hi - 1 + 1) = n * hi /\ DOMAIN v = 1 .. n
  OBVIOUS
<1>2. /\ DOMAIN f = 1 .. n * hi
      /\ \A i \in 1 .. n * hi : f[i].fid = v[((i - 1) % n) + 1]
  <2>1. f = [i \in 1 .. n * (hi - 1 + 1) |->
               StreamInfo(k, v[((i - 1) % n) + 1], 1 + (i - 1) \div n)]
    BY LayerMajorIs, 1 \in Int, hi \in Int
  <2> QED
    BY <1>1, <2>1 DEF StreamInfo
<1> HIDE DEF n, f
<1> SUFFICES ASSUME NEW i \in 1 .. n * hi PROVE f[i].fid \in ToSet(v)
  BY <1>2 DEF Fids, f
<1>3. n > 0 /\ (i - 1) % n \in 0 .. n - 1
  BY ONLY <1>1, hi \in Int, i \in 1 .. n * hi, RowOf
<1>4. ((i - 1) % n) + 1 \in DOMAIN v
  BY <1>1, <1>3
<1> QED
  BY <1>2, <1>4 DEF ToSet

\* Neither does a tile-by-tile list leave a layer out.
LEMMA TileMajorFromBelow ==
    ASSUME NEW k, NEW v \in Seq(Tiles), NEW top \in Nat
    PROVE  FromBelow(TileMajor(k, v, top))
<1> DEFINE m == Len(v)
           f == TileMajor(k, v, top)
           chunk(i) == StreamInfo(k, v[((i - 1) \div top) + 1], ((i - 1) % top) + 1)
<1>1. m \in Nat
  OBVIOUS
<1>2. DOMAIN f = 1 .. m * top /\ \A i \in 1 .. m * top : f[i] = chunk(i)
  BY DEF TileMajor
<1> HIDE DEF m, f
<1> SUFFICES ASSUME NEW i \in 1 .. m * top, NEW l \in 1 .. f[i].lid - 1
             PROVE  \E j \in 1 .. m * top : f[j] = AtLayer(f[i], l)
  BY <1>2 DEF FromBelow, f
<1> DEFINE c == (i - 1) % top
           q == (i - 1) \div top
           p == q * top + (l - 1)
<1>3. /\ top \in Nat \ {0} /\ i - 1 \in Nat
      /\ c \in 0 .. top - 1 /\ q \in 0 .. m - 1
  <2>1. m \in Int /\ i \in 1 .. top * m /\ i - 1 \in Nat
    BY <1>1
  <2>2. top \in Nat
    OBVIOUS
  <2>3. top > 0 /\ (i - 1) % top \in 0 .. top - 1 /\ (i - 1) \div top \in 0 .. m - 1
    BY ONLY <2>1, <2>2, RowOf
  <2> QED
    BY <2>1, <2>2, <2>3
<1>4. i - 1 = q * top + c
  BY <1>3, DivRest
<1>5. f[i] = StreamInfo(k, v[q + 1], c + 1)
  BY <1>2
<1> HIDE DEF c, q
<1>6. f[i].lid = c + 1 /\ l \in 1 .. c
  BY <1>3, <1>5 DEF StreamInfo
<1>7. l - 1 \in 0 .. top - 1 /\ p \in Nat /\ p % top = l - 1 /\ p \div top = q
  <2>1. l - 1 \in 0 .. top - 1 /\ q \in Nat
    BY <1>3, <1>6
  <2> QED
    BY <1>3, <2>1, Compose
<1>8. p + 1 \in 1 .. i
  <2>1. q * top \in Nat /\ i \in Int
    BY <1>1, <1>3
  <2> QED
    BY <1>3, <1>4, <1>6, <1>7, <2>1
<1>9. p + 1 \in 1 .. m * top
  <2> HIDE DEF p
  <2>1. m * top \in Int /\ i \in Int /\ i <= m * top
    BY <1>1
  <2> QED
    BY <1>7, <1>8, <2>1
<1>10. f[p + 1] = StreamInfo(k, v[q + 1], l)
  <2>1. (p + 1) - 1 = p
    BY <1>7
  <2>2. f[p + 1] = StreamInfo(k, v[(p \div top) + 1], (p % top) + 1)
    BY <1>2, <1>9, <2>1
  <2>3. (l - 1) + 1 = l
    BY <1>3, <1>6
  <2> HIDE DEF p
  <2> QED
    BY <1>7, <2>2, <2>3
<1>11. StreamInfo(k, v[q + 1], l) = AtLayer(StreamInfo(k, v[q + 1], c + 1), l)
  BY DEF StreamInfo, AtLayer
<1> QED
  BY <1>5, <1>9, <1>10, <1>11

\* A prefix of a list with the lower layers first has none missing.
LEMMA PrefixFromBelow ==
    ASSUME NEW T, NEW s \in Seq(T), LowerFirst(s), NEW r \in Prefixes(s)
    PROVE  FromBelow(r)
<1>1. PICK m \in 0 .. Len(s) : r = SubSeq(s, 1, m)
  BY DEF Prefixes
<1>2. m \in Nat /\ m <= Len(s)
  OBVIOUS
<1>3. DOMAIN r = 1 .. m /\ \A i \in 1 .. m : r[i] = s[i] /\ i \in DOMAIN s
  BY <1>1, <1>2
<1> SUFFICES ASSUME NEW i \in DOMAIN r, NEW l \in 1 .. r[i].lid - 1
             PROVE  \E j \in DOMAIN r : r[j] = AtLayer(r[i], l)
  BY DEF FromBelow
<1>4. PICK j \in 1 .. i : s[j] = AtLayer(s[i], l)
  BY <1>3 DEF LowerFirst
<1> QED
  BY <1>2, <1>3, <1>4

\* Two lists one after the other keep what each of them has.
LEMMA ConcatFromBelow ==
    ASSUME NEW T, NEW s \in Seq(T), NEW t \in Seq(T)
    PROVE  /\ LowerFirst(s) /\ LowerFirst(t) => LowerFirst(s \o t)
           /\ FromBelow(s) /\ FromBelow(t) => FromBelow(s \o t)
<1> DEFINE n == Len(s)
           u == s \o t
<1>1. /\ DOMAIN s = 1 .. n /\ DOMAIN t = 1 .. Len(t)
      /\ n \in Nat /\ Len(t) \in Nat
      /\ DOMAIN u = 1 .. n + Len(t)
      /\ \A i \in 1 .. n : u[i] = s[i]
      /\ \A i \in 1 .. Len(t) : u[n + i] = t[i]
  BY ConcatProperties
<1> HIDE DEF n, u
<1>2. ASSUME NEW i \in DOMAIN u, i \notin DOMAIN s
      PROVE  i - n \in DOMAIN t /\ u[i] = t[i - n]
  <2>1. i - n \in 1 .. Len(t) /\ n + (i - n) = i
    BY <1>1, <1>2
  <2> QED
    BY <1>1, <2>1
<1>3. ASSUME LowerFirst(s), LowerFirst(t),
             NEW i \in DOMAIN u, NEW l \in 1 .. u[i].lid - 1
      PROVE  \E j \in 1 .. i : u[j] = AtLayer(u[i], l)
  <2>1. CASE i \in DOMAIN s
    <3>1. PICK j \in 1 .. i : s[j] = AtLayer(s[i], l)
      BY <1>1, <1>3, <2>1 DEF LowerFirst
    <3> QED
      BY <1>1, <2>1, <3>1
  <2>2. CASE i \notin DOMAIN s
    <3>1. i - n \in DOMAIN t /\ u[i] = t[i - n]
      BY <1>2, <2>2
    <3>2. PICK j \in 1 .. i - n : t[j] = AtLayer(t[i - n], l)
      BY <1>3, <3>1 DEF LowerFirst
    <3>3. n + j \in 1 .. i /\ j \in 1 .. Len(t)
      BY <1>1, <3>1, <3>2
    <3> QED
      BY <1>1, <3>1, <3>2, <3>3
  <2> QED
    BY <2>1, <2>2
<1>4. ASSUME FromBelow(s), FromBelow(t),
             NEW i \in DOMAIN u, NEW l \in 1 .. u[i].lid - 1
      PROVE  \E j \in DOMAIN u : u[j] = AtLayer(u[i], l)
  <2>1. CASE i \in DOMAIN s
    <3>1. PICK j \in DOMAIN s : s[j] = AtLayer(s[i], l)
      BY <1>1, <1>4, <2>1 DEF FromBelow
    <3> QED
      BY <1>1, <2>1, <3>1
  <2>2. CASE i \notin DOMAIN s
    <3>1. i - n \in DOMAIN t /\ u[i] = t[i - n]
      BY <1>2, <2>2
    <3>2. PICK j \in DOMAIN t : t[j] = AtLayer(t[i - n], l)
      BY <1>4, <3>1 DEF FromBelow
    <3>3. n + j \in DOMAIN u /\ u[n + j] = t[j]
      BY <1>1, <3>2
    <3> QED
      BY <3>1, <3>2, <3>3
  <2> QED
    BY <2>1, <2>2
<1> QED
  BY <1>3, <1>4 DEF LowerFirst, FromBelow, u

\* Whatever an algorithm without a moving window offers has no layer missing.
LEMMA OffersFromBelow ==
    ASSUME NEW alg \in Algs \ MovingWindow, NEW k \in Segs, NEW v \in Views,
           NEW r \in Offers(alg, k, v, Adjacent[v], EL_VER_NUM)
    PROVE  FromBelow(r)
<1> DEFINE top == EL_VER_NUM
           adj == Adjacent[v]
<1>1. v \in Seq(Tiles) /\ adj \in Seq(Tiles)
  BY ViewAssumption
<1>2. top \in Nat /\ alg \in ALGS /\ alg \notin MovingWindow
  BY LayerAssumption, AlgAssumption
<1> HIDE DEF top, adj
<1>3. CASE alg \in UniformLayers
  <2>1. PICK l \in 0 .. top : r = TileMajor(k, v, l)
    BY <1>3 DEF Offers, UniformLayers, top
  <2> QED
    BY <1>1, <1>2, <2>1, TileMajorFromBelow
<1>4. CASE alg = 4
  <2> DEFINE all == LayerMajor(k, v, 1, 2)
  <2>1. PICK f \in [ToSet(v) -> 0 .. 2] :
            r \in InOrderOf(all, {c \in ToSet(all) : c.lid <= f[c.fid]})
    <3>1. r \in UNION {Selected(k, v, f) : f \in [ToSet(v) -> 0 .. 2]}
      BY <1>4 DEF Offers, UniformLayers
    <3>2. PICK f \in [ToSet(v) -> 0 .. 2] : r \in Selected(k, v, f)
      BY <3>1
    <3> QED
      BY <3>2 DEF Selected, all
  <2>2. all \in Seq(ELChunk(k, 2)) /\ LowerFirst(all)
    BY <1>1, LayerMajorType, LayerMajorLowerFirst
  <2>3. \A i \in DOMAIN all : all[i].fid \in ToSet(v)
    BY <1>1, LayerMajorFids DEF Fids
  <2> HIDE DEF all
  <2> DEFINE S == {c \in ToSet(all) : c.lid <= f[c.fid]}
  <2>4. IsFiniteSet(S)
    BY <2>2, ToSetType, FS_Subset
  <2>5. r \in Seq(S)
    BY <2>1, <2>4, InOrderOfType
  <2> SUFFICES ASSUME NEW i \in DOMAIN r, NEW l \in 1 .. r[i].lid - 1
               PROVE  \E j \in DOMAIN r : r[j] = AtLayer(r[i], l)
    BY DEF FromBelow
  <2>6. r[i] \in S
    BY <2>5
  <2>7. PICK a \in DOMAIN all : r[i] = all[a]
    BY <2>6 DEF ToSet
  <2>8. all[a] \in ELChunk(k, 2) /\ all[a].fid \in ToSet(v)
    BY <2>2, <2>3
  <2>9. PICK b \in 1 .. a : all[b] = AtLayer(r[i], l)
    BY <2>2, <2>7 DEF LowerFirst
  <2>10. b \in DOMAIN all
    BY <2>2, <2>9
  <2>11. AtLayer(r[i], l).lid = l /\ AtLayer(r[i], l).fid = r[i].fid
    BY <2>7, <2>8 DEF AtLayer, ELChunk
  <2>12. l <= f[r[i].fid]
    <3>1. r[i].lid \in 1 .. 2 /\ f[r[i].fid] \in 0 .. 2
      BY <2>7, <2>8 DEF ELChunk
    <3> QED
      BY <2>6, <3>1
  <2>13. AtLayer(r[i], l) \in S
    BY <2>9, <2>10, <2>11, <2>12 DEF ToSet
  <2> QED
    BY <2>1, <2>4, <2>13, InOrderOfAll
<1>5. CASE alg \notin UniformLayers \cup {4}
  <2>1. PICK e \in {<<>>, adj} : r \in Prefixes(Candidates(alg, k, v, e, 1, top, top))
    BY <1>2, <1>5 DEF Offers, UniformLayers, top, adj
  <2>2. e \in Seq(Tiles)
    BY <1>1, EmptySeq
  <2> DEFINE C == Candidates(alg, k, v, e, 1, top, top)
  <2>3. \A w \in Seq(Tiles), hi \in Nat : /\ LowerFirst(LayerMajor(k, w, 1, hi))
                                         /\ LayerMajor(k, w, 1, hi) \in Seq(ELChunk(k, hi))
    BY LayerMajorType, LayerMajorLowerFirst
  <2>4. PICK T : C \in Seq(T) /\ LowerFirst(C)
    <3> USE DEF Candidates, ExtendFirst
    <3>1. CASE alg = 3
      <4>1. C = LayerMajor(k, v, 1, 2) /\ 2 \in Nat
        BY <3>1
      <4> QED
        BY <1>1, <2>3, <4>1
    <3>2. CASE alg = 5
      <4>1. C = LayerMajor(k, v, 1, top)
        BY <3>2
      <4> QED
        BY <1>1, <1>2, <2>3, <4>1
    <3>3. CASE alg \in ExtendFirst
      <4>1. C = LayerMajor(k, e, 1, 1) \o LayerMajor(k, v, 1, top) /\ 1 \in Nat
        BY <3>3
      <4>2. /\ ELChunk(k, 1) \subseteq ELChunk(k, top + 1)
            /\ ELChunk(k, top) \subseteq ELChunk(k, top + 1)
        BY <1>2 DEF ELChunk
      <4> DEFINE s == LayerMajor(k, e, 1, 1)
                 t == LayerMajor(k, v, 1, top)
      <4>3. s \in Seq(ELChunk(k, 1)) /\ t \in Seq(ELChunk(k, top))
            /\ LowerFirst(s) /\ LowerFirst(t)
        BY <1>1, <1>2, <2>2, <2>3
      <4> HIDE DEF s, t
      <4>4. s \in Seq(ELChunk(k, top + 1)) /\ t \in Seq(ELChunk(k, top + 1))
        BY <4>2, <4>3, SeqMonotonic
      <4>5. s \o t \in Seq(ELChunk(k, top + 1)) /\ LowerFirst(s \o t)
        BY <4>3, <4>4, ConcatProperties, ConcatFromBelow
      <4> QED
        BY <4>1, <4>5 DEF s, t
    <3>4. CASE alg \in {7, 12}
      <4> DEFINE w == v \o e
      <4>1. w \in Seq(Tiles)
        BY <1>1, <2>2, ConcatProperties
      <4>2. C = LayerMajor(k, w, 1, top)
        BY <3>4
      <4> HIDE DEF w
      <4> QED
        BY <1>2, <2>3, <4>1, <4>2
    <3> QED
      BY <1>2, <1>5, <3>1, <3>2, <3>3, <3>4 DEF ALGS, UniformLayers, MovingWindow
  <2> HIDE DEF C
  <2> QED
    BY <2>1, <2>4, PrefixFromBelow DEF C
<1> QED
  BY <1>3, <1>4, <1>5

\* No layer is missing in the requests of the iteration.
NoGap == InIteration /\ ALG \notin MovingWindow => FromBelow(iter_req_stream)

LEMMA RedecideFromBelow ==
    ASSUME NInv, NoGap, InIteration, ALG \notin MovingWindow, ELRequests,
           NEW v \in Views, NEW l \in 0 .. EL_VER_NUM, Redecide(v, l)
    PROVE  FromBelow(iter_req_stream')
<1>1. PICK new \in NewTiles(v) :
          iter_req_stream' = iter_req_stream \o TileMajor(EL_seg_id, new, l)
  BY DEF Redecide
<1> DEFINE more == TileMajor(EL_seg_id, new, l)
<1>2. new \in Seq(Tiles)
  BY NewTilesType
<1>3. l \in Nat /\ l <= EL_VER_NUM
  BY LayerAssumption
<1>4. FromBelow(more) /\ more \in Seq(ELChunk(EL_seg_id, EL_VER_NUM))
  <2>1. ELChunk(EL_seg_id, l) \subseteq ELChunk(EL_seg_id, EL_VER_NUM)
    BY <1>3, LayerAssumption DEF ELChunk
  <2> QED
    BY <1>2, <1>3, <2>1, TileMajorType, TileMajorFromBelow, SeqMonotonic
<1>5. /\ iter_req_stream \in Seq(ELChunk(EL_seg_id, EL_VER_NUM))
      /\ FromBelow(iter_req_stream)
  BY DEF ELRequests, NoGap
<1>6. iter_req_stream' = iter_req_stream \o more
  BY <1>1
<1> HIDE DEF more
<1> QED
  BY <1>4, <1>5, <1>6, ConcatFromBelow

LEMMA NextNoGap ==
    ASSUME NInv, NoGap, [Next]_vars
    PROVE  NoGap'
<1> USE DEF InIteration
<1>1. CASE /\ UNCHANGED <<iter_req_stream, ALG>>
           /\ InIteration' => InIteration
  BY <1>1 DEF NoGap, FromBelow
<1>2. CASE ~InIteration'
  BY <1>2 DEF NoGap
<1>3. ASSUME iter_req_stream' = TheBase
      PROVE  NoGap'
  <2>1. DOMAIN TheBase = {1} /\ TheBase[1].lid = 0
    BY DEF TheBase, StreamInfo
  <2>2. FromBelow(TheBase)
    BY <2>1 DEF FromBelow
  <2> QED
    BY <1>3, <2>2 DEF NoGap
<1>4. CASE Playback \/ TimePasses \/ UNCHANGED vars
  BY <1>1, <1>4 DEF Playback, TimePasses, Working, netVars, iterVars, engineVars, vars
<1>5. CASE Decide
  <2>1. CASE StartAdaptation \/ StartIteration \/ DetectLowBuffer
             \/ DetectRecovery \/ CheckLastSegment
    BY <1>2, <2>1 DEF StartAdaptation, StartIteration, DetectLowBuffer,
       DetectRecovery, CheckLastSegment
  <2>2. CASE DecideBase
    BY <1>2, <1>3, <2>2 DEF DecideBase, TheBase
  <2>3. CASE StartIteration2017
    BY <1>2, <1>3, <2>3 DEF StartIteration2017, TheBase
  <2>4. CASE DecideEnhancement
    <3>1. CASE HeadNeeds(EL_seg_id')
      <4>1. EL_seg_id' \in Segs
        BY <2>4, <3>1, SegAssumption
        DEF DecideEnhancement, NInv, IInv, TypeOK, HeadNeeds, Segs
      <4>2. PICK v \in Views : RequestLayers(v)
        BY <2>4, <3>1 DEF DecideEnhancement
      <4>3. PICK r \in Offers(ALG, EL_seg_id', v, Adjacent[v], EL_VER_NUM) :
                iter_req_stream' = r
        BY <4>2 DEF RequestLayers
      <4>4. ALG' = ALG /\ ALG \in Algs
        BY <2>4 DEF DecideEnhancement, NInv, NetInv, NetTypeOK
      <4>5. ASSUME ALG \notin MovingWindow
            PROVE  FromBelow(r)
        BY <4>1, <4>3, <4>4, <4>5, OffersFromBelow
      <4> QED
        BY <4>3, <4>4, <4>5 DEF NoGap
    <3>2. CASE ~HeadNeeds(EL_seg_id')
      <4>1. req_s_num = 0 /\ req_s_num' = req_s_num
        BY <2>4, <3>2 DEF DecideEnhancement, NInv, NetInv, CleanSlate
      <4> QED
        BY <1>2, <2>4, <4>1 DEF DecideEnhancement
    <3> QED
      BY <3>1, <3>2
  <2> QED
    BY <1>5, <2>1, <2>2, <2>3, <2>4 DEF Decide
<1>6. ASSUME NEW i \in Requested, NEW end \in BOOLEAN, OnData(i, end)
      PROVE  NoGap'
  <2>1. InIteration /\ ALG' = ALG
    BY <1>6 DEF OnData, engineVars
  <2>2. CASE KeepIteration \/ CancelIteration
    BY <1>1, <2>1, <2>2 DEF KeepIteration, CancelIteration
  <2>3. ASSUME NEW v \in Views, NEW l \in 0 .. EL_VER_NUM, Redecide(v, l),
               iter_req_stream[i].fid # BASE
        PROVE  NoGap'
    <3>1. ELRequests
      <4>1. TheBase[1].fid = BASE /\ DOMAIN TheBase = {1}
        BY DEF TheBase, StreamInfo
      <4> QED
        BY <2>1, <2>3, <4>1 DEF NInv, NetInv, OneKind, Requested
    <3> QED
      BY <2>1, <2>3, <3>1, RedecideFromBelow DEF NoGap
  <2> QED
    BY <1>6, <2>2, <2>3 DEF OnData
<1>7. ASSUME NEW i \in Requested,
             CloseEnded(i) \/ CloseReset(i) \/ ServerReset(i)
      PROVE  NoGap'
  <2>1. InIteration /\ OnStreamClose(i)
    BY <1>7, ClosingStream
  <2>2. ALG' = ALG
    BY <2>1 DEF OnStreamClose
  <2>3. CASE EndIteration(iter_req_stream[i])
    BY <1>2, <2>3 DEF EndIteration
  <2>4. CASE ContinueIteration(i)
    BY <1>1, <2>1, <2>2, <2>4 DEF ContinueIteration
  <2> QED
    BY <2>1, <2>3, <2>4 DEF OnStreamClose
<1>8. ASSUME NEW i \in Requested, OnHeadersEnd(i) \/ OnPushPromise(i)
      PROVE  NoGap'
  BY <1>1, <1>8, OtherFrames DEF KeepIteration
<1> QED
  BY <1>4, <1>5, <1>6, <1>7, <1>8 DEF Next, Close, Network, Terminated

\* Within an iteration a layer of a tile is never requested without the layers
\* below it, whatever the throughput cuts off and whatever a re-decision adds,
\* by any algorithm without a moving window of layers.
THEOREM LayersComeFromBelow == Spec => []LayersFromBelow
<1>1. Init => NoGap
  BY DEF Init, NoGap, InIteration
<1>2. NInv /\ NoGap /\ [Next]_vars => NoGap'
  BY NextNoGap
<1>3. NInv /\ NoGap => LayersFromBelow
  <2> SUFFICES ASSUME NInv, NoGap PROVE LayersFromBelow
    OBVIOUS
  <2>1. CASE ~InIteration
    BY <2>1 DEF NInv, NetInv, CleanSlate, LayersFromBelow, Requested
  <2>2. CASE InIteration
    BY <2>2 DEF NoGap, FromBelow, LayersFromBelow, Requested, AtLayer
  <2> QED
    BY <2>1, <2>2
<1> QED
  BY <1>1, <1>2, <1>3, SpecNInv, PTL DEF Spec
-----------------------------------------------------------------------------
(***************************************************************************)
(* The engines keep enough in the buffer to look at it before they look at *)
(* the playback position.                                                  *)
(***************************************************************************)
\* Two segments in the buffer, less the period that the playback thread may have
\* taken out of it since.  It takes one only, as time does not pass while the
\* engine works.
Room ==
    /\ base_layer_buff_sec >= 2 * SD - 1
    /\ pc = "loop" => base_layer_buff_sec >= 2 * SD

Headroom ==
    /\ netpc \in {"full", "base"} /\ ~INI_BUFFERING /\ ~RE_BUFFERRING => Room
    /\ netpc \in {"next", "head"} => BL_seg_id = NO_SEG \/ Room
    /\ InIteration /\ iter_req_stream # TheBase => EL_seg_id < BL_seg_id
    /\ netpc = "stopped" => BL_seg_id = NO_SEG

\* The thresholds for which that is so: four segments, as half of it must be two.
RoomyThreshold == BASE_BUFF_THRES >= 4 /\ SD >= 2

LEMMA Multiples ==
    ASSUME NEW a \in Int, NEW b \in Int, NEW d \in Nat, a <= b
    PROVE  a * d <= b * d /\ (b + 1) * d = b * d + d
OBVIOUS

LEMMA Thresholds ==
    ASSUME RoomyThreshold
    PROVE  /\ HalfThreshold >= 2 * SD /\ Threshold >= 2 * SD
           /\ Threshold - SD >= 2 * SD /\ 15 * Threshold >= 2 * SD
           /\ HalfThreshold \in Int /\ Threshold \in Int
<1> USE SegAssumption, ThresAssumption DEF RoomyThreshold
<1> DEFINE T == BASE_BUFF_THRES
           H == BASE_BUFF_THRES \div 2
<1>1. T \in Int /\ H \in Int /\ 2 <= H /\ 4 <= T /\ SD \in Nat
  OBVIOUS
<1> HIDE DEF T, H
<1>2. 2 * SD <= H * SD /\ 4 * SD <= T * SD
  BY <1>1, Multiples
<1>3. Threshold = T * SD /\ HalfThreshold = H * SD
  BY DEF Threshold, HalfThreshold, T, H
<1>4. T * SD \in Int /\ H * SD \in Int
  BY <1>1
<1> QED
  BY <1>1, <1>2, <1>3, <1>4

\* With room, the segment after the one being played has been counted.
LEMMA RoomAhead ==
    ASSUME IInv, RoomyThreshold, Room
    PROVE  BL_seg_id = NO_SEG \/ playing_seg_id + 1 < BL_seg_id
<1> USE SegAssumption
<1>1. /\ BL_seg_id \in 0 .. NO_SEG /\ playing_seg_id \in -1 .. NO_SEG
      /\ base_layer_buff_sec \in Int /\ played_sec \in Nat
      /\ base_layer_buff_sec >= 0
      /\ base_layer_buff_sec <= BL_seg_id * SD - played_sec
      /\ base_layer_buff_sec >= 2 * SD - 1 /\ SD \in Nat /\ SD >= 2
  BY DEF IInv, TypeOK, BufferNeverNegative, BufferConservation, InTransit, Room,
     RoomyThreshold, VIDEO_LEN
<1> DEFINE b == BL_seg_id * SD
           p == playing_seg_id * SD
<1>2. CASE Ended
  <2>1. played_sec = NO_SEG * SD
    BY <1>2 DEF IInv, Reporting, VIDEO_LEN
  <2>2. NO_SEG * SD <= BL_seg_id * SD
    <3> DEFINE n == NO_SEG * SD
    <3>1. b \in Int /\ n \in Int /\ played_sec = n /\ base_layer_buff_sec <= b - played_sec
      BY <1>1, <2>1
    <3> HIDE DEF b, n
    <3>2. n <= b
      BY <1>1, <3>1
    <3> QED
      BY <3>2 DEF b, n
  <2>3. ASSUME BL_seg_id < NO_SEG PROVE FALSE
    <3>1. BL_seg_id * SD + SD <= NO_SEG * SD
      BY <1>1, <2>3, MulMono
    <3> QED
      BY <1>1, <2>2, <3>1
  <2> QED
    BY <1>1, <2>3
<1>3. CASE ~Ended /\ state # INITIAL_BUFFERING
  <2>1. p <= played_sec /\ p \in Int /\ b \in Int
        /\ base_layer_buff_sec <= b - played_sec
    BY <1>1, <1>3 DEF IInv, Playhead
  <2>2. ASSUME BL_seg_id <= playing_seg_id + 1 PROVE FALSE
    <3>1. b <= (playing_seg_id + 1) * SD /\ (playing_seg_id + 1) * SD = p + SD
      BY <1>1, <2>2, Multiples
    <3> HIDE DEF b, p
    <3> QED
      BY <1>1, <2>1, <3>1
  <2> QED
    BY <1>1, <2>2
<1>4. CASE state = INITIAL_BUFFERING
  <2>1. playing_seg_id = -1 /\ played_sec = 0
    BY <1>4 DEF IInv, NotStarted
  <2>2. BL_seg_id # 0
    BY <1>1, <2>1
  <2> QED
    BY <1>1, <2>1, <2>2
<1> QED
  BY <1>3, <1>2, <1>4

\* The playback thread takes at most one period out of the room.
LEMMA RoomStays ==
    ASSUME IInv, Room, PlayerStep
    PROVE  Room'
<1> USE SegAssumption DEF Room, IInv, TypeOK
<1>1. CASE PollStart \/ PollResume
  BY <1>1 DEF PollStart, PollResume, Poll
<1>2. CASE Drain
  BY <1>2 DEF Drain
<1>3. CASE Advance \/ StartSegment
  BY <1>3 DEF Advance, StartSegment
<1>4. CASE CheckEmpty
  BY <1>4 DEF CheckEmpty
<1>5. CASE StartReport \/ Report
  BY <1>5 DEF StartReport, Report
<1> QED
  BY <1>1, <1>2, <1>3, <1>4, <1>5 DEF PlayerStep

\* A buffer seen with two segments in it leaves room.
LEMMA RoomSeen ==
    ASSUME IInv, base_layer_buff_sec >= 2 * SD
    PROVE  Room
BY SegAssumption DEF IInv, TypeOK, Room

LEMMA NextHeadroom ==
    ASSUME NInv, Headroom, RoomyThreshold, [Next]_vars
    PROVE  Headroom'
<1> USE DEF InIteration
<1>0. base_layer_buff_sec \in Int /\ SD \in Nat /\ BL_seg_id \in 0 .. NO_SEG
  BY SegAssumption DEF NInv, IInv, TypeOK
<1>1. CASE Playback
  <2>1. UNCHANGED <<netVars, BL_seg_id>>
    BY <1>1 DEF Playback, PlayerStep, PollStart, PollResume, Poll, Drain, Advance,
       StartSegment, CheckEmpty, StartReport, Report
  <2>2. Room => Room'
    BY <1>1, RoomStays DEF Playback, NInv
  <2> QED
    BY <2>1, <2>2 DEF Headroom, netVars, engineVars, iterVars, TheBase, StreamInfo
<1>2. CASE TimePasses
  BY <1>2 DEF TimePasses, Working, Tick, Headroom, engineVars, iterVars, TheBase,
     StreamInfo
<1>3. CASE Decide
  <2>1. CASE StartAdaptation \/ StartIteration
    BY <2>1 DEF StartAdaptation, StartIteration, Headroom
  <2>2. CASE DetectLowBuffer
    <3>1. /\ netpc' = "full" /\ INI_BUFFERING' = INI_BUFFERING
          /\ UNCHANGED <<pc, base_layer_buff_sec>>
          /\ ~INI_BUFFERING /\ ~RE_BUFFERRING' => ~(base_layer_buff_sec < HalfThreshold)
      BY <2>2 DEF DetectLowBuffer, playerVars
    <3>2. ~(base_layer_buff_sec < HalfThreshold) => Room
      BY <1>0, Thresholds, RoomSeen DEF NInv
    <3> QED
      BY <3>1, <3>2 DEF Headroom, Room
  <2>3. CASE DetectRecovery
    <3>1. /\ netpc = "full" /\ netpc' = "base" /\ INI_BUFFERING' = INI_BUFFERING
          /\ UNCHANGED <<pc, base_layer_buff_sec>>
          /\ ~INI_BUFFERING /\ ~RE_BUFFERRING' =>
                 ~RE_BUFFERRING \/ ~(base_layer_buff_sec < Threshold)
      BY <2>3 DEF DetectRecovery, playerVars
    <3>2. ~(base_layer_buff_sec < Threshold) => Room
      BY <1>0, Thresholds, RoomSeen DEF NInv
    <3> QED
      BY <3>1, <3>2 DEF Headroom, Room
  <2>4. CASE DecideBase
    <3>1. CASE WantsBase
      BY <2>4, <3>1 DEF DecideBase, Headroom, TheBase, StreamInfo, playerVars
    <3>2. CASE ~WantsBase
      <4>1. /\ netpc = "base" /\ netpc' = "next"
            /\ UNCHANGED <<pc, base_layer_buff_sec, BL_seg_id>>
        BY <2>4, <3>2 DEF DecideBase, playerVars
      <4>2. BL_seg_id = NO_SEG \/ Room
        <5>1. CASE ~(BL_seg_id < NO_SEG)
          BY <1>0, <5>1, SegAssumption
        <5>2. CASE ~(base_layer_buff_sec < 15 * Threshold)
          BY <1>0, <5>2, Thresholds, RoomSeen DEF NInv
        <5>3. CASE /\ BL_seg_id < NO_SEG /\ base_layer_buff_sec < 15 * Threshold
                   /\ ~INI_BUFFERING /\ ~RE_BUFFERRING
          BY <4>1, <5>3 DEF Headroom
        <5> QED
          BY <3>2, <5>1, <5>2, <5>3 DEF WantsBase
      <4> QED
        BY <4>1, <4>2 DEF Headroom, Room
    <3> QED
      BY <3>1, <3>2
  <2>5. CASE StartIteration2017
    <3> DEFINE Wants == BL_seg_id < NO_SEG /\ base_layer_buff_sec < Threshold - SD
    <3>1. CASE Wants
      BY <2>5, <3>1 DEF StartIteration2017, Headroom, TheBase, StreamInfo, playerVars
    <3>2. CASE ~Wants
      <4>1. /\ netpc' = "next"
            /\ UNCHANGED <<pc, base_layer_buff_sec, BL_seg_id>>
        BY <2>5, <3>2 DEF StartIteration2017, playerVars
      <4>2. BL_seg_id = NO_SEG \/ Room
        <5>1. CASE ~(BL_seg_id < NO_SEG)
          BY <1>0, <5>1, SegAssumption
        <5>2. CASE ~(base_layer_buff_sec < Threshold - SD)
          BY <1>0, <5>2, Thresholds, RoomSeen DEF NInv
        <5> QED
          BY <3>2, <5>1, <5>2
      <4> QED
        BY <4>1, <4>2 DEF Headroom, Room
    <3> QED
      BY <3>1, <3>2
  <2>6. CASE CheckLastSegment
    <3>1. BL_seg_id = NO_SEG \/ Room
      BY <2>6 DEF CheckLastSegment, Headroom
    <3>2. BL_seg_id = NO_SEG \/ playing_seg_id + 1 < BL_seg_id
      BY <3>1, RoomAhead DEF NInv
    <3>3. /\ UNCHANGED <<pc, base_layer_buff_sec, BL_seg_id>>
          /\ netpc' = IF playing_seg_id = NO_SEG - 1 THEN "stopped" ELSE "head"
      BY <2>6 DEF CheckLastSegment, playerVars
    <3>4. netpc' = "stopped" => BL_seg_id = NO_SEG
      BY <1>0, <3>2, <3>3, SegAssumption
    <3> QED
      BY <3>1, <3>3, <3>4 DEF Headroom, Room
  <2>7. CASE DecideEnhancement
    <3>1. BL_seg_id = NO_SEG \/ playing_seg_id + 1 < BL_seg_id
      BY <2>7, RoomAhead DEF DecideEnhancement, Headroom, NInv
    <3>2. /\ EL_seg_id' = playing_seg_id + 1 /\ BL_seg_id' = BL_seg_id
          /\ netpc' = IF req_s_num' > 0 THEN "idle" ELSE "sleep"
          /\ ~HeadNeeds(EL_seg_id') => req_s_num' = req_s_num
          /\ req_s_num = 0
      BY <2>7 DEF DecideEnhancement, playerVars, NInv, NetInv, CleanSlate
    <3>3. netpc' = "idle" => EL_seg_id' < BL_seg_id
      BY <1>0, <3>1, <3>2, SegAssumption DEF HeadNeeds
    <3> QED
      BY <3>2, <3>3 DEF Headroom
  <2> QED
    BY <1>3, <2>1, <2>2, <2>3, <2>4, <2>5, <2>6, <2>7 DEF Decide
<1>4. ASSUME NEW i \in Requested, NEW end \in BOOLEAN, OnData(i, end)
      PROVE  Headroom'
  <2>1. /\ InIteration /\ netpc' \in {"idle", "close"}
        /\ BL_seg_id' = BL_seg_id /\ EL_seg_id' = EL_seg_id
    BY <1>4 DEF OnData, engineVars, playerVars
  <2>2. CASE iter_req_stream # TheBase
    BY <2>1, <2>2 DEF Headroom
  <2>3. CASE iter_req_stream = TheBase
    <3>1. KeepIteration
      <4>1. i = 1 /\ TheBase[1].fid = BASE
        BY <2>3 DEF TheBase, StreamInfo, Requested
      <4> QED
        BY <1>4, <2>3, <4>1 DEF OnData
    <3>2. iter_req_stream' = TheBase'
      BY <2>1, <2>3, <3>1 DEF KeepIteration, TheBase, StreamInfo
    <3> QED
      BY <2>1, <3>2 DEF Headroom
  <2> QED
    BY <2>2, <2>3
<1>5. ASSUME NEW i \in Requested,
             CloseEnded(i) \/ CloseReset(i) \/ ServerReset(i)
      PROVE  Headroom'
  <2>1. InIteration /\ OnStreamClose(i)
    BY <1>5, ClosingStream
  <2>2. EL_seg_id' = EL_seg_id
    BY <2>1 DEF OnStreamClose
  <2>3. CASE EndIteration(iter_req_stream[i])
    BY <2>3 DEF EndIteration, Headroom
  <2>4. CASE ContinueIteration(i)
    BY <2>1, <2>2, <2>4 DEF ContinueIteration, Headroom, TheBase, StreamInfo
  <2> QED
    BY <2>1, <2>3, <2>4 DEF OnStreamClose
<1>6. CASE UNCHANGED vars
  BY <1>6 DEF vars, playerVars, netVars, engineVars, iterVars, Headroom, Room,
     TheBase, StreamInfo
<1>7. ASSUME NEW i \in Requested, OnHeadersEnd(i) \/ OnPushPromise(i)
      PROVE  Headroom'
  BY <1>7, OtherFrames DEF KeepIteration, Headroom, TheBase, StreamInfo, playerVars
<1> QED
  BY <1>1, <1>2, <1>3, <1>4, <1>5, <1>6, <1>7 DEF Next, Close, Network, Terminated

LEMMA SpecHeadroom == RoomyThreshold /\ Spec => []Headroom
<1>1. Init => Headroom
  BY DEF Init, Headroom, InIteration
<1>2. RoomyThreshold /\ NInv /\ Headroom /\ [Next]_vars => Headroom'
  BY NextHeadroom
<1>3. RoomyThreshold => RoomyThreshold'
  BY DEF RoomyThreshold
<1> QED
  BY <1>1, <1>2, <1>3, SpecNInv, PTL DEF Spec

\* With a threshold of four segments or more, both engines only request
\* enhancement layers of segments whose base layer is in the buffer, although
\* the playback thread moves on between their looks.
THEOREM EnhancementsOnTop ==
    RoomyThreshold /\ Spec => []EnhancementOnTopOfBase
<1>1. NInv /\ Headroom => EnhancementOnTopOfBase
  <2> SUFFICES ASSUME NInv, Headroom, InIteration, NEW i \in Requested,
                      iter_req_stream[i].fid # BASE
               PROVE  iter_req_stream[i].sid < BL_seg_id
    BY DEF EnhancementOnTopOfBase
  <2>1. ELRequests
    <3>1. TheBase[1].fid = BASE /\ DOMAIN TheBase = {1}
      BY DEF TheBase, StreamInfo
    <3> QED
      BY <3>1 DEF NInv, NetInv, OneKind, Requested
  <2>2. iter_req_stream # TheBase /\ iter_req_stream[i].sid = EL_seg_id
    BY <2>1, KindsDiffer DEF ELRequests, Requested
  <2> QED
    BY <2>2 DEF Headroom
<1> QED
  BY <1>1, SpecNInv, SpecHeadroom, PTL

\* With such a threshold neither engine returns for good before the last base
\* layer has been counted.
THEOREM EnginesStopWhenComplete ==
    RoomyThreshold /\ Spec => []StopsOnlyWhenComplete
<1>1. Headroom => StopsOnlyWhenComplete
  BY DEF Headroom, StopsOnlyWhenComplete
<1> QED
  BY <1>1, SpecHeadroom, PTL
=============================================================================
