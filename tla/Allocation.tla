----------------------------- MODULE Allocation -----------------------------
(***************************************************************************)
(* What the allocation algorithms (ALG of metadata.cfg) may request of a   *)
(* segment k, for the tiles v in view, the tiles e next to them, and top   *)
(* enhancement layers.  Streaming takes any of these lists; Adaptation     *)
(* computes the one that the throughput allows.                            *)
(***************************************************************************)
EXTENDS Integers, Sequences, SequencesExt

\* StreamInfo: what a stream carries.
StreamInfo(sid, fid, lid) == [sid |-> sid, fid |-> fid, lid |-> lid]

\* 1: UTD2017 ... 13 (metadata.cfg); from 5 on the engine is MMSP.
ALGS == 1 .. 13
UniformLayers == {1, 2}     \* one number of layers for all tiles in view
ExtendFirst == {6, 8, 11}   \* the tiles next to the view come first
ExtendLast == {7, 10, 12, 13}      \* ... come last
MovingWindow == {9, 10, 13} \* layers min_layerId to max_layerId only
Extending == ExtendFirst \cup ExtendLast

\* Mutant: the top layer first.
LayerMajor_TopDown(k, v, lo, hi) ==
    IF hi < lo THEN <<>>
    ELSE [i \in 1 .. Len(v) * (hi - lo + 1) |->
             StreamInfo(k, v[((i - 1) % Len(v)) + 1], hi - (i - 1) \div Len(v))]

\* The requests for layers lo to hi of the tiles of v, layer by layer.
LayerMajor(k, v, lo, hi) ==
    IF hi < lo THEN <<>>
    ELSE [i \in 1 .. Len(v) * (hi - lo + 1) |->
             StreamInfo(k, v[((i - 1) % Len(v)) + 1], lo + (i - 1) \div Len(v))]

\* The requests for layers 1 to l of the tiles of v, tile by tile.
TileMajor(k, v, l) ==
    [i \in 1 .. Len(v) * l |-> StreamInfo(k, v[((i - 1) \div l) + 1],
                                             ((i - 1) % l) + 1)]

\* The elements of S as a sequence, in the order of s.  (A set of one sequence,
\* without the recursion of SelectSeq, so that it can be reasoned about.)
InOrderOf(s, S) ==
    {r \in SetToSeqs(S) :
        \A i, j \in DOMAIN r : i < j =>
            \E a, b \in DOMAIN s : a < b /\ s[a] = r[i] /\ s[b] = r[j]}

\* The requests for the layers f selects, layer by layer.
Selected(k, v, f) ==
    LET all == LayerMajor(k, v, 1, 2)
    IN  InOrderOf(all, {c \in ToSet(all) : c.lid <= f[c.fid]})

\* The candidates of an algorithm in the order it tries them, when it extends
\* the view by e and its window of layers is lo to hi.
Candidates(alg, k, v, e, lo, hi, top) ==
    CASE alg = 3             -> LayerMajor(k, v, 1, 2)
      [] alg = 5             -> LayerMajor(k, v, 1, top)
      [] alg = 9             -> LayerMajor(k, v, lo, hi)
      [] alg \in ExtendFirst -> LayerMajor(k, e, 1, 1) \o LayerMajor(k, v, 1, top)
      [] alg \in {7, 12}     -> LayerMajor(k, v \o e, 1, top)
      [] alg \in {10, 13}    -> LayerMajor(k, v \o e, lo, hi)

\* Everything an algorithm may request, whatever the throughput, the viewport
\* errors that make it extend the view, and its window.  The bitrate of a layer
\* grows with the layer (metadata.cfg), so the first candidate that does not
\* fit is the last one tried.
Offers(alg, k, v, adj, top) ==
    CASE alg \in UniformLayers -> {TileMajor(k, v, l) : l \in 0 .. top}
      [] alg = 4 -> UNION {Selected(k, v, f) : f \in [ToSet(v) -> 0 .. 2]}
      [] OTHER   ->
           UNION {Prefixes(Candidates(alg, k, v, e, lo, hi, top)) :
                      e \in IF alg \in Extending THEN {<<>>, adj} ELSE {<<>>},
                      lo \in IF alg \in MovingWindow THEN 1 .. top ELSE {1},
                      hi \in IF alg \in MovingWindow THEN 1 .. top ELSE {top}}

\* The tiles recorded as requested by the decision: all tiles in view, or those
\* that were requested.  The tiles next to the view are not recorded.
Recorded(alg, v, requests) ==
    IF alg \in {1, 2, 4} THEN {requests[i].fid : i \in DOMAIN requests}
    ELSE ToSet(v)
=============================================================================
