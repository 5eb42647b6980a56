----------------------------- MODULE Adaptation -----------------------------
(***************************************************************************)
(* How much an allocation algorithm (ALG of metadata.cfg) requests: the    *)
(* throughput estimate it budgets with, the request loops of MMSP and      *)
(* UTD2017_adaptation_vr, and the window of layers that ALG 9, 10 and 13   *)
(* carry from one decision to the next.  Streaming leaves open which of    *)
(* the lists of Offers is requested; RequestsOffered justifies that.       *)
(*                                                                         *)
(* Bitrates are integers (kbps).  Throughputs are kept in sixths, so that  *)
(* the mean of one, two or three samples is exact; the rounding of the     *)
(* code's doubles is not modelled.                                         *)
(***************************************************************************)
EXTENDS Allocation, Sums, FiniteSets, FiniteSetsExt

CONSTANTS
    BASE_LAYER_BR,  \* base_layer_br of metadata.cfg
    ENHA_LAYER_BR,  \* enha_layer_br of metadata.cfg, one for each layer
    Algs,           \* algorithms the client may be configured with
    Views,          \* tiles in view, as sequences
    Adjacent,       \* the tiles next to each view, as a sequence
    PixelsOf,       \* pixels of each tile in view, for each view
    Samples,        \* bound: throughputs an iteration may measure
    TimeLeft        \* bound: time to the deadline, in hundredths of a segment

EL_VER_NUM == Len(ENHA_LAYER_BR)

ASSUME BitrateAssumption ==
    /\ BASE_LAYER_BR \in Nat
    /\ ENHA_LAYER_BR \in Seq(Nat \ {0})
    /\ \A l \in 2 .. EL_VER_NUM : ENHA_LAYER_BR[l - 1] <= ENHA_LAYER_BR[l]
    /\ Algs \subseteq ALGS
    /\ EL_VER_NUM >= 2
    /\ Samples \subseteq Nat /\ IsFiniteSet(Samples) /\ TimeLeft \subseteq Int

\* Tiles have numbers, and a view lists each of its tiles once.
ASSUME ViewAssumption ==
    \A v \in Views : /\ v \in Seq(Nat) /\ Adjacent[v] \in Seq(Nat)
                     /\ \A i, j \in DOMAIN v : v[i] = v[j] => i = j

VARIABLES
    ALG,            \* the algorithm of this client, never changed
    phase,          \* the engine decides, or waits for what it requested
    iter_sam_thrp,  \* the last three samples, or those there are
    iter_est_thrp,  \* estimate of this iteration, in sixths
    iter_smooth_bitrate, \* smoothed estimate of this iteration, in sixths
    min_layerId,    \* window of layers of the next decision
    max_layerId,
    view,           \* tiles in view in this decision
    iter_down_time_budget, \* time to the deadline in this decision
    requests        \* the requests of this iteration

vars == <<ALG, phase, iter_sam_thrp, iter_est_thrp, iter_smooth_bitrate,
          min_layerId, max_layerId, view, iter_down_time_budget, requests>>

\* Uninitialised int of the stack; what matters is its place among the layers.
Garbage == -1 .. EL_VER_NUM + 2

AdaptationTypeOK ==
    /\ ALG \in Algs
    /\ phase \in {"decide", "base", "layers"}
    /\ iter_sam_thrp \in UNION {[1 .. n -> Samples] : n \in 0 .. 3}
    /\ iter_est_thrp \in Nat
    /\ iter_smooth_bitrate \in Nat
    /\ min_layerId \in -2 .. EL_VER_NUM + 1
    /\ max_layerId \in 0 .. 4 + EL_VER_NUM
    /\ view \in Views \cup {<<>>}
    /\ iter_down_time_budget \in TimeLeft \cup {0}
    /\ \A i \in DOMAIN requests : requests[i].lid \in 1 .. EL_VER_NUM

Init ==
    /\ ALG \in Algs
    /\ phase = "decide"
    /\ iter_sam_thrp = <<>>
    /\ iter_est_thrp = 0
    /\ iter_smooth_bitrate = 0
    /\ min_layerId = 1
    /\ max_layerId = 4
    /\ view = <<>>
    /\ iter_down_time_budget = 0
    /\ requests = <<>>
-----------------------------------------------------------------------------
(***************************************************************************)
(* Throughput estimation.                                                  *)
(***************************************************************************)
\* The mean of up to three samples, in sixths.
est_iter_thrp(samples) ==
    IF samples = <<>> THEN 0
    ELSE (6 \div Len(samples)) * SumOf(samples)

\* The estimate is followed in steps.
cal_smooth_bitrate(est, last, step) ==
    CASE est < last - 6 * step -> last - 6 * step
      [] est > last + 6 * step -> last + 6 * step
      [] OTHER -> est

Step == IF ALG = 11 THEN 500 ELSE 200
-----------------------------------------------------------------------------
(***************************************************************************)
(* The request loops.                                                      *)
(***************************************************************************)
\* Bitrate of layers 1 to l of a tile.
UpTo[l \in 0 .. EL_VER_NUM] == IF l = 0 THEN 0 ELSE UpTo[l - 1] + ENHA_LAYER_BR[l]

\* With sum requested, another layer stays below 0.9 of the budget.
Fits(sum, lid, budget) == 60 * (sum + ENHA_LAYER_BR[lid]) < 9 * budget

\* Mutant: the base layer is not counted.
Greedy_WithoutBase(candidates, budget) ==
    FoldLeft(LAMBDA acc, c :
                 IF Fits(acc.sum, c.lid, budget)
                 THEN [sum |-> acc.sum + ENHA_LAYER_BR[c.lid],
                       taken |-> Append(acc.taken, c)]
                 ELSE acc,
             [sum |-> 0, taken |-> <<>>], candidates).taken

\* Mutant: the tiles are not started over for the next layer.
Greedy_OneLayer(candidates, budget) ==
    FoldLeft(LAMBDA acc, c :
                 IF Fits(acc.sum, c.lid, budget) /\ c.lid = candidates[1].lid
                 THEN [sum |-> acc.sum + ENHA_LAYER_BR[c.lid],
                       taken |-> Append(acc.taken, c)]
                 ELSE acc,
             [sum |-> BASE_LAYER_BR, taken |-> <<>>], candidates).taken

\* Mutant: the layers are counted down.
Greedy_Down(candidates, budget) ==
    FoldLeft(LAMBDA acc, c :
                 IF Fits(acc.sum, c.lid, budget)
                 THEN [sum |-> acc.sum + ENHA_LAYER_BR[c.lid],
                       taken |-> Append(acc.taken, c)]
                 ELSE acc,
             [sum |-> BASE_LAYER_BR, taken |-> <<>>], Reverse(candidates)).taken

\* Every candidate that fits with the base layer and those before it.  A loop
\* over the tiles stops at the first one that does not fit; the others of that
\* layer, of the same bitrate, do not fit either.
Greedy(candidates, budget) ==
    FoldLeft(LAMBDA acc, c :
                 IF Fits(acc.sum, c.lid, budget)
                 THEN [sum |-> acc.sum + ENHA_LAYER_BR[c.lid],
                       taken |-> Append(acc.taken, c)]
                 ELSE acc,
             [sum |-> BASE_LAYER_BR, taken |-> <<>>], candidates).taken

\* ALG 1 and 2: the layers that fit for all n tiles in view.
UniformLayer(n) ==
    Max({l \in 0 .. EL_VER_NUM :
             \A m \in 1 .. l : 6 * (BASE_LAYER_BR + UpTo[m] * n) <= iter_est_thrp})

\* ALG 4: layers for each tile in view that can be downloaded in time.
Feasible(v, time) ==
    {f \in [ToSet(v) -> 0 .. 2] :
        600 * (BASE_LAYER_BR + SumOf([i \in DOMAIN v |-> UpTo[f[v[i]]]]))
            <= iter_est_thrp * time}

\* g comes after f in the nested loops of ALG 4.
After(v, g, f) ==
    \E i \in DOMAIN v : /\ g[v[i]] > f[v[i]]
                        /\ \A j \in 1 .. i - 1 : g[v[j]] = f[v[j]]

\* The loops keep the last combination they reach; if they reach none, the
\* array is read uninitialised.
LastReached(v, time) ==
    IF Feasible(v, time) = {} THEN [ToSet(v) -> 0 .. 2]
    ELSE {f \in Feasible(v, time) : \A g \in Feasible(v, time) : ~After(v, g, f)}

\* The budget of the request loops.
thrp_budget == IF ALG \in {8, 11} THEN iter_smooth_bitrate ELSE iter_est_thrp
-----------------------------------------------------------------------------
(***************************************************************************)
(* Decisions.                                                              *)
(***************************************************************************)
ClampedMin == IF min_layerId < 1 THEN 1 ELSE min_layerId
ClampedMax == IF max_layerId > EL_VER_NUM THEN EL_VER_NUM ELSE max_layerId

\* Mutant: the upper extreme starts from the top of the window.
MoveWindow_FromTop(lo, hi, taken) ==
    LET lids == {taken[i].lid : i \in DOMAIN taken}
    IN  /\ max_layerId' = Max(lids \cup {hi}) + 1
        /\ min_layerId' = Min(lids \cup {hi}) - 1

\* The next window reaches from below the lowest to above the highest layer
\* requested; the two extremes start out at hi and lo.
MoveWindow(lo, hi, taken) ==
    LET lids == {taken[i].lid : i \in DOMAIN taken}
    IN  /\ max_layerId' = Max(lids \cup {lo}) + 1
        /\ min_layerId' = Min(lids \cup {hi}) - 1

Requested(v, time, taken) ==
    /\ requests' = taken
    /\ phase' = IF taken = <<>> THEN "decide" ELSE "layers"
    /\ view' = IF taken = <<>> THEN <<>> ELSE v
    /\ iter_down_time_budget' = IF taken = <<>> THEN 0 ELSE time

\* The segment requested plays no part here.
SEG == 1

\* ALG 1 and 2.
AllocateUniform(v) ==
    /\ phase = "decide"
    /\ ALG \in UniformLayers
    /\ Requested(v, 0, TileMajor(SEG, v, UniformLayer(Len(v))))
    /\ UNCHANGED <<ALG, iter_sam_thrp, iter_est_thrp, iter_smooth_bitrate,
                   min_layerId, max_layerId>>

\* ALG 4.
AllocateInTime(v, time) ==
    /\ phase = "decide"
    /\ ALG = 4
    /\ \E f \in LastReached(v, time) :
           \E r \in Selected(SEG, v, f) : Requested(v, time, r)
    /\ UNCHANGED <<ALG, iter_sam_thrp, iter_est_thrp, iter_smooth_bitrate,
                   min_layerId, max_layerId>>

\* The view is extended by the tiles next to it when predictions were bad.
Extensions(v) == IF ALG \in Extending THEN {<<>>, Adjacent[v]} ELSE {<<>>}

\* ALG 3, 5 to 8, 11 and 12.
AllocateGreedy(v) ==
    /\ phase = "decide"
    /\ ALG \in {3, 5, 6, 7, 8, 11, 12}
    /\ \E e \in Extensions(v) :
           Requested(v, 0, Greedy(Candidates(ALG, SEG, v, e, 1, EL_VER_NUM, EL_VER_NUM),
                                  thrp_budget))
    /\ UNCHANGED <<ALG, iter_sam_thrp, iter_est_thrp, iter_smooth_bitrate,
                   min_layerId, max_layerId>>

\* ALG 9 and 10, and ALG 13 as long as predictions are good.
AllocateWindow(v) ==
    /\ phase = "decide"
    /\ ALG \in MovingWindow
    /\ \E e \in IF ALG = 13 THEN {<<>>} ELSE Extensions(v) :
           LET taken == Greedy(Candidates(ALG, SEG, v, e, ClampedMin, ClampedMax,
                                          EL_VER_NUM), thrp_budget)
           IN  /\ Requested(v, 0, taken)
               /\ MoveWindow(ClampedMin, ClampedMax, taken)
    /\ UNCHANGED <<ALG, iter_sam_thrp, iter_est_thrp, iter_smooth_bitrate>>

\* ALG 13 after bad predictions: the window is opened, but the two extremes are
\* not initialised.
AllocateOpened(v) ==
    /\ phase = "decide"
    /\ ALG = 13
    /\ LET taken == Greedy(Candidates(13, SEG, v, Adjacent[v], 1, EL_VER_NUM,
                                      EL_VER_NUM), thrp_budget)
       IN  /\ Requested(v, 0, taken)
           /\ \E lo, hi \in Garbage : MoveWindow(lo, hi, taken)
    /\ UNCHANGED <<ALG, iter_sam_thrp, iter_est_thrp, iter_smooth_bitrate>>

\* The engine requests a base layer instead.
RequestBase ==
    /\ phase = "decide"
    /\ phase' = "base"
    /\ UNCHANGED <<ALG, iter_sam_thrp, iter_est_thrp, iter_smooth_bitrate,
                   min_layerId, max_layerId, view, iter_down_time_budget, requests>>

\* Mutant: the oldest sample is kept.
EndIteration_AllSamples(sample) ==
    /\ phase # "decide"
    /\ phase' = "decide"
    /\ iter_sam_thrp' = Append(iter_sam_thrp, sample)
    /\ iter_est_thrp' = est_iter_thrp(iter_sam_thrp')
    /\ iter_smooth_bitrate' =
           cal_smooth_bitrate(iter_est_thrp', iter_smooth_bitrate, Step)
    /\ requests' = <<>>
    /\ view' = <<>>
    /\ iter_down_time_budget' = 0
    /\ UNCHANGED <<ALG, min_layerId, max_layerId>>

\* The iteration ends with a sample, and the engine starts the next one.  It
\* estimates again on every retry, with the same result.
EndIteration(sample) ==
    /\ phase # "decide"
    /\ phase' = "decide"
    /\ iter_sam_thrp' = LET s == Append(iter_sam_thrp, sample)
                        IN  IF Len(s) > 3 THEN Tail(s) ELSE s
    /\ iter_est_thrp' = est_iter_thrp(iter_sam_thrp')
    /\ iter_smooth_bitrate' =
           IF ALG < 5 THEN iter_smooth_bitrate
           ELSE cal_smooth_bitrate(iter_est_thrp', iter_smooth_bitrate, Step)
    /\ requests' = <<>>
    /\ view' = <<>>
    /\ iter_down_time_budget' = 0
    /\ UNCHANGED <<ALG, min_layerId, max_layerId>>

Next ==
    \/ \E v \in Views : \/ AllocateUniform(v)
                        \/ \E time \in TimeLeft : AllocateInTime(v, time)
                        \/ AllocateGreedy(v)
                        \/ AllocateWindow(v)
                        \/ AllocateOpened(v)
    \/ RequestBase
    \/ \E sample \in Samples : EndIteration(sample)

Spec == Init /\ [][Next]_vars
-----------------------------------------------------------------------------
(***************************************************************************)
(* Correctness.                                                            *)
(***************************************************************************)
\* The bitrate of the segment with what was requested.
Rate(chunks) == BASE_LAYER_BR + SumOf([i \in DOMAIN chunks |-> ENHA_LAYER_BR[chunks[i].lid]])
Total == Rate(requests)

\* Whatever the throughput, the algorithms request one of the lists Streaming
\* chooses from.
RequestsOffered ==
    phase = "layers" =>
        requests \in Offers(ALG, SEG, view, Adjacent[view], EL_VER_NUM)

\* The request loops never ask for more than the link was measured to carry:
\* in the last three iterations, or ever for the algorithms that budget with
\* the smoothed bitrate, which lags behind.  ALG 4 counts on the time to the
\* deadline, and requests anything at all if not even the base layer fits.
WithinBudget ==
    phase = "layers" =>
        CASE ALG \in {8, 11} -> Total <= Max(Samples)
          [] ALG = 4 -> \/ Feasible(view, iter_down_time_budget) = {}
                        \/ 600 * Total <= iter_est_thrp * iter_down_time_budget
          [] OTHER -> 6 * Total <= iter_est_thrp

\* No algorithm without a window leaves out a layer that is affordable: of the
\* tiles in view, the next layer of none would have fit as well.  (ALG 1 and 2
\* add layers for all tiles in view or none.)
NothingLeftOut ==
    phase = "layers" /\ ALG \in {3, 5, 6, 7, 8, 11, 12} =>
        \A t \in ToSet(view) :
            LET has == {requests[i].lid :
                            i \in {j \in DOMAIN requests : requests[j].fid = t}}
                next == Cardinality(has) + 1
            IN  next <= (IF ALG = 3 THEN 2 ELSE EL_VER_NUM)
                    => ~Fits(Total, next, thrp_budget)

\* A layer above one that is missing cannot be shown.  ALG 9 and 10 may decide
\* with a window that is empty or leaves out layer 1, but never twice in a row:
\* such a window reaches up to layer 2 at most, so the next one starts at layer
\* 1, whether layer 2 was requested or nothing was.  A window that stays above
\* layer 1 would request nothing, or nothing of use, from then on.
WindowComesDown ==
    ALG \in {9, 10} => /\ ClampedMin > 1 => ClampedMax <= 2
                       /\ ClampedMin = 1 => ClampedMax >= 1

\* "update optimal solution if all tiles have been looped" (nghttp.cc:4667),
\* ALG "4: Optimal" (metadata.cfg:14): what ALG 4 requests has the best quality
\* that can be downloaded in time.  The quality of a tile with 0, 1 and 2 layers
\* is weighted by its pixels.
PSNR == [l \in 0 .. 2 |-> CASE l = 0 -> 125 [] l = 1 -> 325 [] l = 2 -> 725]
Quality(v, f) == MapThenSumSet(LAMBDA t : PSNR[f[t]] * PixelsOf[v][t], ToSet(v))
LayersOf(t) == Cardinality({i \in DOMAIN requests : requests[i].fid = t})

OptimalForView ==
    phase = "layers" /\ ALG = 4 =>
        \A g \in Feasible(view, iter_down_time_budget) :
            Quality(view, g) <= Quality(view, [t \in ToSet(view) |-> LayersOf(t)])
=============================================================================
