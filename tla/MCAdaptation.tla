---------------------------- MODULE MCAdaptation ----------------------------
(* TLC instances of Adaptation, with the bitrates of metadata.cfg. *)
EXTENDS Adaptation

\* enha_layer_br of metadata.cfg.
Layers4 == <<63, 115, 242, 483>>

\* Two tiles in view, the second with more pixels, or another tile alone; one
\* tile next to them.
TwoViews == {<<1, 2>>, <<3>>}
Next4 == [v \in TwoViews |-> <<4>>]
Pixels == [v \in TwoViews |-> [t \in ToSet(v) |-> IF t = 1 THEN 100 ELSE 300]]

\* Past the deadline, a segment before it, and one and a half.
LateToEarly == {-50, 100, 150}

\* Only ALG 8 and 11 read the smoothed bitrate.
ReadView == <<ALG, phase, iter_sam_thrp, min_layerId, max_layerId, view,
              iter_down_time_budget, requests,
              IF ALG \in {8, 11} THEN iter_smooth_bitrate ELSE 0>>
=============================================================================
