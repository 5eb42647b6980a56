---------------------------- MODULE MCStreaming ----------------------------
(***************************************************************************)
(* TLC instances of Streaming.  The tiles are numbers in a .cfg, so that   *)
(* the views can be written as sequences of them here.                     *)
(***************************************************************************)
EXTENDS Streaming

\* One tile, always in view.
OneTile == {<<1>>}

\* ... and there is no other.
Alone == [v \in OneTile |-> <<>>]

\* Two tiles, one in view at a time: turning the head brings one into view and
\* takes the other out of it.
TurningHead == {<<1>>, <<2>>}

\* The other of the two tiles.
NextToIt == [v \in TurningHead |-> SelectSeq(<<1, 2>>, LAMBDA t : t \notin ToSet(v))]

\* What is still read of the network thread: whether data or END_STREAM of a
\* stream has arrived matters until the stream closes.
LiveNet == <<netpc, engineVars, resets, iter_req_stream, iter_req_stream_fin,
             response_end \ iter_req_stream_fin,
             face_dow_data \ iter_req_stream_fin, closing,
             cancelled_request_stream, iter_tile_list, iter_re_decide,
             req_s_num, fin_s_num>>

LiveView == <<playerVars, LiveNet>>

\* What decides the steps of the two threads: everything but the layers that
\* arrived, which no guard reads.
ControlView == <<state, pc, base_layer_buff_sec, played_sec, playing_seg_id,
                 clock, BL_seg_id, LiveNet>>
=============================================================================
