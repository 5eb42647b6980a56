----------------------------- MODULE Streaming -----------------------------
(***************************************************************************)
(* The download engines of the client (nghttp.cc) running against the      *)
(* playback thread of Player: MMSP (ALG 5, the default of metadata.cfg, to *)
(* 13) and UTD2017_adaptation_vr (ALG 1 to 4).                             *)
(*                                                                         *)
(* The network thread is one event loop.  It works in iterations: the      *)
(* engine decides what to request, either the base layer of one segment or *)
(* enhancement layers of tiles of the next segment to play; the iteration  *)
(* ends when the last of its streams has closed, and the close callback    *)
(* calls the engine again.  While streams are open, the frame callback     *)
(* cancels them when the segment's deadline has passed, and under MMSP     *)
(* re-decides once per iteration for the tiles that have come into view.   *)
(*                                                                         *)
(* The server and the connection are the environment: they deliver DATA,   *)
(* end a stream, or reset it.                                              *)
(***************************************************************************)
EXTENDS Player, Allocation

CONSTANTS
    BASE_BUFF_THRES, \* base_layer_buff of metadata.cfg, in segments of a second
    Algs,            \* algorithms the client may be configured with
    Views,           \* tiles in view, in the order their layers are requested
    Adjacent,        \* the tiles next to each view, as a sequence
    MaxResets        \* bound: streams the server resets

ASSUME ThresAssumption == BASE_BUFF_THRES \in Nat \ {0} /\ MaxResets \in Nat
ASSUME AlgAssumption ==
    /\ Algs \subseteq ALGS
    /\ \A alg \in Algs : EL_VER_NUM >= (IF alg \in {3, 4} THEN 2 ELSE 1)
ASSUME ViewAssumption ==
    /\ 0 \notin Tiles
    /\ \A v \in Views : /\ v \in Seq(Tiles) /\ v # <<>>
                        /\ \A i, j \in DOMAIN v : v[i] = v[j] => i = j
    /\ Adjacent \in [Views -> Seq(Tiles)]

VARIABLES
    ALG,             \* the algorithm of this client, never changed
    netpc,           \* where the network thread is
    INI_BUFFERING,   \* the buffer has not yet reached its threshold
    RE_BUFFERRING,   \* the buffer fell below half of it since
    LAST_ITER_MASK,  \* 1: the last decision was for enhancement layers
    EL_seg_id,       \* segment of the last enhancement decision
    seg_EL_download, \* segments whose enhancement iteration has ended
    iter_req_stream, \* chunks requested in this iteration, in order
    iter_req_stream_fin,      \* those whose stream has closed
    response_end,             \* those whose END_STREAM has arrived
    face_dow_data,            \* those with some data received
    closing,                  \* those with an RST_STREAM submitted
    cancelled_request_stream, \* those recorded as cancelled
    iter_tile_list,  \* tiles recorded for this iteration
    iter_re_decide,  \* the iteration must not be re-decided (again)
    req_s_num,       \* number of requested streams
    fin_s_num,       \* number of finished streams
    resets           \* streams reset by the server so far

engineVars == <<ALG, INI_BUFFERING, RE_BUFFERRING, LAST_ITER_MASK, EL_seg_id,
                seg_EL_download>>
iterVars == <<iter_req_stream, iter_req_stream_fin, response_end,
              face_dow_data, closing, cancelled_request_stream,
              iter_tile_list, iter_re_decide, req_s_num, fin_s_num>>
netVars == <<netpc, engineVars, iterVars, resets>>
vars == <<playerVars, netVars>>

\* Face 0 is the base layer of all tiles.
BASE == 0
Chunk == [sid : Segs, fid : Tiles \cup {BASE}, lid : Layers]

StreamingTypeOK ==
    /\ TypeOK
    /\ ALG \in Algs
    /\ netpc \in {"init", "decide", "low", "full", "base", "next", "head", "idle",
                 "close", "sleep", "stopped"}
    /\ INI_BUFFERING \in BOOLEAN
    /\ RE_BUFFERRING \in BOOLEAN
    /\ LAST_ITER_MASK \in {0, 1}
    /\ EL_seg_id \in 0 .. NO_SEG + 1
    /\ seg_EL_download \in SUBSET Segs
    /\ iter_req_stream \in Seq(Chunk)
    /\ iter_req_stream_fin \in SUBSET DOMAIN iter_req_stream
    /\ response_end \in SUBSET DOMAIN iter_req_stream
    /\ face_dow_data \in SUBSET DOMAIN iter_req_stream
    /\ closing \in SUBSET DOMAIN iter_req_stream
    /\ cancelled_request_stream \in SUBSET (Nat \ {0})
    /\ iter_tile_list \in SUBSET Tiles
    /\ iter_re_decide \in BOOLEAN
    /\ req_s_num \in Nat
    /\ fin_s_num \in Nat
    /\ resets \in 0 .. MaxResets

Init ==
    /\ PlayerInit
    /\ ALG \in Algs
    /\ netpc = "init"
    /\ INI_BUFFERING = TRUE
    /\ RE_BUFFERRING = FALSE
    /\ LAST_ITER_MASK = 1
    /\ EL_seg_id = 0
    /\ seg_EL_download = {}
    /\ iter_req_stream = <<>>
    /\ iter_req_stream_fin = {}
    /\ response_end = {}
    /\ face_dow_data = {}
    /\ closing = {}
    /\ cancelled_request_stream = {}
    /\ iter_tile_list = {}
    /\ iter_re_decide \in BOOLEAN
    /\ req_s_num = 0
    /\ fin_s_num = 0
    /\ resets = 0
-----------------------------------------------------------------------------
(***************************************************************************)
(* The decision engines.  They run inside the close callback.  MMSP looks  *)
(* at the buffer four times and then at the playback position, and the     *)
(* player may move between any two of these looks.  UTD2017_adaptation_vr  *)
(* looks at the buffer once.                                               *)
(***************************************************************************)
\* The first stream of the session has closed: adaptation starts.
StartAdaptation ==
    /\ netpc = "init" /\ pc # "exit"
    /\ netpc' = "decide"
    /\ UNCHANGED <<playerVars, engineVars, iterVars, resets>>

Threshold == BASE_BUFF_THRES * SD

\* Mutant: the buffer is never considered low.
HalfThreshold_Zero == 0

HalfThreshold == (BASE_BUFF_THRES \div 2) * SD

\* MMSP starts over: the first of its looks at the buffer ends the initial
\* buffering.
StartIteration ==
    /\ netpc = "decide" /\ pc # "exit"
    /\ ALG >= 5
    /\ cancelled_request_stream' = {}
    /\ req_s_num' = 0
    /\ INI_BUFFERING' = (INI_BUFFERING /\ base_layer_buff_sec < Threshold)
    /\ netpc' = "low"
    /\ UNCHANGED <<playerVars, ALG, RE_BUFFERRING, LAST_ITER_MASK, EL_seg_id,
                   seg_EL_download, iter_req_stream, iter_req_stream_fin,
                   response_end, face_dow_data, closing, iter_tile_list,
                   iter_re_decide, fin_s_num, resets>>

\* The second look: below half of the threshold the buffer must recover.
DetectLowBuffer ==
    /\ netpc = "low" /\ pc # "exit"
    /\ RE_BUFFERRING' = \/ RE_BUFFERRING
                        \/ base_layer_buff_sec < HalfThreshold /\ ~INI_BUFFERING
    /\ netpc' = "full"
    /\ UNCHANGED <<playerVars, ALG, INI_BUFFERING, LAST_ITER_MASK, EL_seg_id,
                   seg_EL_download, iterVars, resets>>

\* The third look: at the threshold it has recovered.
DetectRecovery ==
    /\ netpc = "full" /\ pc # "exit"
    /\ RE_BUFFERRING' =
           (RE_BUFFERRING /\ (INI_BUFFERING \/ base_layer_buff_sec < Threshold))
    /\ netpc' = "base"
    /\ UNCHANGED <<playerVars, ALG, INI_BUFFERING, LAST_ITER_MASK, EL_seg_id,
                   seg_EL_download, iterVars, resets>>

\* Mutant: a recovering buffer is not refilled.
WantsBase_NoRecovery ==
    /\ BL_seg_id < NO_SEG
    /\ ~RE_BUFFERRING
    /\ base_layer_buff_sec < 15 * Threshold
    /\ INI_BUFFERING \/ LAST_ITER_MASK = 1

\* Mutant: the last segment is left out (the test commented out at nghttp.cc:4561).
WantsBase_AllButLast ==
    /\ BL_seg_id < NO_SEG - 1
    /\ \/ ~INI_BUFFERING /\ RE_BUFFERRING
       \/ /\ base_layer_buff_sec < 15 * Threshold
          /\ INI_BUFFERING \/ LAST_ITER_MASK = 1

\* A base layer is requested while the buffer fills, after every enhancement
\* decision, and for as long as the buffer recovers.
WantsBase ==
    /\ BL_seg_id < NO_SEG
    /\ \/ ~INI_BUFFERING /\ RE_BUFFERRING
       \/ /\ base_layer_buff_sec < 15 * Threshold
          /\ INI_BUFFERING \/ LAST_ITER_MASK = 1

\* The fourth look at the buffer.
DecideBase ==
    /\ netpc = "base" /\ pc # "exit"
    /\ \/ /\ WantsBase
          /\ iter_req_stream' = <<StreamInfo(BL_seg_id, BASE, 0)>>
          /\ req_s_num' = 1
          /\ fin_s_num' = 0
          /\ LAST_ITER_MASK' = 0
          /\ netpc' = "idle"
       \/ /\ ~WantsBase
          /\ netpc' = "next"
          /\ UNCHANGED <<iter_req_stream, req_s_num, fin_s_num, LAST_ITER_MASK>>
    /\ UNCHANGED <<playerVars, ALG, INI_BUFFERING, RE_BUFFERRING, EL_seg_id,
                   seg_EL_download, iter_req_stream_fin, response_end,
                   face_dow_data, closing, cancelled_request_stream,
                   iter_tile_list, iter_re_decide, resets>>

\* UTD2017_adaptation_vr requests a base layer while the buffer is a segment
\* below its threshold.
StartIteration2017 ==
    /\ netpc = "decide" /\ pc # "exit"
    /\ ALG < 5
    /\ cancelled_request_stream' = {}
    /\ \/ /\ BL_seg_id < NO_SEG
          /\ base_layer_buff_sec < Threshold - SD
          /\ iter_req_stream' = <<StreamInfo(BL_seg_id, BASE, 0)>>
          /\ req_s_num' = 1
          /\ fin_s_num' = 0
          /\ netpc' = "idle"
       \/ /\ ~(BL_seg_id < NO_SEG /\ base_layer_buff_sec < Threshold - SD)
          /\ req_s_num' = 0
          /\ netpc' = "next"
          /\ UNCHANGED <<iter_req_stream, fin_s_num>>
    /\ UNCHANGED <<playerVars, engineVars, iter_req_stream_fin, response_end,
                   face_dow_data, closing, iter_tile_list, iter_re_decide, resets>>

\* The last segment is being played: the engine returns and is never called again.
CheckLastSegment ==
    /\ netpc = "next" /\ pc # "exit"
    /\ netpc' = IF playing_seg_id = NO_SEG - 1 THEN "stopped" ELSE "head"
    /\ UNCHANGED <<playerVars, engineVars, iterVars, resets>>

HeadNeeds(k) == k < NO_SEG /\ k \notin seg_EL_download

\* What is requested for the next segment, with v in view.  With no layer that
\* fits, ALG 1 and 2 leave fin_s_num alone.
RequestLayers(v) ==
    \E r \in Offers(ALG, EL_seg_id', v, Adjacent[v], EL_VER_NUM) :
        /\ iter_req_stream' = r
        /\ req_s_num' = Len(r)
        /\ iter_tile_list' = iter_tile_list \cup Recorded(ALG, v, r)
        /\ fin_s_num' = IF ALG \in UniformLayers /\ r = <<>> THEN fin_s_num ELSE 0

\* Mutant: no retry when there was nothing to request.
DecideEnhancement_NoRetry ==
    /\ netpc = "head" /\ pc # "exit"
    /\ EL_seg_id' = playing_seg_id + 1
    /\ \/ /\ HeadNeeds(EL_seg_id')
          /\ LAST_ITER_MASK' = 1
          /\ \E v \in Views : RequestLayers(v)
       \/ /\ ~HeadNeeds(EL_seg_id')
          /\ UNCHANGED <<LAST_ITER_MASK, fin_s_num, iter_tile_list,
                         iter_req_stream, req_s_num>>
    /\ netpc' = "idle"
    /\ UNCHANGED <<playerVars, ALG, INI_BUFFERING, RE_BUFFERRING, seg_EL_download,
                   iter_req_stream_fin, response_end, face_dow_data, closing,
                   cancelled_request_stream, iter_re_decide, resets>>

\* headNext() and the request loop: the segment after the one being played,
\* once per segment.  How many requests fit under the estimated throughput is
\* left open here and computed in Adaptation.  With none sent, the engine
\* sleeps for 100 ms and starts over.
DecideEnhancement ==
    /\ netpc = "head" /\ pc # "exit"
    /\ EL_seg_id' = playing_seg_id + 1
    /\ \/ /\ HeadNeeds(EL_seg_id')
          /\ LAST_ITER_MASK' = IF ALG >= 5 THEN 1 ELSE LAST_ITER_MASK
          /\ \E v \in Views : RequestLayers(v)
       \/ /\ ~HeadNeeds(EL_seg_id')
          /\ UNCHANGED <<LAST_ITER_MASK, fin_s_num, iter_tile_list,
                         iter_req_stream, req_s_num>>
    /\ netpc' = IF req_s_num' > 0 THEN "idle" ELSE "sleep"
    /\ UNCHANGED <<playerVars, ALG, INI_BUFFERING, RE_BUFFERRING, seg_EL_download,
                   iter_req_stream_fin, response_end, face_dow_data, closing,
                   cancelled_request_stream, iter_re_decide, resets>>
-----------------------------------------------------------------------------
(***************************************************************************)
(* on_frame_recv_callback2(): DATA, HEADERS and PUSH_PROMISE.              *)
(***************************************************************************)
Requested == DOMAIN iter_req_stream
Unfinished == Requested \ iter_req_stream_fin

\* Streams the library still delivers DATA for: it drops the DATA of a stream
\* with an RST_STREAM queued.
Receiving == Unfinished \ (closing \cup response_end)

\* Streams of tiles out of view, with nothing received.  face_dow_data is never
\* zeroed, so the test for that may also fail.
Stale(old) == {j \in Unfinished : /\ iter_req_stream[j].fid \in old
                                  /\ j \notin face_dow_data'}

\* The tiles of view v that are not recorded for this iteration, in its order.
NewTiles(v) == InOrderOf(v, ToSet(v) \ iter_tile_list)

\* Mutant: the added requests are not counted.
Redecide_Uncounted(v, l) ==
    LET old == iter_tile_list \ ToSet(v) IN
    \E new \in NewTiles(v) :
        /\ iter_re_decide' = TRUE
        /\ \E rst \in SUBSET Stale(old) :
               closing' = IF new = <<>> THEN closing ELSE closing \cup rst
        /\ iter_req_stream' = iter_req_stream \o TileMajor(EL_seg_id, new, l)
        /\ iter_tile_list' =
               IF l > 0 THEN iter_tile_list \cup ToSet(new) ELSE iter_tile_list
        /\ UNCHANGED <<req_s_num, cancelled_request_stream>>

\* Mutant: the added requests are for the segment being played.
Redecide_PlayingSegment(v, l) ==
    \E new \in NewTiles(v) :
    LET more == TileMajor(playing_seg_id, new, l)
    IN  /\ iter_re_decide' = TRUE
        /\ iter_req_stream' = iter_req_stream \o more
        /\ req_s_num' = req_s_num + Len(more)
        /\ UNCHANGED <<closing, iter_tile_list, cancelled_request_stream>>

\* Mutant: tiles that were in view before are requested again.
Redecide_AllTiles(v, l) ==
    LET more == TileMajor(EL_seg_id, v, l)
    IN  /\ iter_re_decide' = TRUE
        /\ iter_req_stream' = iter_req_stream \o more
        /\ req_s_num' = req_s_num + Len(more)
        /\ iter_tile_list' = iter_tile_list \cup ToSet(v)
        /\ UNCHANGED <<closing, cancelled_request_stream>>

\* trung_adaptation: v is in view now.  Streams of tiles that went out of view
\* are reset, but not recorded as cancelled; new tiles are requested with the l
\* layers that fit, l being left open.
Redecide(v, l) ==
    \E new \in NewTiles(v) :
    LET old == iter_tile_list \ ToSet(v)
        more == TileMajor(EL_seg_id, new, l)
    IN  /\ iter_re_decide' = TRUE
        /\ \E rst \in SUBSET Stale(old) :
               closing' = IF new = <<>> THEN closing ELSE closing \cup rst
        /\ iter_req_stream' = iter_req_stream \o more
        /\ req_s_num' = req_s_num + Len(more)
        /\ iter_tile_list' =
               IF l > 0 THEN iter_tile_list \cup ToSet(new) ELSE iter_tile_list
        /\ UNCHANGED cancelled_request_stream

\* Every stream of the iteration that has not closed is cancelled.
CancelIteration ==
    /\ cancelled_request_stream' = cancelled_request_stream \cup Unfinished
    /\ closing' = closing \cup Unfinished
    /\ UNCHANGED <<iter_re_decide, iter_req_stream, req_s_num, iter_tile_list>>

KeepIteration ==
    UNCHANGED <<iter_re_decide, closing, iter_req_stream, req_s_num,
                iter_tile_list, cancelled_request_stream>>

\* More than half of the time budget of the iteration is spent: certain once
\* the deadline has passed, possible at any moment before.
HalfBudgetSpent(late) == IF late THEN {TRUE} ELSE BOOLEAN

\* Mutant: a late base layer is cancelled as well.
OnData_CancelsBase(i, end) ==
    /\ netpc = "idle" /\ pc # "exit"
    /\ i \in Receiving
    /\ face_dow_data' = face_dow_data \cup {i}
    /\ response_end' = IF end THEN response_end \cup {i} ELSE response_end
    /\ netpc' = IF end THEN "close" ELSE "idle"
    /\ \/ /\ ~end /\ TRUE \in DeadlinePassed(iter_req_stream[i].sid)
          /\ CancelIteration
       \/ KeepIteration
    /\ UNCHANGED <<playerVars, engineVars, iter_req_stream_fin, fin_s_num, resets>>

\* A DATA frame of stream i; end says that it carries END_STREAM.  The late
\* test (not of ALG 1) and the re-decision (of MMSP) are for enhancement layers
\* of a segment after the first one.  END_STREAM is followed at once by the close callback.
OnData(i, end) ==
    /\ netpc = "idle" /\ pc # "exit"
    /\ i \in Receiving
    /\ end /\ iter_req_stream[i].fid = BASE => LinkAllows
    /\ face_dow_data' = face_dow_data \cup {i}
    /\ response_end' = IF end THEN response_end \cup {i} ELSE response_end
    /\ netpc' = IF end THEN "close" ELSE "idle"
    /\ LET c == iter_req_stream[i] IN
       IF c.sid > 0 /\ c.fid # BASE
       THEN \E late \in DeadlinePassed(c.sid) :
              \/ late /\ ~end /\ ALG # 1 /\ CancelIteration
              \/ /\ ~(late /\ ~end /\ ALG # 1)
                 /\ \E spent \in HalfBudgetSpent(late) :
                      IF /\ ALG >= 5 /\ spent /\ fin_s_num # req_s_num
                         /\ ~iter_re_decide /\ cancelled_request_stream = {}
                      THEN \E v \in Views, l \in 0 .. EL_VER_NUM : Redecide(v, l)
                      ELSE KeepIteration
       ELSE KeepIteration
    /\ UNCHANGED <<playerVars, engineVars, iter_req_stream_fin, fin_s_num, resets>>

\* HEADERS with END_STREAM: a response without a body, which the server sends
\* along with a push, or the trailers of one.  Late or not, nothing is cancelled.
OnHeadersEnd(i) ==
    /\ netpc = "idle" /\ pc # "exit"
    /\ i \in Receiving
    /\ iter_req_stream[i].fid = BASE => LinkAllows
    /\ response_end' = response_end \cup {i}
    /\ netpc' = "close"
    /\ KeepIteration
    /\ UNCHANGED <<playerVars, engineVars, iter_req_stream_fin, face_dow_data,
                   fin_s_num, resets>>

\* PUSH_PROMISE on stream i: the layer counts as not received so far.
OnPushPromise(i) ==
    /\ netpc = "idle" /\ pc # "exit"
    /\ i \in Receiving
    /\ face_dow_data' = face_dow_data \ {i}
    /\ KeepIteration
    /\ UNCHANGED <<playerVars, engineVars, netpc, iter_req_stream_fin,
                   response_end, fin_s_num, resets>>
-----------------------------------------------------------------------------
(***************************************************************************)
(* on_stream_close_callback() for a requested stream.                      *)
(***************************************************************************)
\* Mutant: the stream is compared with the deadline of the next segment.
Late_NextDeadline(i) ==
    IF i \in response_end \/ clock = Unset
    THEN DeadlinePassed(iter_req_stream[i].sid + 1) ELSE {FALSE}

\* response_end_time is only written by END_STREAM.  Without it the recorded
\* end time lies far in the past, before every deadline that was ever set.
Late(i) ==
    IF i \in response_end \/ clock = Unset
    THEN DeadlinePassed(iter_req_stream[i].sid) ELSE {FALSE}

\* The layer is marked as present unless the stream is late or cancelled.
MarkLayer(c, late, cancel) ==
    tile_ver' = IF late \/ cancel THEN tile_ver
                ELSE IF c.fid = BASE THEN WithBase(c.sid)
                ELSE WithTile(c.sid, c.fid, c.lid)

\* Mutant: the requests of the iteration are not cleared.
EndIteration_KeepsStreams(c) ==
    /\ IF c.fid = BASE
       THEN /\ base_layer_buff_sec' = base_layer_buff_sec + SD
            /\ BL_seg_id' = BL_seg_id + 1
            /\ UNCHANGED seg_EL_download
       ELSE /\ seg_EL_download' = seg_EL_download \cup {c.sid}
            /\ UNCHANGED <<base_layer_buff_sec, BL_seg_id>>
    /\ netpc' = "decide"
    /\ UNCHANGED <<iter_req_stream, iter_req_stream_fin, response_end,
                   face_dow_data, closing, iter_tile_list, iter_re_decide>>

\* Mutant: enhancement layers are counted into the buffer.
EndIteration_CountsAll(c) ==
    /\ base_layer_buff_sec' = base_layer_buff_sec + SD
    /\ IF c.fid = BASE
       THEN BL_seg_id' = BL_seg_id + 1 /\ UNCHANGED seg_EL_download
       ELSE seg_EL_download' = seg_EL_download \cup {c.sid} /\ UNCHANGED BL_seg_id
    /\ netpc' = "decide"
    /\ iter_req_stream' = <<>>
    /\ iter_req_stream_fin' = {}
    /\ response_end' = {}
    /\ face_dow_data' = {}
    /\ closing' = {}
    /\ iter_tile_list' = {}
    /\ iter_re_decide' \in BOOLEAN

\* The last stream of the iteration: a base layer is counted into the buffer,
\* an enhanced segment is ticked off, and MMSP starts the next iteration.  The
\* element of iter_re_decide that it will use was never initialised.
EndIteration(c) ==
    /\ IF c.fid = BASE
       THEN /\ base_layer_buff_sec' = base_layer_buff_sec + SD
            /\ BL_seg_id' = BL_seg_id + 1
            /\ UNCHANGED seg_EL_download
       ELSE /\ seg_EL_download' = seg_EL_download \cup {c.sid}
            /\ UNCHANGED <<base_layer_buff_sec, BL_seg_id>>
    /\ netpc' = "decide"
    /\ iter_req_stream' = <<>>
    /\ iter_req_stream_fin' = {}
    /\ response_end' = {}
    /\ face_dow_data' = {}
    /\ closing' = {}
    /\ iter_tile_list' = {}
    /\ iter_re_decide' \in BOOLEAN

ContinueIteration(i) ==
    /\ netpc' = "idle"
    /\ iter_req_stream_fin' = iter_req_stream_fin \cup {i}
    /\ UNCHANGED <<base_layer_buff_sec, BL_seg_id, seg_EL_download, closing,
                   iter_req_stream, response_end, face_dow_data,
                   iter_tile_list, iter_re_decide>>

\* Mutant: a cancelled stream is not counted as finished.
OnStreamClose_CancelledUncounted(i) ==
    LET c == iter_req_stream[i] IN
    /\ \E late \in Late(i) :
          MarkLayer(c, late, i \in cancelled_request_stream)
    /\ fin_s_num' =
           IF i \in cancelled_request_stream THEN fin_s_num ELSE fin_s_num + 1
    /\ IF fin_s_num' = req_s_num THEN EndIteration(c) ELSE ContinueIteration(i)
    /\ UNCHANGED <<state, pc, played_sec, playing_seg_id, seg_tile_version,
                   clock, ALG, INI_BUFFERING, RE_BUFFERRING, LAST_ITER_MASK,
                   EL_seg_id, cancelled_request_stream, req_s_num>>

OnStreamClose(i) ==
    LET c == iter_req_stream[i] IN
    /\ \E late \in Late(i) :
          MarkLayer(c, late, i \in cancelled_request_stream)
    /\ fin_s_num' = fin_s_num + 1
    /\ IF fin_s_num' = req_s_num THEN EndIteration(c) ELSE ContinueIteration(i)
    /\ UNCHANGED <<state, pc, played_sec, playing_seg_id, seg_tile_version,
                   clock, ALG, INI_BUFFERING, RE_BUFFERRING, LAST_ITER_MASK,
                   EL_seg_id, cancelled_request_stream, req_s_num>>

\* The stream has ended.
CloseEnded(i) ==
    /\ netpc = "close" /\ pc # "exit"
    /\ i \in response_end \ iter_req_stream_fin
    /\ OnStreamClose(i)
    /\ UNCHANGED resets

\* The RST_STREAM of a cancelled stream has been sent.
CloseReset(i) ==
    /\ netpc = "idle" /\ pc # "exit"
    /\ i \in closing \ iter_req_stream_fin
    /\ OnStreamClose(i)
    /\ UNCHANGED resets

\* The server resets the stream.
ServerReset(i) ==
    /\ netpc = "idle" /\ pc # "exit"
    /\ resets < MaxResets
    /\ i \in Receiving
    /\ iter_req_stream[i].fid = BASE => LinkAllows
    /\ resets' = resets + 1
    /\ OnStreamClose(i)
-----------------------------------------------------------------------------
Working ==
    netpc \in {"decide", "low", "full", "base", "next", "head", "close"}

\* A period of the clock.  It is long against the work of the network thread,
\* which is never in the middle of a callback when one passes, but may be in
\* the sleep of MMSP.
TimePasses ==
    /\ ~Working
    /\ Tick
    /\ netpc' = IF netpc = "sleep" THEN "decide" ELSE netpc
    /\ UNCHANGED <<engineVars, iterVars, resets>>

Playback == PlayerStep /\ UNCHANGED netVars

Decide ==
    \/ StartAdaptation
    \/ StartIteration \/ StartIteration2017 \/ DetectLowBuffer \/ DetectRecovery \/ DecideBase
    \/ CheckLastSegment \/ DecideEnhancement

Close == \E i \in Requested : CloseEnded(i) \/ CloseReset(i)

\* What the connection brings, in any order that the server and the library
\* allow: a frame of a requested stream.
Network ==
    \E i \in Requested :
        \/ \E end \in BOOLEAN : OnData(i, end)
        \/ OnHeadersEnd(i) \/ OnPushPromise(i) \/ ServerReset(i)

Terminated == pc = "exit" /\ UNCHANGED vars

Next == Playback \/ TimePasses \/ Decide \/ Close \/ Network \/ Terminated

Spec == Init /\ [][Next]_vars

\* Both threads run, time passes, and the server ends what it was asked for.
Fairness ==
    /\ WF_vars(Playback)
    /\ WF_vars(TimePasses)
    /\ WF_vars(Decide)
    /\ WF_vars(Close)
    /\ WF_vars(\E i \in Requested : OnData(i, TRUE) \/ OnHeadersEnd(i))

FairSpec == Spec /\ Fairness
-----------------------------------------------------------------------------
(***************************************************************************)
(* Correctness.                                                            *)
(***************************************************************************)
InIteration == netpc \in {"idle", "close"}

\* The counters that end an iteration tell the truth: they count the requests
\* and the closed streams, also after a re-decision added requests, so an
\* iteration ends with its last stream and with no other.
IterationAccounting ==
    InIteration => /\ req_s_num = Len(iter_req_stream)
                   /\ fin_s_num = Cardinality(iter_req_stream_fin)
                   /\ fin_s_num < req_s_num

\* An iteration is one base layer or the enhancement layers of one segment.
\* The close callback relies on it: it credits the iteration to the segment and
\* face of whichever stream happens to close last.
IterationOfOneSegment ==
    InIteration =>
        \/ iter_req_stream = <<StreamInfo(BL_seg_id, BASE, 0)>>
        \/ \A i \in Requested : /\ iter_req_stream[i].sid = EL_seg_id
                                /\ iter_req_stream[i].fid # BASE

\* "avoid repeated downloads on the same segment" (nghttp.cc:5457): no layer of
\* a tile is requested twice, neither in an iteration, where a re-decision adds
\* requests, nor in a later one.  The algorithms that request tiles next to the
\* view do not record them, and request them again when they come into view.
NoChunkTwice ==
    /\ ALG \notin Extending =>
           \A i, j \in Requested : iter_req_stream[i] = iter_req_stream[j] => i = j
    /\ \A i \in Requested : iter_req_stream[i].fid # BASE
                               => iter_req_stream[i].sid \notin seg_EL_download

\* Within an iteration, a tile's layer is never requested without the layers
\* below it, except by the algorithms with a window of layers.
LayersFromBelow ==
    ALG \notin MovingWindow =>
    \A i \in Requested : \A l \in 1 .. iter_req_stream[i].lid - 1 :
        \E j \in Requested :
            iter_req_stream[j] = [iter_req_stream[i] EXCEPT !.lid = l]

\* "never cancel a base layer" (nghttp.cc:5465): no stream of a base layer is
\* reset or recorded as cancelled by the client.
BaseNeverCancelled ==
    InIteration => \A i \in closing \cup cancelled_request_stream :
                       iter_req_stream[i].fid # BASE

\* Enhancement layers are only requested for a segment whose base layer is in
\* the buffer, although the buffer was looked at before the playback position.
EnhancementOnTopOfBase ==
    InIteration => \A i \in Requested :
        iter_req_stream[i].fid # BASE => iter_req_stream[i].sid < BL_seg_id

\* The engine gives up for good only when no base layer is left to request.
StopsOnlyWhenComplete == netpc = "stopped" => BL_seg_id = NO_SEG

\* A layer that arrived in full is marked as present only while its segment
\* has not started playing: what a segment is played with is settled by its
\* deadline.
LateNeverMarked ==
    [][ \A k \in Segs : netpc = "close" /\ tile_ver'[k] # tile_ver[k]
                          => playing_seg_id < k ]_vars

\* "update tiles' versions only if the tile is neither a late tile nor
\* canceled tile" (nghttp.cc:5434): a stream the client reset leaves no mark.
ResetNeverMarked ==
    [][ netpc = "idle" /\ fin_s_num' = fin_s_num + 1 /\ resets' = resets
          => tile_ver' = tile_ver ]_vars

\* The engine is a correct environment of the playback thread.
PlayerRefined == PlayerSpec

\* Every iteration ends.
IterationEnds == InIteration ~> (netpc = "decide" \/ pc = "exit")

\* Every base layer is downloaded.
AllBaseLayersArrive == <>(BL_seg_id = NO_SEG)

\* When MMSP says "initial buffering finsihed" (nghttp.cc:3243), playback
\* starts.
BufferingFinishedPlays == ~INI_BUFFERING ~> (state # INITIAL_BUFFERING)
=============================================================================
