------------------------------- MODULE Player -------------------------------
(***************************************************************************)
(* The playback thread of the client (class Player, duc_metric.h) and the  *)
(* layer buffer it reads (class Buffer).  The thread shares with the       *)
(* network thread two objects, each behind its own mutex: the number of    *)
(* buffered milliseconds of base layer, and the table tile_ver of the      *)
(* tile layers that arrived.  Each of its looks at the buffer, and each of *)
(* its updates, is a step of its own here, so that the network thread may  *)
(* move between any two.  The versions of a segment are fetched in the     *)
(* step of the look that decided to fetch them: the network thread only    *)
(* ever adds, so what it does in between could as well have been before.   *)
(*                                                                         *)
(* Time is counted in sleeps of the playback thread (INTER = 100 ms).  SD  *)
(* is the number of them in a segment.                                     *)
(*                                                                         *)
(* The actions of the network thread are the environment of this module;   *)
(* Streaming.tla has the code that takes them.                             *)
(***************************************************************************)
EXTENDS Integers, FiniteSets

CONSTANTS
    NO_SEG,     \* number of segments of the video
    SD,         \* segment duration, in sleeps of the playback thread
    Tiles,      \* the tiles of a frame
    EL_VER_NUM, \* number of enhancement layers of a tile
    SlowLink    \* TRUE: a base layer takes longer than one sleep to arrive

ASSUME SegAssumption == NO_SEG \in Nat \ {0} /\ SD \in Nat \ {0}
ASSUME LayerAssumption == EL_VER_NUM \in Nat /\ Tiles # {} /\ SlowLink \in BOOLEAN

Segs == 0 .. NO_SEG - 1
Layers == 0 .. EL_VER_NUM
VIDEO_LEN == NO_SEG * SD

INITIAL_BUFFERING == 0
PLAYING == 1
RE_BUFFERING_STATE == 2

Unset == -1                     \* no deadline was ever written
Uninitialised == -1             \* an int read from fresh heap memory
NoVersion == [t \in {} |-> 0]   \* a row of seg_tile_version never assigned

VARIABLES
    state,               \* STATE: 0 initial buffering, 1 playing, 2 re-buffering
    pc,                  \* next step of the playback thread
    base_layer_buff_sec, \* buffered base layer
    played_sec,          \* video time played so far
    playing_seg_id,      \* segment being played, -1 before playback
    seg_tile_version,    \* versions a segment is played with, per segment
    clock,               \* time on the schedule of seg_playback_deadline
    tile_ver,            \* layers that arrived, per segment and tile
    BL_seg_id            \* base layers counted into the buffer so far

playerVars == <<state, pc, base_layer_buff_sec, played_sec, playing_seg_id,
                seg_tile_version, clock, tile_ver, BL_seg_id>>

TypeOK ==
    /\ state \in {INITIAL_BUFFERING, PLAYING, RE_BUFFERING_STATE}
    /\ pc \in {"loop", "advance", "segment", "empty", "sleep", "report", "exit"}
    /\ base_layer_buff_sec \in Int
    /\ played_sec \in 0 .. VIDEO_LEN
    /\ playing_seg_id \in -1 .. NO_SEG
    /\ seg_tile_version \in
         [Segs -> [Tiles -> {Uninitialised} \cup Layers] \cup {NoVersion}]
    /\ clock \in {Unset} \cup 0 .. VIDEO_LEN
    /\ tile_ver \in [Segs -> [Tiles -> SUBSET Layers]]
    /\ BL_seg_id \in 0 .. NO_SEG

PlayerInit ==
    /\ state = INITIAL_BUFFERING
    /\ pc = "loop"
    /\ base_layer_buff_sec = 0
    /\ played_sec = 0
    /\ playing_seg_id = -1
    /\ seg_tile_version = [k \in Segs |-> NoVersion]
    /\ clock = Unset
    /\ tile_ver = [k \in Segs |-> [t \in Tiles |-> {}]]
    /\ BL_seg_id = 0
-----------------------------------------------------------------------------
(***************************************************************************)
(* Deadlines.  seg_playback_deadline[k] is written for all k when playback *)
(* (re)starts at segment s: now + (k - s) * SD.  clock is the time on that *)
(* schedule, so the deadline of k has passed iff clock >= k * SD.  Before  *)
(* the first start the array is uninitialised heap memory: a comparison    *)
(* with it has either outcome.                                             *)
(***************************************************************************)
DeadlinePassed(k) == IF clock = Unset THEN BOOLEAN ELSE {clock >= k * SD}

Min2(a, b) == IF a < b THEN a ELSE b

\* Buffer::get_tile_version of one tile: the last layer before the first
\* missing one.  With no base layer the loop breaks before it writes ret[i].
TopLayer(arrived) ==
    IF 0 \notin arrived THEN Uninitialised
    ELSE CHOOSE j \in arrived : 0 .. j \subseteq arrived /\ j + 1 \notin arrived

get_tile_version(k) == [t \in Tiles |-> TopLayer(tile_ver[k][t])]

\* Buffer::update_tile_version: the base layer covers every tile.
WithBase(k) == [tile_ver EXCEPT ![k] = [t \in Tiles |-> @[t] \cup {0}]]
WithTile(k, t, l) == [tile_ver EXCEPT ![k][t] = @ \cup {l}]
-----------------------------------------------------------------------------
(***************************************************************************)
(* The loop of start_playback.                                             *)
(***************************************************************************)
\* Mutant: the deadlines are counted from now for every segment.
StartAt_DeadlinesFromZero(k) ==
    /\ state' = PLAYING
    /\ playing_seg_id' = k
    /\ seg_tile_version' = [seg_tile_version EXCEPT ![k] = get_tile_version(k)]
    /\ clock' = 0

\* The segment playback (re)starts with, and the deadlines that follow from it.
StartAt(k) ==
    /\ state' = PLAYING
    /\ playing_seg_id' = k
    /\ seg_tile_version' = [seg_tile_version EXCEPT ![k] = get_tile_version(k)]
    /\ clock' = k * SD

\* Mutant: playback starts whatever is in the buffer.
Poll_AnyBuffer(st, k) ==
    /\ pc = "loop"
    /\ played_sec < VIDEO_LEN
    /\ state = st
    /\ StartAt(k)
    /\ pc' = "sleep"
    /\ UNCHANGED <<base_layer_buff_sec, played_sec, tile_ver, BL_seg_id>>

\* STATE 0 or 2: the buffer is compared with exactly one segment.
Poll(st, k) ==
    /\ pc = "loop"
    /\ played_sec < VIDEO_LEN
    /\ state = st
    /\ IF base_layer_buff_sec = SD
       THEN StartAt(k)
       ELSE UNCHANGED <<state, playing_seg_id, seg_tile_version, clock>>
    /\ pc' = "sleep"
    /\ UNCHANGED <<base_layer_buff_sec, played_sec, tile_ver, BL_seg_id>>

PollStart == Poll(INITIAL_BUFFERING, 0)

PollResume == Poll(RE_BUFFERING_STATE, playing_seg_id)

\* STATE 1, first lock: decre_buff_size(INTER).
Drain ==
    /\ pc = "loop"
    /\ played_sec < VIDEO_LEN
    /\ state = PLAYING
    /\ base_layer_buff_sec' = base_layer_buff_sec - 1
    /\ pc' = "advance"
    /\ UNCHANGED <<state, played_sec, playing_seg_id, seg_tile_version, clock,
                   tile_ver, BL_seg_id>>

\* STATE 1, second lock: incre_play_time(INTER).
Advance ==
    /\ pc = "advance"
    /\ played_sec' = played_sec + 1
    /\ playing_seg_id' = played_sec' \div SD
    /\ pc' = "segment"
    /\ UNCHANGED <<state, base_layer_buff_sec, seg_tile_version, clock,
                   tile_ver, BL_seg_id>>

\* STATE 1, first look at the buffer: at a segment boundary with something
\* buffered, the versions of the new segment are fetched.
StartSegment ==
    /\ pc = "segment"
    /\ IF played_sec = playing_seg_id * SD /\ base_layer_buff_sec # 0
       THEN seg_tile_version' = [seg_tile_version EXCEPT
                ![playing_seg_id] = get_tile_version(playing_seg_id)]
       ELSE UNCHANGED seg_tile_version
    /\ pc' = "empty"
    /\ UNCHANGED <<state, base_layer_buff_sec, played_sec, playing_seg_id,
                   clock, tile_ver, BL_seg_id>>

\* Mutant: the player stalls only below zero.
CheckEmpty_BelowZero ==
    /\ pc = "empty"
    /\ state' = IF base_layer_buff_sec < 0 THEN RE_BUFFERING_STATE ELSE state
    /\ pc' = "sleep"
    /\ UNCHANGED <<base_layer_buff_sec, played_sec, playing_seg_id,
                   seg_tile_version, clock, tile_ver, BL_seg_id>>

\* Mutant: the player stalls with one period left.
CheckEmpty_Early ==
    /\ pc = "empty"
    /\ state' = IF base_layer_buff_sec <= 1 THEN RE_BUFFERING_STATE ELSE state
    /\ pc' = "sleep"
    /\ UNCHANGED <<base_layer_buff_sec, played_sec, playing_seg_id,
                   seg_tile_version, clock, tile_ver, BL_seg_id>>

\* STATE 1, second look at the buffer: nothing left means re-buffering.
CheckEmpty ==
    /\ pc = "empty"
    /\ state' = IF base_layer_buff_sec = 0 THEN RE_BUFFERING_STATE ELSE state
    /\ pc' = "sleep"
    /\ UNCHANGED <<base_layer_buff_sec, played_sec, playing_seg_id,
                   seg_tile_version, clock, tile_ver, BL_seg_id>>

\* The whole video was played: the report loop runs over the member
\* playing_seg_id itself, then exit(1) ends the process.
StartReport ==
    /\ pc = "loop"
    /\ played_sec >= VIDEO_LEN
    /\ playing_seg_id' = 0
    /\ pc' = "report"
    /\ UNCHANGED <<state, base_layer_buff_sec, played_sec, seg_tile_version,
                   clock, tile_ver, BL_seg_id>>

\* Mutant: the report loop runs one segment too far.
Report_OneTooFar ==
    /\ pc = "report"
    /\ playing_seg_id' = playing_seg_id + 1
    /\ pc' = IF playing_seg_id' > NO_SEG THEN "exit" ELSE "report"
    /\ UNCHANGED <<state, base_layer_buff_sec, played_sec, seg_tile_version,
                   clock, tile_ver, BL_seg_id>>

Report ==
    /\ pc = "report"
    /\ playing_seg_id' = playing_seg_id + 1
    /\ pc' = IF playing_seg_id' = NO_SEG THEN "exit" ELSE "report"
    /\ UNCHANGED <<state, base_layer_buff_sec, played_sec, seg_tile_version,
                   clock, tile_ver, BL_seg_id>>

PlayerStep ==
    \/ PollStart \/ PollResume
    \/ Drain \/ Advance \/ StartSegment \/ CheckEmpty
    \/ StartReport \/ Report

\* Time passes: a sleeping thread wakes after at least one period.
Tick ==
    /\ pc # "exit"
    /\ pc' = IF pc = "sleep" THEN "loop" ELSE pc
    /\ clock' = IF clock = Unset THEN Unset ELSE Min2(clock + 1, VIDEO_LEN)
    /\ UNCHANGED <<state, base_layer_buff_sec, played_sec, playing_seg_id,
                   seg_tile_version, tile_ver, BL_seg_id>>
-----------------------------------------------------------------------------
(***************************************************************************)
(* The network thread, as the player sees it (on_stream_close_callback).   *)
(***************************************************************************)
\* A player waiting for its first segment has looked at the buffer since the
\* last base layer arrived, or the link is fast enough to beat its sleep.
LinkAllows == SlowLink /\ state # PLAYING => base_layer_buff_sec # SD

\* Mutant: a late base layer is not counted into the buffer.
BaseLayerArrives_LateLost(late) ==
    /\ pc # "exit"
    /\ BL_seg_id < NO_SEG
    /\ LinkAllows
    /\ late => TRUE \in DeadlinePassed(BL_seg_id)
    /\ tile_ver' = IF late THEN tile_ver ELSE WithBase(BL_seg_id)
    /\ base_layer_buff_sec' = base_layer_buff_sec + (IF late THEN 0 ELSE SD)
    /\ BL_seg_id' = BL_seg_id + 1
    /\ UNCHANGED <<state, pc, played_sec, playing_seg_id, seg_tile_version, clock>>

\* The stream of the next base layer closes.  It is counted into the buffer
\* even when it is late and its tiles are not marked.  A stream that closes
\* without having ended has no end time and is never late.  Marking comes
\* first and counting second; no segment is fetched before it is counted, so
\* the playback thread cannot tell the two from one step.
BaseLayerArrives(late) ==
    /\ pc # "exit"
    /\ BL_seg_id < NO_SEG
    /\ LinkAllows
    /\ late => TRUE \in DeadlinePassed(BL_seg_id)
    /\ tile_ver' = IF late THEN tile_ver ELSE WithBase(BL_seg_id)
    /\ base_layer_buff_sec' = base_layer_buff_sec + SD
    /\ BL_seg_id' = BL_seg_id + 1
    /\ UNCHANGED <<state, pc, played_sec, playing_seg_id, seg_tile_version, clock>>

\* An enhancement layer is marked as present.
TileMarked(k, t, l) ==
    /\ pc # "exit"
    /\ tile_ver' = WithTile(k, t, l)
    /\ UNCHANGED <<state, pc, base_layer_buff_sec, played_sec, playing_seg_id,
                   seg_tile_version, clock, BL_seg_id>>

Environment ==
    \/ \E late \in BOOLEAN : BaseLayerArrives(late)
    \/ \E k \in Segs, t \in Tiles, l \in Layers \ {0} : TileMarked(k, t, l)

\* The process is gone.
Exited == pc = "exit" /\ UNCHANGED playerVars

PlayerNext == PlayerStep \/ Tick \/ Environment \/ Exited

PlayerSpec == PlayerInit /\ [][PlayerNext]_playerVars
-----------------------------------------------------------------------------
(***************************************************************************)
(* Correctness.                                                            *)
(***************************************************************************)
\* The period taken out of the buffer and not yet added to the play time:
\* decre_buff_size and incre_play_time take the mutex one after the other.
InTransit == IF pc = "advance" THEN 1 ELSE 0

\* Conservation.  Across every interleaving of the two threads, what is in the
\* buffer is what arrived less what was played: no update of
\* base_layer_buff_sec is lost and none is applied twice.
BufferConservation ==
    base_layer_buff_sec = SD * BL_seg_id - played_sec - InTransit

\* The buffer is never negative, so the tests "== 0" and "!= 0" of the
\* playback thread cannot be jumped over.
BufferNeverNegative == base_layer_buff_sec >= 0

\* Whenever a period is about to be played, or a segment's versions are about
\* to be fetched, that segment has been counted into the buffer (and so is
\* inside the arrays of NO_SEG entries).
PlayheadBacked ==
    \/ state = PLAYING /\ pc \in {"loop", "sleep"} /\ played_sec < VIDEO_LEN
    \/ pc = "segment" /\ base_layer_buff_sec # 0
    => played_sec < SD * BL_seg_id

\* The deadline of a segment is never later than the moment the player starts
\* it, which is what lets the network thread judge lateness from deadlines.
DeadlineBeforePlayback == clock # Unset => played_sec <= clock

\* A stall begins only at the end of the last segment received, so playback
\* resumes at a segment boundary and the deadlines recomputed from
\* playing_seg_id match the play time.
StallAtBoundary ==
    state = RE_BUFFERING_STATE /\ pc \in {"loop", "sleep"} /\ played_sec < VIDEO_LEN
        => played_sec = playing_seg_id * SD

\* Every segment being played has had its versions fetched
\* ("start new segment", duc_metric.h:463).
StartedHasVersions ==
    state = PLAYING /\ pc \in {"loop", "sleep"} /\ played_sec < VIDEO_LEN
        => seg_tile_version[playing_seg_id] # NoVersion

\* With a link slower than the playback thread's sleep, the video is played to
\* its end.
PlaybackCompletes == <>(pc = "exit")

-----------------------------------------------------------------------------
(***************************************************************************)
(* What the viewer sees of the playback thread.  STATE 2 after the last    *)
(* period is not a freeze: the loop is left at the next look at the time.  *)
(***************************************************************************)
Screen == CASE pc \in {"report", "exit"} -> "over"
            [] pc \notin {"report", "exit"} /\ state = INITIAL_BUFFERING -> "waiting"
            [] pc \notin {"report", "exit"} /\ state = RE_BUFFERING_STATE
                 /\ played_sec < VIDEO_LEN -> "frozen"
            [] OTHER -> "showing"

Viewer == INSTANCE Playback WITH
            screen <- Screen, received <- BL_seg_id, shown <- played_sec

\* start_playback keeps the promise of Playback: in order, each period once,
\* nothing before it is received, no freeze while something is left to show.
PlaybackKept == Viewer!ViewSpec
=============================================================================
