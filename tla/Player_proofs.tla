---------------------------- MODULE Player_proofs ----------------------------
(***************************************************************************)
(* Proofs about the playback thread, for every number and length of        *)
(* segments, every set of tiles and every number of layers.                *)
(*                                                                         *)
(* None of the safety properties of Player is inductive.  That the buffer  *)
(* never goes below zero, for instance, needs that a player in STATE 1 has *)
(* something buffered whenever it wakes up; that the deadlines are right   *)
(* after a stall needs that the stall began at the end of a segment, and   *)
(* that needs the conservation of the buffer.  IInv is their conjunction   *)
(* with what they rest on.                                                 *)
(***************************************************************************)
EXTENDS Player, Sums_proofs

\* What get_tile_version returns for a tile is a layer, or was never written.
LEMMA TopLayerType ==
    ASSUME NEW arrived \in SUBSET Layers
    PROVE  TopLayer(arrived) \in {Uninitialised} \cup Layers
<1> DEFINE Missing == Nat \ arrived
<1>1. PICK m \in Missing : \A y \in Missing : m <= y
  <2>1. EL_VER_NUM + 1 \in Missing
    BY LayerAssumption DEF Layers
  <2> QED
    BY <2>1, SmallestNat
<1>2. CASE 0 \notin arrived
  BY <1>2 DEF TopLayer
<1>3. CASE 0 \in arrived
  <2>1. /\ m - 1 \in arrived
        /\ 0 .. (m - 1) \subseteq arrived
        /\ (m - 1) + 1 \notin arrived
    BY <1>1, <1>3
  <2>2. \E j \in arrived : 0 .. j \subseteq arrived /\ j + 1 \notin arrived
    BY <2>1
  <2>3. TopLayer(arrived) \in arrived
    BY <1>3, <2>2 DEF TopLayer
  <2> QED
    BY <2>3
<1> QED
  BY <1>2, <1>3

\* Two multiples less than one duration apart are the same.
LEMMA SameMultiple ==
    ASSUME NEW a \in Nat, NEW b \in Nat, NEW d \in Nat \ {0},
           b * d <= a * d, a * d < b * d + d
    PROVE  a = b
<1>1. CASE a < b
  BY <1>1, MulMono
<1>2. CASE b < a
  BY <1>2, MulMono
<1> QED
  BY <1>1, <1>2
-----------------------------------------------------------------------------
\* Between two rounds of the playback loop.
Resting == pc \in {"loop", "sleep"}

\* After the playback loop.
Ended == pc \in {"report", "exit"}

\* Nothing has happened before the first start.
NotStarted ==
    state = INITIAL_BUFFERING =>
        Resting /\ played_sec = 0 /\ playing_seg_id = -1 /\ clock = Unset

\* Once started, the segment being played is the one the play time lies in.
Playhead ==
    state # INITIAL_BUFFERING =>
        /\ clock # Unset
        /\ playing_seg_id >= 0
        /\ ~Ended => /\ playing_seg_id * SD <= played_sec
                     /\ played_sec < playing_seg_id * SD + SD

\* A round of the loop is only under way in STATE 1, and a player in STATE 1
\* that rests has something to play.
PlayingBuffered ==
    /\ ~Resting /\ ~Ended => state = PLAYING
    /\ pc = "advance" => played_sec < VIDEO_LEN
    /\ state = PLAYING /\ Resting => base_layer_buff_sec > 0

\* The report begins after the last period of the video.
Reporting ==
    Ended => /\ played_sec = VIDEO_LEN
             /\ pc = "report" => playing_seg_id \in Segs

\* A player in STATE 2 is at the start of its segment.
Stalled ==
    state = RE_BUFFERING_STATE /\ Resting => played_sec = playing_seg_id * SD

\* The schedule is ahead of the play time, and strictly so after a sleep.
AheadOfDeadlines ==
    /\ clock # Unset => played_sec <= clock
    /\ state = PLAYING /\ pc \in {"loop", "advance"} /\ played_sec < VIDEO_LEN
           => played_sec < clock

\* The inductive invariant.
IInv ==
    /\ TypeOK
    /\ BufferConservation
    /\ BufferNeverNegative
    /\ NotStarted
    /\ Playhead
    /\ PlayingBuffered
    /\ Reporting
    /\ Stalled
    /\ AheadOfDeadlines
-----------------------------------------------------------------------------
\* get_tile_version gives every tile a layer or an unwritten int.
LEMMA VersionType ==
    ASSUME TypeOK, NEW k \in Segs
    PROVE  get_tile_version(k) \in [Tiles -> {Uninitialised} \cup Layers]
<1>1. \A t \in Tiles : tile_ver[k][t] \in SUBSET Layers
  BY DEF TypeOK
<1>2. \A t \in Tiles : TopLayer(tile_ver[k][t]) \in {Uninitialised} \cup Layers
  BY <1>1, TopLayerType
<1> QED
  BY <1>2 DEF get_tile_version

\* An update outside the domain of a function changes nothing.
LEMMA UpdateType ==
    ASSUME NEW S, NEW T, NEW f \in [S -> T], NEW k, NEW v, k \in S => v \in T
    PROVE  [f EXCEPT ![k] = v] \in [S -> T]
OBVIOUS

\* Marking a base layer keeps the table of layers well typed.
LEMMA WithBaseType ==
    ASSUME TypeOK, NEW k \in Segs
    PROVE  WithBase(k) \in [Segs -> [Tiles -> SUBSET Layers]]
BY LayerAssumption DEF TypeOK, WithBase, Layers

\* Marking a tile's layer keeps the table of layers well typed.
LEMMA WithTileType ==
    ASSUME TypeOK, NEW k \in Segs, NEW t \in Tiles, NEW l \in Layers
    PROVE  WithTile(k, t, l) \in [Segs -> [Tiles -> SUBSET Layers]]
BY DEF TypeOK, WithTile

\* IInv holds before the playback thread starts.
LEMMA InitIInv == PlayerInit => IInv
<1> SUFFICES ASSUME PlayerInit PROVE IInv
  OBVIOUS
<1> USE SegAssumption, LayerAssumption
    DEF PlayerInit, INITIAL_BUFFERING, PLAYING, RE_BUFFERING_STATE, Unset
<1>1. TypeOK
  BY DEF TypeOK, Segs, Layers, VIDEO_LEN, Uninitialised, NoVersion
<1>2. BufferConservation
  BY DEF BufferConservation, InTransit
<1>3. BufferNeverNegative
  BY DEF BufferNeverNegative
<1>4. NotStarted
  BY DEF NotStarted, Resting
<1>5. Playhead
  BY DEF Playhead, Ended
<1>6. PlayingBuffered
  BY DEF PlayingBuffered, Resting, Ended
<1>7. Reporting
  BY DEF Reporting, Ended, Segs
<1>8. Stalled
  BY DEF Stalled, Resting
<1>9. AheadOfDeadlines
  BY DEF AheadOfDeadlines
<1> QED
  BY <1>1, <1>2, <1>3, <1>4, <1>5, <1>6, <1>7, <1>8, <1>9 DEF IInv
-----------------------------------------------------------------------------
\* STATE 0 and STATE 2 preserve IInv.
LEMMA PollIInv ==
    ASSUME IInv, PollStart \/ PollResume
    PROVE  IInv'
<1> USE SegAssumption, LayerAssumption
    DEF IInv, TypeOK, Segs, VIDEO_LEN, Resting, Ended,
        INITIAL_BUFFERING, PLAYING, RE_BUFFERING_STATE, Unset,
        PollStart, PollResume, Poll, StartAt
<1>1. TypeOK'
  <2> DEFINE Rows == [Tiles -> {Uninitialised} \cup Layers] \cup {NoVersion}
  <2> SUFFICES ASSUME NEW k \in 0 .. NO_SEG, StartAt(k),
                      pc' = "sleep",
                      UNCHANGED <<base_layer_buff_sec, played_sec,
                                  tile_ver, BL_seg_id>>
               PROVE  TypeOK'
    BY DEF NotStarted, Playhead
  <2>1. k \in Segs => get_tile_version(k) \in Rows
    BY VersionType
  <2>2. seg_tile_version' \in [Segs -> Rows]
    BY <2>1, UpdateType
  <2>3. k * SD \in 0 .. VIDEO_LEN
    BY MulMono
  <2> QED
    BY <2>2, <2>3
<1>2. BufferConservation'
  BY DEF BufferConservation, InTransit
<1>3. BufferNeverNegative'
  BY DEF BufferNeverNegative, PlayingBuffered
<1>4. NotStarted'
  BY DEF NotStarted
<1>5. Playhead'
  BY DEF NotStarted, Playhead, PlayingBuffered
<1>6. PlayingBuffered'
  BY DEF PlayingBuffered, NotStarted, BufferNeverNegative
<1>7. Reporting'
  BY DEF Reporting, NotStarted, Playhead
<1>8. Stalled'
  <2>1. CASE PollStart
    BY <2>1 DEF Stalled, NotStarted
  <2>2. CASE PollResume
    BY <2>2 DEF Stalled
  <2> QED
    BY <2>1, <2>2
<1>9. AheadOfDeadlines'
  <2>1. CASE PollStart
    BY <2>1 DEF AheadOfDeadlines, NotStarted
  <2>2. CASE PollResume
    BY <2>2 DEF AheadOfDeadlines, Stalled
  <2> QED
    BY <2>1, <2>2
<1> QED
  BY <1>1, <1>2, <1>3, <1>4, <1>5, <1>6, <1>7, <1>8, <1>9

\* decre_buff_size preserves IInv.
LEMMA DrainIInv ==
    ASSUME IInv, Drain
    PROVE  IInv'
<1> USE SegAssumption, LayerAssumption
    DEF IInv, TypeOK, Segs, VIDEO_LEN, Resting, Ended,
        INITIAL_BUFFERING, PLAYING, RE_BUFFERING_STATE, Unset, Drain
<1>1. TypeOK'
  BY DEF Layers, Uninitialised
<1>2. BufferConservation'
  BY DEF BufferConservation, InTransit
<1>3. BufferNeverNegative'
  BY DEF BufferNeverNegative, PlayingBuffered
<1>4. NotStarted'
  BY DEF NotStarted
<1>5. Playhead'
  BY DEF NotStarted, Playhead, PlayingBuffered
<1>6. PlayingBuffered'
  BY DEF PlayingBuffered, NotStarted, BufferNeverNegative
<1>7. Reporting'
  BY DEF Reporting, NotStarted, Playhead
<1>8. Stalled'
  BY DEF Stalled, NotStarted, PlayingBuffered
<1>9. AheadOfDeadlines'
  BY DEF AheadOfDeadlines, NotStarted, PlayingBuffered, Playhead
<1> QED
  BY <1>1, <1>2, <1>3, <1>4, <1>5, <1>6, <1>7, <1>8, <1>9

\* incre_play_time preserves IInv.
LEMMA AdvanceIInv ==
    ASSUME IInv, Advance
    PROVE  IInv'
<1> USE SegAssumption, LayerAssumption
    DEF IInv, TypeOK, Segs, VIDEO_LEN, Resting, Ended,
        INITIAL_BUFFERING, PLAYING, RE_BUFFERING_STATE, Unset, Advance
<1>1. TypeOK'
  <2>1. played_sec + 1 \in Nat /\ played_sec + 1 <= NO_SEG * SD
    BY DEF PlayingBuffered
  <2>2. (played_sec + 1) \div SD \in 0 .. NO_SEG
    BY ONLY <2>1, SegAssumption, DivLe
  <2> QED
    BY <2>1, <2>2
<1>2. BufferConservation'
  BY DEF BufferConservation, InTransit
<1>3. BufferNeverNegative'
  BY DEF BufferNeverNegative, PlayingBuffered
<1>4. NotStarted'
  BY DEF NotStarted
<1>5. Playhead'
  <2> DEFINE next == (played_sec + 1) \div SD
  <2>1. /\ next \in Nat
        /\ next * SD <= played_sec + 1
        /\ played_sec + 1 < next * SD + SD
    <3>1. played_sec + 1 \in Nat
      OBVIOUS
    <3> QED
      BY ONLY <3>1, SegAssumption, DivBounds
  <2>2. playing_seg_id' = next /\ played_sec' = played_sec + 1
    OBVIOUS
  <2> HIDE DEF next
  <2> QED
    BY <2>1, <2>2 DEF NotStarted, Playhead
<1>6. PlayingBuffered'
  BY DEF PlayingBuffered, NotStarted, BufferNeverNegative
<1>7. Reporting'
  BY DEF Reporting, NotStarted, Playhead
<1>8. Stalled'
  BY DEF Stalled, NotStarted, PlayingBuffered
<1>9. AheadOfDeadlines'
  BY DEF AheadOfDeadlines, NotStarted, PlayingBuffered, Playhead
<1> QED
  BY <1>1, <1>2, <1>3, <1>4, <1>5, <1>6, <1>7, <1>8, <1>9

\* Fetching the versions of a segment preserves IInv.
LEMMA StartSegmentIInv ==
    ASSUME IInv, StartSegment
    PROVE  IInv'
<1> USE SegAssumption, LayerAssumption
    DEF IInv, TypeOK, Segs, VIDEO_LEN, Resting, Ended,
        INITIAL_BUFFERING, PLAYING, RE_BUFFERING_STATE, Unset, StartSegment
<1>1. TypeOK'
  <2> DEFINE Rows == [Tiles -> {Uninitialised} \cup Layers] \cup {NoVersion}
  <2>1. playing_seg_id \in Segs => get_tile_version(playing_seg_id) \in Rows
    BY VersionType
  <2>2. seg_tile_version' \in [Segs -> Rows]
    BY <2>1, UpdateType
  <2> QED
    BY <2>2
<1>2. BufferConservation'
  BY DEF BufferConservation, InTransit
<1>3. BufferNeverNegative'
  BY DEF BufferNeverNegative, PlayingBuffered
<1>4. NotStarted'
  BY DEF NotStarted
<1>5. Playhead'
  BY DEF NotStarted, Playhead, PlayingBuffered
<1>6. PlayingBuffered'
  BY DEF PlayingBuffered, NotStarted, BufferNeverNegative
<1>7. Reporting'
  BY DEF Reporting, NotStarted, Playhead
<1>8. Stalled'
  BY DEF Stalled, NotStarted, PlayingBuffered
<1>9. AheadOfDeadlines'
  BY DEF AheadOfDeadlines, NotStarted, PlayingBuffered, Playhead
<1> QED
  BY <1>1, <1>2, <1>3, <1>4, <1>5, <1>6, <1>7, <1>8, <1>9

\* Entering STATE 2 preserves IInv.
LEMMA CheckEmptyIInv ==
    ASSUME IInv, CheckEmpty
    PROVE  IInv'
<1> USE SegAssumption, LayerAssumption
    DEF IInv, TypeOK, Segs, VIDEO_LEN, Resting, Ended,
        INITIAL_BUFFERING, PLAYING, RE_BUFFERING_STATE, Unset, CheckEmpty
<1>1. TypeOK'
  BY DEF Layers, Uninitialised
<1>2. BufferConservation'
  BY DEF BufferConservation, InTransit
<1>3. BufferNeverNegative'
  BY DEF BufferNeverNegative, PlayingBuffered
<1>4. NotStarted'
  BY DEF NotStarted
<1>5. Playhead'
  BY DEF NotStarted, Playhead, PlayingBuffered
<1>6. PlayingBuffered'
  BY DEF PlayingBuffered, NotStarted, BufferNeverNegative
<1>7. Reporting'
  BY DEF Reporting, NotStarted, Playhead
<1>8. Stalled'
  <2> SUFFICES ASSUME base_layer_buff_sec = 0
               PROVE  played_sec = playing_seg_id * SD
    BY DEF Stalled, PlayingBuffered
  <2>1. played_sec = BL_seg_id * SD
    BY DEF BufferConservation, InTransit
  <2>2. /\ playing_seg_id * SD <= played_sec
        /\ played_sec < playing_seg_id * SD + SD
        /\ playing_seg_id \in Nat
    BY DEF NotStarted, Playhead
  <2>3. BL_seg_id = playing_seg_id
    BY <2>1, <2>2, SameMultiple
  <2> QED
    BY <2>1, <2>3
<1>9. AheadOfDeadlines'
  BY DEF AheadOfDeadlines, NotStarted, PlayingBuffered, Playhead
<1> QED
  BY <1>1, <1>2, <1>3, <1>4, <1>5, <1>6, <1>7, <1>8, <1>9

\* The end of the playback loop preserves IInv.
LEMMA StartReportIInv ==
    ASSUME IInv, StartReport
    PROVE  IInv'
<1> USE SegAssumption, LayerAssumption
    DEF IInv, TypeOK, Segs, VIDEO_LEN, Resting, Ended,
        INITIAL_BUFFERING, PLAYING, RE_BUFFERING_STATE, Unset, StartReport
<1>1. TypeOK'
  BY DEF Layers, Uninitialised
<1>2. BufferConservation'
  BY DEF BufferConservation, InTransit
<1>3. BufferNeverNegative'
  BY DEF BufferNeverNegative, PlayingBuffered
<1>4. NotStarted'
  BY DEF NotStarted
<1>5. Playhead'
  BY DEF NotStarted, Playhead, PlayingBuffered
<1>6. PlayingBuffered'
  BY DEF PlayingBuffered, NotStarted, BufferNeverNegative
<1>7. Reporting'
  BY DEF Reporting, NotStarted, Playhead
<1>8. Stalled'
  BY DEF Stalled, NotStarted, PlayingBuffered
<1>9. AheadOfDeadlines'
  BY DEF AheadOfDeadlines, NotStarted, PlayingBuffered, Playhead
<1> QED
  BY <1>1, <1>2, <1>3, <1>4, <1>5, <1>6, <1>7, <1>8, <1>9

\* The report loop preserves IInv.
LEMMA ReportIInv ==
    ASSUME IInv, Report
    PROVE  IInv'
<1> USE SegAssumption, LayerAssumption
    DEF IInv, TypeOK, Segs, VIDEO_LEN, Resting, Ended,
        INITIAL_BUFFERING, PLAYING, RE_BUFFERING_STATE, Unset, Report
<1>1. TypeOK'
  BY DEF Reporting
<1>2. BufferConservation'
  BY DEF BufferConservation, InTransit
<1>3. BufferNeverNegative'
  BY DEF BufferNeverNegative, PlayingBuffered
<1>4. NotStarted'
  BY DEF NotStarted
<1>5. Playhead'
  BY DEF NotStarted, Playhead, PlayingBuffered
<1>6. PlayingBuffered'
  BY DEF PlayingBuffered, NotStarted, BufferNeverNegative
<1>7. Reporting'
  BY DEF Reporting, NotStarted, Playhead
<1>8. Stalled'
  BY DEF Stalled, NotStarted, PlayingBuffered
<1>9. AheadOfDeadlines'
  BY DEF AheadOfDeadlines, NotStarted, PlayingBuffered, Playhead
<1> QED
  BY <1>1, <1>2, <1>3, <1>4, <1>5, <1>6, <1>7, <1>8, <1>9

\* The passing of time preserves IInv.
LEMMA TickIInv ==
    ASSUME IInv, Tick
    PROVE  IInv'
<1> USE SegAssumption, LayerAssumption
    DEF IInv, TypeOK, Segs, VIDEO_LEN, Resting, Ended,
        INITIAL_BUFFERING, PLAYING, RE_BUFFERING_STATE, Unset, Tick, Min2
<1>1. TypeOK'
  BY DEF Layers, Uninitialised
<1>2. BufferConservation'
  BY DEF BufferConservation, InTransit
<1>3. BufferNeverNegative'
  BY DEF BufferNeverNegative, PlayingBuffered
<1>4. NotStarted'
  BY DEF NotStarted
<1>5. Playhead'
  BY DEF NotStarted, Playhead, PlayingBuffered
<1>6. PlayingBuffered'
  BY DEF PlayingBuffered, NotStarted, BufferNeverNegative
<1>7. Reporting'
  BY DEF Reporting, NotStarted, Playhead
<1>8. Stalled'
  BY DEF Stalled, NotStarted, PlayingBuffered
<1>9. AheadOfDeadlines'
  BY DEF AheadOfDeadlines, NotStarted, PlayingBuffered, Playhead
<1> QED
  BY <1>1, <1>2, <1>3, <1>4, <1>5, <1>6, <1>7, <1>8, <1>9

\* The arrival of a base layer, late or not, preserves IInv.
LEMMA BaseLayerIInv ==
    ASSUME IInv, NEW late \in BOOLEAN, BaseLayerArrives(late)
    PROVE  IInv'
<1> USE SegAssumption, LayerAssumption
    DEF IInv, TypeOK, Segs, VIDEO_LEN, Resting, Ended,
        INITIAL_BUFFERING, PLAYING, RE_BUFFERING_STATE, Unset, BaseLayerArrives
<1>1. TypeOK'
  <2>1. tile_ver' \in [Segs -> [Tiles -> SUBSET Layers]]
    BY WithBaseType
  <2> QED
    BY <2>1
<1>2. BufferConservation'
  BY DEF BufferConservation, InTransit
<1>3. BufferNeverNegative'
  BY DEF BufferNeverNegative, PlayingBuffered
<1>4. NotStarted'
  BY DEF NotStarted
<1>5. Playhead'
  BY DEF NotStarted, Playhead, PlayingBuffered
<1>6. PlayingBuffered'
  BY DEF PlayingBuffered, NotStarted, BufferNeverNegative
<1>7. Reporting'
  BY DEF Reporting, NotStarted, Playhead
<1>8. Stalled'
  BY DEF Stalled, NotStarted, PlayingBuffered
<1>9. AheadOfDeadlines'
  BY DEF AheadOfDeadlines, NotStarted, PlayingBuffered, Playhead
<1> QED
  BY <1>1, <1>2, <1>3, <1>4, <1>5, <1>6, <1>7, <1>8, <1>9

\* The arrival of an enhancement layer preserves IInv.
LEMMA TileMarkedIInv ==
    ASSUME IInv, NEW k \in Segs, NEW t \in Tiles, NEW l \in Layers \ {0},
           TileMarked(k, t, l)
    PROVE  IInv'
<1> USE SegAssumption, LayerAssumption
    DEF IInv, TypeOK, Segs, VIDEO_LEN, Resting, Ended,
        INITIAL_BUFFERING, PLAYING, RE_BUFFERING_STATE, Unset, TileMarked
<1>1. TypeOK'
  <2>1. tile_ver' \in [Segs -> [Tiles -> SUBSET Layers]]
    BY WithTileType
  <2> QED
    BY <2>1
<1>2. BufferConservation'
  BY DEF BufferConservation, InTransit
<1>3. BufferNeverNegative'
  BY DEF BufferNeverNegative, PlayingBuffered
<1>4. NotStarted'
  BY DEF NotStarted
<1>5. Playhead'
  BY DEF NotStarted, Playhead, PlayingBuffered
<1>6. PlayingBuffered'
  BY DEF PlayingBuffered, NotStarted, BufferNeverNegative
<1>7. Reporting'
  BY DEF Reporting, NotStarted, Playhead
<1>8. Stalled'
  BY DEF Stalled, NotStarted, PlayingBuffered
<1>9. AheadOfDeadlines'
  BY DEF AheadOfDeadlines, NotStarted, PlayingBuffered, Playhead
<1> QED
  BY <1>1, <1>2, <1>3, <1>4, <1>5, <1>6, <1>7, <1>8, <1>9

\* A step that changes nothing preserves IInv.
LEMMA StutterIInv ==
    ASSUME IInv, UNCHANGED playerVars
    PROVE  IInv'
<1> USE SegAssumption, LayerAssumption
    DEF IInv, TypeOK, Segs, VIDEO_LEN, Resting, Ended,
        INITIAL_BUFFERING, PLAYING, RE_BUFFERING_STATE, Unset, playerVars
<1>1. TypeOK'
  BY DEF Layers, Uninitialised
<1>2. BufferConservation'
  BY DEF BufferConservation, InTransit
<1>3. BufferNeverNegative'
  BY DEF BufferNeverNegative, PlayingBuffered
<1>4. NotStarted'
  BY DEF NotStarted
<1>5. Playhead'
  BY DEF NotStarted, Playhead, PlayingBuffered
<1>6. PlayingBuffered'
  BY DEF PlayingBuffered, NotStarted, BufferNeverNegative
<1>7. Reporting'
  BY DEF Reporting, NotStarted, Playhead
<1>8. Stalled'
  BY DEF Stalled, NotStarted, PlayingBuffered
<1>9. AheadOfDeadlines'
  BY DEF AheadOfDeadlines, NotStarted, PlayingBuffered, Playhead
<1> QED
  BY <1>1, <1>2, <1>3, <1>4, <1>5, <1>6, <1>7, <1>8, <1>9

\* Every step of the playback thread and of its environment preserves IInv.
LEMMA NextIInv == IInv /\ [PlayerNext]_playerVars => IInv'
<1> SUFFICES ASSUME IInv, [PlayerNext]_playerVars
             PROVE  IInv'
  OBVIOUS
<1>1. CASE PlayerStep
  <2>1. CASE PollStart \/ PollResume
    BY <2>1, PollIInv
  <2>2. CASE Drain
    BY <2>2, DrainIInv
  <2>3. CASE Advance
    BY <2>3, AdvanceIInv
  <2>4. CASE StartSegment
    BY <2>4, StartSegmentIInv
  <2>5. CASE CheckEmpty
    BY <2>5, CheckEmptyIInv
  <2>6. CASE StartReport
    BY <2>6, StartReportIInv
  <2>7. CASE Report
    BY <2>7, ReportIInv
  <2> QED
    BY <1>1, <2>1, <2>2, <2>3, <2>4, <2>5, <2>6, <2>7 DEF PlayerStep
<1>2. CASE Tick
  BY <1>2, TickIInv
<1>3. CASE Environment
  <2>1. ASSUME NEW late \in BOOLEAN, BaseLayerArrives(late)
        PROVE  IInv'
    BY <2>1, BaseLayerIInv
  <2>2. ASSUME NEW k \in Segs, NEW t \in Tiles, NEW l \in Layers \ {0},
               TileMarked(k, t, l)
        PROVE  IInv'
    BY <2>2, TileMarkedIInv
  <2> QED
    BY <1>3, <2>1, <2>2 DEF Environment
<1>4. CASE Exited
  BY <1>4, StutterIInv DEF Exited
<1>5. CASE UNCHANGED playerVars
  BY <1>5, StutterIInv
<1> QED
  BY <1>1, <1>2, <1>3, <1>4, <1>5 DEF PlayerNext

\* IInv is an invariant of the playback thread.
LEMMA SpecIInv == PlayerSpec => []IInv
BY InitIInv, NextIInv, PTL DEF PlayerSpec

-----------------------------------------------------------------------------
\* Type correctness of the playback thread.  In particular the playback
\* position, the deadlines and the play time stay inside the video, whatever
\* the number and length of its segments.
THEOREM PlayerTypeCorrect == PlayerSpec => []TypeOK
<1>1. IInv => TypeOK
  BY DEF IInv
<1> QED
  BY <1>1, SpecIInv, PTL

\* No update of base_layer_buff_sec is lost or applied twice, in any
\* interleaving of the two threads.
THEOREM BufferConserved == PlayerSpec => []BufferConservation
<1>1. IInv => BufferConservation
  BY DEF IInv
<1> QED
  BY <1>1, SpecIInv, PTL

\* decre_buff_size never takes the buffer below zero.
THEOREM BufferStaysNonNegative == PlayerSpec => []BufferNeverNegative
<1>1. IInv => BufferNeverNegative
  BY DEF IInv
<1> QED
  BY <1>1, SpecIInv, PTL

\* The playback thread only plays, and only fetches the versions of, segments
\* whose base layer was counted into the buffer.
THEOREM PlayheadStaysBacked == PlayerSpec => []PlayheadBacked
<1>1. IInv => PlayheadBacked
  BY SegAssumption DEF IInv, TypeOK, BufferConservation, BufferNeverNegative,
     InTransit, PlayingBuffered, Resting, PlayheadBacked
<1> QED
  BY <1>1, SpecIInv, PTL

\* seg_playback_deadline never lies after the moment a segment is started.
THEOREM DeadlinesBeforePlayback == PlayerSpec => []DeadlineBeforePlayback
<1>1. IInv => DeadlineBeforePlayback
  BY DEF IInv, AheadOfDeadlines, DeadlineBeforePlayback
<1> QED
  BY <1>1, SpecIInv, PTL

\* A stall begins at a segment boundary, so the deadlines recomputed from
\* playing_seg_id when playback resumes are those of the play time.
THEOREM StallsAtBoundary == PlayerSpec => []StallAtBoundary
<1>1. IInv => StallAtBoundary
  BY DEF IInv, Stalled, Resting, StallAtBoundary
<1> QED
  BY <1>1, SpecIInv, PTL
-----------------------------------------------------------------------------
\* The playback thread begins as the viewer expects.
LEMMA InitView == PlayerInit => Viewer!ViewInit
BY DEF PlayerInit, Viewer!ViewInit, Screen, INITIAL_BUFFERING,
   RE_BUFFERING_STATE

\* What the viewer sees is the same when none of these four changed.
LEMMA ViewStutters ==
    ASSUME UNCHANGED <<state, pc, played_sec, BL_seg_id>>
    PROVE  UNCHANGED Viewer!viewVars
BY DEF Viewer!viewVars, Screen

\* STATE 0 and STATE 2 keep the viewer waiting, or let playback (re)start with
\* something to show.
LEMMA PollView ==
    ASSUME IInv, PollStart \/ PollResume
    PROVE  [Viewer!ViewNext]_Viewer!viewVars
<1> USE SegAssumption
    DEF IInv, TypeOK, INITIAL_BUFFERING, PLAYING, RE_BUFFERING_STATE,
        PollStart, PollResume, Poll, StartAt
<1>1. BL_seg_id' = BL_seg_id /\ played_sec' = played_sec
  OBVIOUS
<1>2. CASE base_layer_buff_sec = SD
  <2>1. played_sec < SD * BL_seg_id
    BY <1>2 DEF BufferConservation, InTransit
  <2>2. Screen' = "showing"
    BY <1>2 DEF Screen
  <2>3. CASE PollStart
    <3>1. Screen = "waiting" /\ BL_seg_id > 0
      BY <2>1, <2>3 DEF Screen
    <3> QED
      BY <1>1, <2>2, <3>1 DEF Viewer!ViewNext, Viewer!Begin
  <2>4. CASE PollResume
    <3>1. Screen = "frozen"
      BY <2>4 DEF Screen
    <3> QED
      BY <1>1, <2>1, <2>2, <3>1 DEF Viewer!ViewNext, Viewer!Thaw
  <2> QED
    BY <2>3, <2>4
<1>3. CASE base_layer_buff_sec # SD
  <2>1. Screen' = Screen
    BY <1>3 DEF Screen
  <2> QED
    BY <1>1, <2>1 DEF Viewer!viewVars
<1> QED
  BY <1>2, <1>3

\* A period that is shown was received, and no period is shown twice.
LEMMA AdvanceView ==
    ASSUME IInv, Advance
    PROVE  Viewer!ShowPeriod
<1> USE SegAssumption
    DEF IInv, TypeOK, INITIAL_BUFFERING, PLAYING, RE_BUFFERING_STATE, Advance
<1>1. played_sec < SD * BL_seg_id
  BY DEF BufferConservation, BufferNeverNegative, InTransit
<1>2. Screen = "showing" /\ Screen' = "showing"
  BY DEF Screen, PlayingBuffered, Resting, Ended
<1> QED
  BY <1>1, <1>2 DEF Viewer!ShowPeriod

\* The picture freezes only when all that was received has been shown.
LEMMA CheckEmptyView ==
    ASSUME IInv, CheckEmpty
    PROVE  [Viewer!ViewNext]_Viewer!viewVars
<1> USE SegAssumption
    DEF IInv, TypeOK, INITIAL_BUFFERING, PLAYING, RE_BUFFERING_STATE, CheckEmpty
<1>1. Screen = "showing" /\ UNCHANGED <<BL_seg_id, played_sec>>
  BY DEF Screen, PlayingBuffered, Resting, Ended
<1>2. CASE base_layer_buff_sec = 0 /\ played_sec < VIDEO_LEN
  <2>1. Screen' = "frozen"
    BY <1>2 DEF Screen, VIDEO_LEN
  <2>2. played_sec = SD * BL_seg_id
    BY <1>2 DEF BufferConservation, InTransit
  <2>3. BL_seg_id < NO_SEG
    BY <1>2, <2>2 DEF VIDEO_LEN
  <2> QED
    BY <1>1, <2>1, <2>2, <2>3 DEF Viewer!ViewNext, Viewer!Freeze
<1>3. CASE ~(base_layer_buff_sec = 0 /\ played_sec < VIDEO_LEN)
  <2>1. Screen' = "showing"
    BY <1>3 DEF Screen, PlayingBuffered, Resting, Ended, VIDEO_LEN
  <2> QED
    BY <1>1, <2>1 DEF Viewer!viewVars
<1> QED
  BY <1>2, <1>3

\* The playback loop ends with the last period of the video.
LEMMA StartReportView ==
    ASSUME IInv, StartReport
    PROVE  Viewer!Finish
<1> USE SegAssumption
    DEF IInv, TypeOK, INITIAL_BUFFERING, PLAYING, RE_BUFFERING_STATE, StartReport
<1>1. played_sec = SD * NO_SEG
  BY DEF VIDEO_LEN
<1>2. state # INITIAL_BUFFERING
  BY <1>1 DEF NotStarted
<1>3. Screen = "showing" /\ Screen' = "over"
  BY <1>1, <1>2 DEF Screen, VIDEO_LEN
<1> QED
  BY <1>1, <1>3 DEF Viewer!Finish

\* Every step of the playback thread and of its environment is a step of
\* Playback, or one the viewer does not see.
LEMMA NextView ==
    IInv /\ [PlayerNext]_playerVars => [Viewer!ViewNext]_Viewer!viewVars
<1> SUFFICES ASSUME IInv, [PlayerNext]_playerVars
             PROVE  [Viewer!ViewNext]_Viewer!viewVars
  OBVIOUS
<1>1. CASE PlayerStep
  <2>1. CASE PollStart \/ PollResume
    BY <2>1, PollView
  <2>2. CASE Drain
    BY <2>2 DEF Drain, Viewer!viewVars, Screen, PLAYING, INITIAL_BUFFERING,
       RE_BUFFERING_STATE
  <2>3. CASE Advance
    BY <2>3, AdvanceView DEF Viewer!ViewNext
  <2>4. CASE StartSegment
    BY <2>4 DEF StartSegment, Viewer!viewVars, Screen
  <2>5. CASE CheckEmpty
    BY <2>5, CheckEmptyView
  <2>6. CASE StartReport
    BY <2>6, StartReportView DEF Viewer!ViewNext
  <2>7. CASE Report
    BY <2>7 DEF Report, Viewer!viewVars, Screen
  <2> QED
    BY <1>1, <2>1, <2>2, <2>3, <2>4, <2>5, <2>6, <2>7 DEF PlayerStep
<1>2. CASE Tick
  BY <1>2 DEF Tick, Viewer!viewVars, Screen
<1>3. CASE Environment
  <2>1. ASSUME NEW late \in BOOLEAN, BaseLayerArrives(late)
        PROVE  Viewer!Receive
    BY <2>1 DEF BaseLayerArrives, Viewer!Receive, Screen
  <2>2. ASSUME NEW k \in Segs, NEW t \in Tiles, NEW l \in Layers \ {0},
               TileMarked(k, t, l)
        PROVE  UNCHANGED Viewer!viewVars
    BY <2>2, ViewStutters DEF TileMarked
  <2> QED
    BY <1>3, <2>1, <2>2 DEF Environment, Viewer!ViewNext
<1>4. CASE Exited \/ UNCHANGED playerVars
  BY <1>4, ViewStutters DEF Exited, playerVars
<1> QED
  BY <1>1, <1>2, <1>3, <1>4 DEF PlayerNext

\* start_playback, with any network thread, keeps the promise of Playback: the
\* video is shown in order, each period once, nothing before it was received,
\* and the picture freezes only when nothing received is left to show.
THEOREM PlayerKeepsPlayback == PlayerSpec => PlaybackKept
BY SpecIInv, InitView, NextView, PTL DEF PlayerSpec, PlaybackKept, Viewer!ViewSpec
=============================================================================
