---------------------------- MODULE Errors_proofs ----------------------------
(***************************************************************************)
(* Proofs that no frame of one endpoint of Connection ever makes the other *)
(* end the session with an error.                                          *)
(***************************************************************************)
EXTENDS Agreement_proofs
-----------------------------------------------------------------------------
(***************************************************************************)
(* The steps of the client.                                                *)
(***************************************************************************)
\* What is known of both sides before a step.
Whole(c, s, v, w) ==
    /\ Paired(c, s, v, w) /\ Core(c, s, v, w) /\ Settle(c, s, v, w)
    /\ c.goaway_flags # {} => "TERM_ON_SEND" \in c.goaway_flags
    /\ c.goaway_flags = {} => Balance(c, s, v, w, 0) = 0

\* What a step of the client that is not about settings leaves of it.
ClientGoes(c, d, s, v, w) ==
    /\ Core(d, s, v, w)
    /\ c.goaway_flags = {} => d.goaway_flags = {} /\ SameSettings(c, d)

LEMMA Owners ==
    ASSUME NEW c, NEW s, NEW v, NEW w, Typed(c, s, v, w), NEW k \in Nat
    PROVE  /\ is_my_stream_id(c, k) <=> Odd(k)
           /\ is_my_stream_id(s, k) <=> ~Odd(k)
<1>1. c \in SessionType(FALSE) /\ s \in SessionType(TRUE)
  BY DEF Typed
<1>2. FALSE \in BOOLEAN /\ TRUE \in BOOLEAN
  OBVIOUS
<1>3. is_my_stream_id(c, k) <=> Mine(FALSE, k)
  BY <1>1, <1>2, MineIs
<1>4. is_my_stream_id(s, k) <=> Mine(TRUE, k)
  BY <1>1, <1>2, MineIs
<1> QED
  BY <1>3, <1>4, OddIds

\* What the client has counted and what is on its way fit into the window.
LEMMA ReceivedFits ==
    ASSUME NEW c, NEW s, NEW v, NEW w, Whole(c, s, v, w), c.goaway_flags = {}
    PROVE  c.recv_window_size + Payload(w, 0) <= c.local_window_size
<1>1. Typed(c, s, v, w)
  BY DEF Whole, Paired
<1>2. Numbers(c, s, v, w)
  <2>1. c \in SessionType(FALSE) /\ s \in SessionType(TRUE)
    BY <1>1 DEF Typed
  <2>2. v \in Seq(AllFrames) /\ w \in Seq(AllFrames)
    BY <1>1, TypedFields
  <2>3. FALSE \in BOOLEAN /\ TRUE \in BOOLEAN
    OBVIOUS
  <2> QED
    BY <2>1, <2>2, <2>3, NumbersType
<1>3. 0 \in Levels
  BY StreamLevels
<1>4. /\ Credit(c.ob_reg, 0) \in Nat /\ Held(c, 0) \in Nat /\ Sendable(s, 0) \in Int
      /\ Credit(v, 0) \in Nat /\ Payload(w, 0) \in Nat
  BY <1>2, <1>3 DEF Numbers
<1>5. Sendable(s, 0) + Payload(w, 0) + ((Held(c, 0) + Credit(c.ob_reg, 0)) + Credit(v, 0)) = 0
  BY DEF Whole, Balance, Back, Level
<1>6. s.remote_window_size >= 0 /\ c.local_window_size = InitialWindow
  BY DEF Whole, Core, Polite
<1>7. Sendable(s, 0) = s.remote_window_size - InitialWindow /\ Held(c, 0) = c.recv_window_size
  BY DEF Sendable, Held
<1>8. s.remote_window_size \in Int /\ InitialWindow \in Nat
  <2>1. s \in SessionType(TRUE) /\ TRUE \in BOOLEAN
    BY <1>1 DEF Typed
  <2> QED
    BY <2>1, FieldTypes, SizeAssumption
<1> QED
  BY <1>4, <1>5, <1>6, <1>7, <1>8

\* The application resets a stream.
LEMMA ClientResets ==
    ASSUME NEW c, NEW s, NEW v, NEW w, Whole(c, s, v, w), NEW id \in StreamIds,
           Odd(id), id < c.next_stream_id
    PROVE  ClientGoes(c, add_rst_stream(c, id), s, v, w)
<1> DEFINE d == add_rst_stream(c, id)
<1>1. Typed(c, s, v, w) /\ Core(c, s, v, w) /\ c \in SessionType(FALSE) /\ FALSE \in BOOLEAN
  BY DEF Whole, Paired, Typed
<1>2. id \in {id}
  OBVIOUS
<1>3. Tame(c, d, {id}, {})
  BY <1>1, <1>2, AddRstTame
<1>4. OnlyCloses(c, d, {})
  BY <1>1, AddRst, CalmCloses
<1> HIDE DEF d
<1>5. Mild(c, d, {id}, {}) /\ SameSettings(c, d)
  BY <1>3 DEF Tame
<1>6. Core(d, s, v, w)
  BY <1>1, <1>4, <1>5, ClientMild DEF OnlyCloses
<1>7. d.goaway_flags = c.goaway_flags
  BY <1>5 DEF Mild
<1> QED
  BY <1>5, <1>6, <1>7 DEF ClientGoes, d

\* A frame about settings is queued and waits for its acknowledgement.
LEMMA SubmitSettingsMild ==
    ASSUME NEW srv \in BOOLEAN, NEW s \in SessionType(srv), NEW f \in SettingsFrames
    PROVE  LET t == submit_settings(s, f) IN
           /\ Mild(s, t, {}, {})
           /\ t.local_max = s.local_max
           /\ t.inflight_settings = Append(s.inflight_settings, f)
           /\ t.ob_urgent = Append(s.ob_urgent, f)
<1> DEFINE t == submit_settings(s, f)
<1>1. /\ t.server = s.server
      /\ t.goaway_flags = s.goaway_flags
      /\ t.next_stream_id = s.next_stream_id
      /\ t.last_sent_stream_id = s.last_sent_stream_id
      /\ t.last_recv_stream_id = s.last_recv_stream_id
      /\ t.last_proc_stream_id = s.last_proc_stream_id
      /\ t.local_last_stream_id = s.local_last_stream_id
      /\ t.remote_last_stream_id = s.remote_last_stream_id
      /\ t.local_window_size = s.local_window_size
      /\ t.remote_window_size = s.remote_window_size
      /\ t.ob_reg = s.ob_reg /\ t.ob_syn = s.ob_syn /\ t.streams = s.streams
      /\ t.local_max = s.local_max
      /\ t.inflight_settings = Append(s.inflight_settings, f)
      /\ t.ob_urgent = Append(s.ob_urgent, f)
  BY DEF SessionType, submit_settings, Enqueue
<1> HIDE DEF t
<1>2. SameFrames(s, t)
  BY <1>1, SameFramesSelf
<1>3. \A k \in StreamIds : SameStream(s, t, {}, k)
  BY <1>1 DEF SameStream
<1>4. Mild(s, t, {}, {})
  BY <1>1, <1>2, <1>3 DEF Mild
<1> QED
  BY <1>1, <1>4 DEF t

LEMMA ClientTightens ==
    ASSUME NEW c, NEW s, NEW v, NEW w, Whole(c, s, v, w), NEW f \in SettingsFrames,
           f.max \in Limits, NEW d, d = submit_settings(c, f), d \in SessionType(FALSE)
    PROVE  Core(d, s, v, w) /\ Settle(d, s, v, w) /\ d.goaway_flags = c.goaway_flags
<1>1. Typed(c, s, v, w) /\ Core(c, s, v, w) /\ c \in SessionType(FALSE) /\ FALSE \in BOOLEAN
      /\ Settle(c, s, v, w)
  BY DEF Whole, Paired, Typed
<1>2. /\ Mild(c, d, {}, {})
      /\ d.local_max = c.local_max
      /\ d.inflight_settings = Append(c.inflight_settings, f)
      /\ d.ob_urgent = Append(c.ob_urgent, f)
  BY <1>1, SubmitSettingsMild
<1>3. OnlyCloses(c, d, {})
  BY <1>1, SubmitSettings, CalmCloses
<1>4. Core(d, s, v, w)
  BY <1>1, <1>2, <1>3, ClientMild DEF OnlyCloses
<1>5. d.goaway_flags = c.goaway_flags
  BY <1>2 DEF Mild
<1>6. Typed(d, s, v, w)
  BY <1>1 DEF Typed
<1>7. Settle(d, s, v, w)
  BY <1>1, <1>2, <1>5, <1>6, SettleSubmit
<1> QED
  BY <1>4, <1>5, <1>7

\* The settings timer expires: the client ends the session.
LEMMA ClientTimesOut ==
    ASSUME NEW c, NEW s, NEW v, NEW w, Whole(c, s, v, w)
    PROVE  Core(terminate_session(c), s, v, w)
<1>1. Typed(c, s, v, w) /\ Core(c, s, v, w) /\ c \in SessionType(FALSE) /\ FALSE \in BOOLEAN
  BY DEF Whole, Paired, Typed
<1>2. CASE "TERM_ON_SEND" \in c.goaway_flags
  BY <1>1, <1>2 DEF terminate_session
<1>3. CASE "TERM_ON_SEND" \notin c.goaway_flags
  <2> DEFINE d == terminate_session(c)
  <2> DEFINE f == Goaway(Min2(c.last_proc_stream_id, c.local_last_stream_id), TRUE)
  <2>1. /\ d.goaway_flags = c.goaway_flags \cup {"TERM_ON_SEND"}
        /\ d.ob_reg = Append(c.ob_reg, f)
        /\ d.last_proc_stream_id = c.last_proc_stream_id
        /\ d.local_last_stream_id = c.local_last_stream_id
    BY <1>1, <1>3 DEF SessionType, terminate_session, add_goaway, Enqueue
  <2>2. f \in Goaways /\ f.last \in {c.last_proc_stream_id, c.local_last_stream_id}
    BY <1>1, FieldTypes DEF Goaways, Goaway, Min2
  <2>3. Members(d.ob_reg) = Members(c.ob_reg) \cup {f}
    <3>1. c.ob_reg \in Seq(Regular(FALSE)) /\ f \in Regular(FALSE)
      BY <1>1, <2>2, FieldTypes, Zenon DEF Regular
    <3> HIDE DEF f, d
    <3>2. PICK T : T = Regular(FALSE)
      OBVIOUS
    <3>3. c.ob_reg \in Seq(T) /\ f \in T
      BY <3>1, <3>2, Zenon
    <3> QED
      BY <2>1, <3>3, Sent
  <2> HIDE DEF d, f
  <2>4. GoawaysOK(c) /\ ServerOK(s, w) /\ HeardOK(s, v) /\ RoomOK(s, v)
    BY <1>1 DEF Core
  <2>5. GoawaysOK(d)
    BY <2>1, <2>2, <2>3, <2>4 DEF GoawaysOK
  <2>6. d.goaway_flags # {}
    BY <2>1
  <2>7. PartingOK(d, s, v)
    <3>1. c.goaway_flags = {} /\ Polite(c, s, v, w)
      BY <1>1, <1>3 DEF Whole, Core
    <3>2. \A g \in Goodbyes(d, v) : g = f
      BY <2>3, <3>1 DEF Goodbyes, Polite, Asked, Underway
    <3>3. s.remote_last_stream_id = Unlimited
      BY <3>1 DEF Polite
    <3>4. f.last <= Unlimited
      <4>1. Covered(FALSE, c)
        BY DEF Whole, Paired, SessionInv
      <4>2. /\ c.local_last_stream_id = Unlimited /\ c.last_proc_stream_id <= MaxStreamId
            /\ c.last_proc_stream_id \in Nat
        BY <1>1, <1>3, <4>1, FieldTypes DEF Covered
      <4> QED
        BY <2>2, <4>2, SizeAssumption DEF Unlimited
    <3> QED
      BY <3>2, <3>3, <3>4 DEF PartingOK
  <2>8. Core(d, s, v, w)
    BY <2>4, <2>5, <2>6, <2>7 DEF Core
  <2> QED
    BY <2>8 DEF d
<1> QED
  BY <1>2, <1>3

\* The first frame about settings is taken, and leaves its end as it was.
UrgentGone(s, t, f) ==
    /\ Mild(s, t, {}, {}) /\ Dry(s, t) /\ t.streams = s.streams
    /\ t.goaway_flags = s.goaway_flags
    /\ t.inflight_settings = s.inflight_settings /\ t.local_max = s.local_max
    /\ t.ob_urgent = Tail(s.ob_urgent)
    /\ prepare(t, f) = t /\ after_frame_sent(t, f) = t /\ not_sent(t, f) = t

LEMMA UrgentFirst ==
    ASSUME NEW srv \in BOOLEAN, NEW s, SessionInv(srv, s), s.ob_urgent # <<>>,
           NEW f, f = Head(s.ob_urgent), NEW t, t = [s EXCEPT !.ob_urgent = Tail(s.ob_urgent)]
    PROVE  /\ UrgentGone(s, t, f) /\ t \in SessionType(srv)
           /\ f \in Frames(srv) /\ f.type \in {"SETTINGS", "ACK"}
<1>1. s \in SessionType(srv)
  BY DEF SessionInv, Sound
<1>2. t \in SessionType(srv) /\ f \in SettingsFrames \cup Acks
  BY UrgentTaken DEF Moves, SessionInv, Sound
<1>3. f \in Frames(srv)
  BY <1>2 DEF Frames
<1>4. f.type \in {"SETTINGS", "ACK"}
  BY <1>2 DEF SettingsFrames, Acks
<1>5. /\ Mild(s, t, {}, {}) /\ Dry(s, t) /\ t.ob_urgent = Tail(s.ob_urgent)
      /\ t.inflight_settings = s.inflight_settings /\ t.local_max = s.local_max
  <2>1. ButUrgent(s, t) /\ t.ob_urgent = Tail(s.ob_urgent)
    BY <1>1 DEF SessionType, ButUrgent
  <2> QED
    BY <2>1, UrgentMild
<1>6. t.streams = s.streams /\ t.goaway_flags = s.goaway_flags
  BY <1>1 DEF SessionType
<1> HIDE DEF SessionType
<1>7. prepare(t, f) = t /\ after_frame_sent(t, f) = t /\ not_sent(t, f) = t
  BY <1>4 DEF prepare, after_frame_sent, not_sent
<1> QED
  BY <1>2, <1>3, <1>4, <1>5, <1>6, <1>7 DEF UrgentGone

\* A frame moves from the urgent queue to the wire, or is dropped.
LEMMA UrgentUnits ==
    ASSUME NEW q \in Seq(AllFrames), q # <<>>, NEW v \in Seq(AllFrames), NEW T
    PROVE  /\ Units(Append(v, Head(q)), Tally(T)) + Units(Tail(q), Tally(T))
                <= Units(v, Tally(T)) + Units(q, Tally(T))
           /\ Units(v, Tally(T)) + Units(Tail(q), Tally(T))
                <= Units(v, Tally(T)) + Units(q, Tally(T))
           /\ Head(q).type # T =>
                Units(Append(v, Head(q)), Tally(T)) <= Units(v, Tally(T))
<1> DEFINE n == IF Head(q).type = T THEN 1 ELSE 0
<1>1. Head(q) \in AllFrames
  BY Taken
<1>2. Units(Append(v, Head(q)), Tally(T)) = Units(v, Tally(T)) + n /\ Units(v, Tally(T)) \in Nat
  BY <1>1, TallyChange
<1>3. Units(q, Tally(T)) = Units(Tail(q), Tally(T)) + n /\ Units(Tail(q), Tally(T)) \in Nat
  BY TallyChange
<1>4. n \in Nat /\ (Head(q).type # T => n = 0)
  OBVIOUS
<1> HIDE DEF n
<1> QED
  BY <1>2, <1>3, <1>4

LEMMA SettleClient ==
    ASSUME NEW c, NEW d, NEW s, NEW v, NEW v2, NEW w,
           Typed(c, s, v, w), Typed(d, s, v2, w), Settle(c, s, v, w),
           d.goaway_flags = c.goaway_flags, d.local_max = c.local_max,
           d.inflight_settings = c.inflight_settings,
           Down(v, c.ob_urgent, v2, d.ob_urgent),
           d.goaway_flags # {} => Units(v2, Tally("ACK")) <= Units(v, Tally("ACK"))
    PROVE  Settle(d, s, v2, w)
<1>1. \A T : Units(w, Tally(T)) \in Nat /\ Units(s.ob_urgent, Tally(T)) \in Nat
  BY SettleNumbers
<1>2. Down(w, s.ob_urgent, w, s.ob_urgent)
  BY <1>1 DEF Down
<1>3. d.goaway_flags = {} =>
        /\ c.goaway_flags = {}
        /\ d.local_max = c.local_max /\ d.inflight_settings = c.inflight_settings
        /\ Down(v, c.ob_urgent, v2, d.ob_urgent)
        /\ Down(w, s.ob_urgent, w, s.ob_urgent)
  BY <1>2
<1>4. s.local_max = s.local_max /\ s.inflight_settings = s.inflight_settings
  OBVIOUS
<1> QED
  BY <1>3, <1>4, SettleFewer

LEMMA ClientUrgent ==
    ASSUME NEW c, NEW s, NEW v, NEW w, Whole(c, s, v, w), c.ob_urgent # <<>>,
           NEW f, f = Head(c.ob_urgent), NEW t, t = [c EXCEPT !.ob_urgent = Tail(c.ob_urgent)]
    PROVE  /\ UrgentGone(c, t, f)
           /\ Core(t, s, v, w) /\ Settle(t, s, v, w)
           /\ Core(t, s, Append(v, f), w)
           /\ MaySend(t, f) => Settle(t, s, Append(v, f), w)
<1>1. /\ Typed(c, s, v, w) /\ Core(c, s, v, w) /\ c \in SessionType(FALSE) /\ FALSE \in BOOLEAN
      /\ Settle(c, s, v, w) /\ SessionInv(FALSE, c)
  BY DEF Whole, Paired, Typed
<1>2. /\ UrgentGone(c, t, f) /\ t \in SessionType(FALSE)
      /\ f \in Frames(FALSE) /\ f.type \in {"SETTINGS", "ACK"}
  BY <1>1, UrgentFirst
<1>3. /\ Mild(c, t, {}, {}) /\ t.streams = c.streams /\ t.goaway_flags = c.goaway_flags
      /\ t.inflight_settings = c.inflight_settings /\ t.local_max = c.local_max
      /\ t.ob_urgent = Tail(c.ob_urgent)
  BY <1>2 DEF UrgentGone
<1>4. Core(t, s, v, w)
  BY <1>1, <1>3, ClientMild DEF Active
<1>5. Typed(t, s, v, w) /\ v \in Seq(Frames(FALSE))
  BY <1>1, <1>2 DEF Typed
<1>6. Typed(t, s, Append(v, f), w)
  <2>1. Append(v, f) \in Seq(Frames(FALSE))
    BY <1>2, <1>5, Appended, Zenon
  <2> QED
    BY <1>5, <2>1 DEF Typed
<1>7. Core(t, s, Append(v, f), w)
  BY <1>2, <1>4, <1>5, ClientFrame
<1>8. c.ob_urgent \in Seq(AllFrames) /\ v \in Seq(AllFrames) /\ w \in Seq(AllFrames)
  BY <1>1, UrgentFrames, TypedFields
<1>9. \A T \in {"SETTINGS", "ACK"} :
        /\ Units(Append(v, f), Tally(T)) + Units(t.ob_urgent, Tally(T))
             <= Units(v, Tally(T)) + Units(c.ob_urgent, Tally(T))
        /\ Units(v, Tally(T)) + Units(t.ob_urgent, Tally(T))
             <= Units(v, Tally(T)) + Units(c.ob_urgent, Tally(T))
        /\ f.type # T => Units(Append(v, f), Tally(T)) <= Units(v, Tally(T))
  BY <1>3, <1>8, UrgentUnits
<1>10. \A T : /\ Units(w, Tally(T)) + Units(s.ob_urgent, Tally(T))
                   <= Units(w, Tally(T)) + Units(s.ob_urgent, Tally(T))
              /\ Units(v, Tally(T)) <= Units(v, Tally(T))
  BY <1>1, SettleNumbers
<1>11. Settle(t, s, v, w)
  <2>1. Down(v, c.ob_urgent, v, t.ob_urgent) /\ Down(w, s.ob_urgent, w, s.ob_urgent)
    BY <1>9, <1>10 DEF Down
  <2>2. t.goaway_flags # {} => Units(v, Tally("ACK")) <= Units(v, Tally("ACK"))
    BY <1>10, Zenon
  <2> QED
    BY <1>1, <1>3, <1>5, <2>1, <2>2, SettleClient
<1>12. ASSUME MaySend(t, f) PROVE Settle(t, s, Append(v, f), w)
  <2>1. t.goaway_flags # {} => f.type # "ACK"
    <3>1. SUFFICES ASSUME t.goaway_flags # {}, f.type = "ACK" PROVE FALSE
      OBVIOUS
    <3>2. is_closing(t)
      BY <1>3, <3>1 DEF Whole, is_closing
    <3> QED
      BY <1>12, <3>1, <3>2 DEF MaySend
  <2>2. t.goaway_flags # {} => Units(Append(v, f), Tally("ACK")) <= Units(v, Tally("ACK"))
    BY <1>9, <2>1
  <2>3. Down(v, c.ob_urgent, Append(v, f), t.ob_urgent) /\ Down(w, s.ob_urgent, w, s.ob_urgent)
    BY <1>9, <1>10 DEF Down
  <2> QED
    BY <1>1, <1>3, <1>6, <2>2, <2>3, SettleClient
<1> QED
  BY <1>2, <1>4, <1>7, <1>11, <1>12

\* A session without flags goes on.
LEMMA FlagsClear ==
    ASSUME NEW s, s.goaway_flags = {}
    PROVE  ~is_closing(s)
<1>1. want_read(s)
  BY DEF want_read
<1> QED
  BY <1>1 DEF is_closing

\* What the client leaves when the first frame of a queue is sent, or dropped.
ClientSends(c, d, s, v, w, f, may) ==
    /\ may => Core(d, s, Append(v, f), w)
    /\ ~may => Core(d, s, v, w)
    /\ f.type \notin {"SETTINGS", "ACK"}
    /\ c.goaway_flags = {} => d.goaway_flags = {} /\ SameSettings(c, d)

LEMMA ClientRequest ==
    ASSUME NEW srv \in BOOLEAN, ~srv, NEW c, NEW s, NEW v, NEW w, Whole(c, s, v, w),
           SessionInv(srv, c), c.ob_reg # <<>>, NEW f \in Requests, f = Head(c.ob_reg),
           NEW t, t = [c EXCEPT !.ob_reg = Tail(c.ob_reg)],
           NEW u, u = open_stream(t, f.id, "INITIAL"), u \in SessionType(srv),
           t \in SessionType(srv),
           NEW d, d = IF MaySend(u, f) THEN headers_sent(u, f) ELSE close_stream(u, f.id),
           Later(c, d), d.num_outgoing_streams <= ServerMax
    PROVE  ClientSends(c, d, s, v, w, f, MaySend(u, f))
<1>1. Paired(c, s, v, w) /\ Core(c, s, v, w) /\ c \in SessionType(srv)
  BY DEF Whole, SessionInv, Sound
<1>2. f.type = "HEADERS" /\ f.cat = "REQUEST" /\ f.id \in StreamIds
  BY DEF Requests
<1>3. Opened(t, u, f.id, "INITIAL")
  BY <1>2, OpenedFields
<1>4. /\ u.goaway_flags = c.goaway_flags /\ u.ob_reg = Tail(c.ob_reg)
      /\ u.local_last_stream_id = c.local_last_stream_id
  <2>1. /\ t.goaway_flags = c.goaway_flags /\ t.ob_reg = Tail(c.ob_reg)
        /\ t.local_last_stream_id = c.local_last_stream_id
    BY <1>1 DEF SessionType
  <2> QED
    BY <1>3, <2>1 DEF Opened, Steady
<1>5. MaySend(u, f) <=> "RECV" \notin u.goaway_flags /\ ~is_closing(u)
  BY <1>2, Zenon DEF MaySend
<1>6. CASE c.goaway_flags = {}
  <2>1. MaySend(u, f)
    BY <1>4, <1>5, <1>6, FlagsClear
  <2>2. d = headers_sent(u, f)
    BY <2>1
  <2>3. /\ RequestLeft(c, d, f) /\ f.id \in StreamIds /\ Odd(f.id)
        /\ c.streams[f.id].state = "IDLE" /\ f.id < c.next_stream_id
    BY <2>2, RequestLeaves
  <2>4. Core(d, s, Append(v, f), w)
    BY <1>1, <1>6, <2>3, RequestGoes
  <2>5. d.goaway_flags = {} /\ SameSettings(c, d)
    BY <1>6, <2>3, Zenon DEF RequestLeft
  <2> QED
    BY <1>2, <2>1, <2>4, <2>5 DEF ClientSends
<1>7. CASE c.goaway_flags # {}
  <2>1. "TERM_ON_SEND" \in c.goaway_flags
    BY <1>7 DEF Whole
  <2>2. ~MaySend(u, f)
    BY <1>4, <1>5, <2>1 DEF is_closing
  <2>3. d = close_streams(u, {f.id})
    BY <2>2 DEF close_stream
  <2>4. Mute(u, d)
    <3>1. PICK R : R = {}
      OBVIOUS
    <3>2. Tame(u, d, R, R)
      BY <2>3, CloseStreamsTame
    <3> QED
      BY <3>2, TameMute
  <2>5. Mute(c, u)
    <3>1. \A g \in Members(Tail(c.ob_reg)) : g \in Members(c.ob_reg)
      <4>1. c.ob_reg \in Seq(Regular(srv))
        BY <1>1, FieldTypes
      <4> QED
        BY <4>1, MembersOf
    <3> QED
      BY <1>4, <3>1 DEF Mute
  <2>6. Core(d, s, v, w)
    BY <1>1, <2>1, <2>4, <2>5, MuteTwice, MuteClient
  <2> QED
    BY <1>2, <1>7, <2>2, <2>6 DEF ClientSends
<1> QED
  BY <1>6, <1>7

LEMMA ClientUpdate ==
    ASSUME NEW srv \in BOOLEAN, ~srv, NEW c, NEW s, NEW v, NEW w, Whole(c, s, v, w),
           SessionInv(srv, c), c.ob_reg # <<>>, NEW f \in Updates, f = Head(c.ob_reg),
           NEW t, t = [c EXCEPT !.ob_reg = Tail(c.ob_reg)], t \in SessionType(srv),
           NEW d, d = IF MaySend(t, f) THEN window_update_sent(t, f) ELSE t
    PROVE  ClientSends(c, d, s, v, w, f, MaySend(t, f))
<1>1. /\ Paired(c, s, v, w) /\ Core(c, s, v, w) /\ c \in SessionType(srv)
      /\ Typed(c, s, v, w) /\ IdsOK(c, s, v, w)
  BY DEF Whole, Paired, SessionInv, Sound
<1>2. f.type = "WINDOW_UPDATE" /\ f.id \in StreamIds \cup {0} /\ f.increment \in Nat
  BY DEF Updates
<1>3. t.streams = c.streams
  BY <1>1 DEF SessionType
<1>4. PICK E : E = {}
  OBVIOUS
<1>5. Tame(c, t, E, E)
  BY <1>1, <1>2, RegularTail
<1>6. Mild(c, t, E, {}) /\ SameSettings(c, t) /\ t.goaway_flags = c.goaway_flags
  BY <1>4, <1>5 DEF Tame, Mild
<1>7. Core(t, s, v, w)
  BY <1>1, <1>3, <1>4, <1>6, ClientMild DEF Active
<1>8. MaySend(t, f) => /\ ~is_closing(t)
                       /\ f.id # 0 => Active(t, f.id)
  BY <1>2, Zenon DEF MaySend
<1>9. ASSUME MaySend(t, f)
      PROVE  Core(d, s, Append(v, f), w) /\ t.goaway_flags = {} /\ Tame(t, d, {f.id}, {})
  <2>1. c.goaway_flags = {}
    BY <1>6, <1>8, <1>9 DEF Whole, is_closing
  <2>2. Polite(t, s, v, w)
    BY <1>6, <1>7, <2>1 DEF Core
  <2>3. IF Odd(f.id) THEN f.id <= t.last_sent_stream_id ELSE f.id <= s.last_sent_stream_id
    <3>1. Asked(t) /\ s.last_sent_stream_id \in Nat
      BY <1>1, <2>2, TypedFields DEF Polite
    <3>2. CASE f.id = 0
      BY <3>1, <3>2 DEF Odd
    <3>3. CASE f.id # 0
      <4>1. f.id \in StreamIds /\ Active(t, f.id) /\ f.id \in Nat
        BY <1>2, <1>8, <1>9, <3>3, StreamLevels
      <4>2. ~Idle(t, f.id) /\ ~Idle(c, f.id)
        BY <1>3, <4>1 DEF Idle, Active
      <4>3. Odd(f.id) => f.id <= t.last_sent_stream_id
        BY <3>1, <4>1, <4>2 DEF Asked
      <4>4. ~Odd(f.id) => f.id <= s.last_sent_stream_id
        <5>1. f.id % 2 = 0 \/ f.id % 2 = 1
          BY <4>1, StreamLevels
        <5> QED
          BY <1>1, <4>1, <4>2, <5>1 DEF IdsOK, Odd
      <4> QED
        BY <4>3, <4>4
    <3> QED
      BY <3>2, <3>3
  <2>4. Typed(t, s, v, w)
    BY <1>1 DEF Typed
  <2>5. f \in Frames(FALSE)
    BY DEF Frames, Regular
  <2>6. Core(t, s, Append(v, f), w)
    BY <1>2, <1>6, <1>7, <2>1, <2>3, <2>4, <2>5, ClientFrame
  <2>7. d = window_update_sent(t, f)
    BY <1>9
  <2>8. t.recv_window_size <= t.local_window_size
    <3>1. c.recv_window_size + Payload(w, 0) <= c.local_window_size
      BY <2>1, ReceivedFits
    <3>2. Payload(w, 0) \in Nat
      <4>1. w \in Seq(AllFrames) /\ 0 \in Levels
        BY <1>1, TypedFields, StreamLevels
      <4> QED
        BY <4>1, CreditNat
    <3>3. c.recv_window_size \in Nat /\ c.local_window_size \in Int
      BY <1>1, FieldTypes
    <3>4. t.recv_window_size = c.recv_window_size /\ t.local_window_size = c.local_window_size
      BY <1>1 DEF SessionType
    <3> QED
      BY <3>1, <3>2, <3>3, <3>4
  <2>9. PICK R : R = {f.id}
    OBVIOUS
  <2>10. Tame(t, d, {f.id}, {})
    <3>1. f.id \in StreamIds => f.id \in R
      BY <2>9
    <3>2. Tame(t, window_update_sent(t, f), R, E)
      BY <2>8, <3>1, WindowUpdateSentTame
    <3> QED
      BY <1>4, <2>7, <2>9, <3>2
  <2>11. OnlyCloses(t, d, {})
    BY <2>7, WindowUpdateSent, CalmCloses
  <2>12. Typed(t, s, Append(v, f), w)
    <3>1. v \in Seq(Frames(FALSE))
      BY <1>1 DEF Typed
    <3>2. Append(v, f) \in Seq(Frames(FALSE))
      BY <2>5, <3>1, Appended, Zenon
    <3> QED
      BY <2>4, <3>2 DEF Typed
  <2>13. \A k \in {f.id} : IF Odd(k) THEN k < t.next_stream_id ELSE k <= s.last_sent_stream_id
    <3>1. /\ t.last_sent_stream_id < t.next_stream_id
          /\ t.last_sent_stream_id \in Nat /\ t.next_stream_id \in Nat
      BY <2>2, <2>4, TypedFields DEF Polite, Asked
    <3>2. f.id \in Int
      BY <1>2, StreamLevels
    <3> QED
      BY <2>3, <3>1, <3>2
  <2>14. Mild(t, d, {f.id}, {})
    BY <2>10 DEF Tame
  <2> HIDE DEF Core
  <2>15. Core(d, s, Append(v, f), w)
    BY <2>6, <2>11, <2>12, <2>13, <2>14, ClientMild DEF OnlyCloses
  <2> QED
    BY <1>6, <2>1, <2>10, <2>15
<1>10. ~MaySend(t, f) => d = t
  OBVIOUS
<1>11. c.goaway_flags = {} => d.goaway_flags = {} /\ SameSettings(c, d)
  <2>1. CASE MaySend(t, f)
    <3>1. d.goaway_flags = t.goaway_flags /\ SameSettings(t, d)
      BY <1>9, <2>1 DEF Tame, Mild
    <3> QED
      BY <1>6, <3>1 DEF SameSettings
  <2>2. CASE ~MaySend(t, f)
    BY <1>6, <1>10, <2>2
  <2> QED
    BY <2>1, <2>2
<1> QED
  BY <1>2, <1>7, <1>9, <1>10, <1>11 DEF ClientSends

LEMMA ClientEnds ==
    ASSUME NEW srv \in BOOLEAN, ~srv, NEW c, NEW s, NEW v, NEW w, Whole(c, s, v, w),
           SessionInv(srv, c), c.ob_reg # <<>>, NEW f \in Goaways, f = Head(c.ob_reg),
           NEW t, t = [c EXCEPT !.ob_reg = Tail(c.ob_reg)], t \in SessionType(srv),
           NEW d, d = IF MaySend(t, f) THEN goaway_sent(t, f) ELSE t
    PROVE  ClientSends(c, d, s, v, w, f, MaySend(t, f))
<1>1. /\ Paired(c, s, v, w) /\ Core(c, s, v, w) /\ c \in SessionType(srv)
      /\ Typed(c, s, v, w) /\ IdsOK(c, s, v, w)
  BY DEF Whole, Paired, SessionInv, Sound
<1>2. f.type = "GOAWAY"
  BY DEF Goaways
<1>3. t.streams = c.streams
  BY <1>1 DEF SessionType
<1>4. PICK E : E = {}
  OBVIOUS
<1>5. Tame(c, t, E, E)
  BY <1>1, <1>2, RegularTail
<1>6. Mild(c, t, E, {}) /\ SameSettings(c, t) /\ t.goaway_flags = c.goaway_flags
  BY <1>4, <1>5 DEF Tame, Mild
<1>7. Core(t, s, v, w)
  BY <1>1, <1>3, <1>4, <1>6, ClientMild DEF Active
<1>8. f \in Members(c.ob_reg)
  <2>1. c.ob_reg \in Seq(Regular(srv))
    BY <1>1, FieldTypes
  <2> QED
    BY <2>1, MembersOf
<1>9. c.goaway_flags # {}
  BY <1>1, <1>2, <1>8 DEF Core, Polite, Asked
<1>10. LastOK(f.last)
  BY <1>1, <1>2, <1>8 DEF Core, GoawaysOK
<1>11. MaySend(t, f)
  BY <1>2 DEF MaySend
<1>12. d = goaway_sent(t, f)
  BY <1>11
<1>13. Typed(t, s, v, w)
  BY <1>1 DEF Typed
<1>14. Core(t, s, Append(v, f), w)
  <2>1. PartingOK(c, s, v)
    BY <1>1, <1>9 DEF Core
  <2>2. Members(Append(v, f)) \subseteq Members(v) \cup {f}
    <3>1. v \in Seq(AllFrames) /\ f \in AllFrames
      BY <1>1, <1>8, TypedFields
    <3> QED
      BY <3>1, MembersOf
  <2>3. Members(t.ob_reg) \subseteq Members(c.ob_reg)
    <3>1. c.ob_reg \in Seq(Regular(srv)) /\ t.ob_reg = Tail(c.ob_reg)
      BY <1>1, FieldTypes DEF SessionType
    <3> QED
      BY <3>1, MembersOf
  <2>4. Goodbyes(t, Append(v, f)) \subseteq Goodbyes(c, v)
    BY <1>8, <2>2, <2>3 DEF Goodbyes
  <2>5. PartingOK(t, s, Append(v, f))
    BY <2>1, <2>4, PartingFewer
  <2> QED
    BY <1>6, <1>7, <1>9, <1>10, <1>13, <2>5, ClientGoaway, Zenon
<1>15. /\ d.goaway_flags = t.goaway_flags \cup {"TERM_SENT", "SENT"}
       /\ d.last_proc_stream_id = t.last_proc_stream_id
       /\ d.local_last_stream_id = f.last /\ d.ob_reg = t.ob_reg
  BY <1>12, Zenon DEF SessionType, goaway_sent, close_stream_on_goaway, close_streams
<1>16. Core(d, s, Append(v, f), w)
  BY <1>6, <1>9, <1>10, <1>14, <1>15, DirtyClient
<1> QED
  BY <1>2, <1>9, <1>11, <1>16 DEF ClientSends

\* The first frame of the regular queue.
LEMMA ClientRegular ==
    ASSUME NEW srv \in BOOLEAN, ~srv, NEW c, NEW s, NEW v, NEW w, Whole(c, s, v, w),
           c.ob_reg # <<>>, NEW f, f = Head(c.ob_reg),
           NEW t, t = [c EXCEPT !.ob_reg = Tail(c.ob_reg)], NEW u, u = prepare(t, f),
           NEW d, d = IF MaySend(u, f) THEN after_frame_sent(u, f) ELSE not_sent(u, f),
           Later(c, d), d.num_outgoing_streams <= ServerMax
    PROVE  ClientSends(c, d, s, v, w, f, MaySend(u, f)) /\ f \in Frames(FALSE)
<1>1. srv = FALSE /\ SessionInv(srv, c)
  BY DEF Whole, Paired
<1>2. /\ Moves(srv, c, t) /\ f \in Regular(srv)
      /\ f.type = "HEADERS" =>
           /\ f.id < t.next_stream_id
           /\ t.streams[f.id].state = "IDLE"
           /\ \A i \in 1 .. Len(t.ob_reg) :
                t.ob_reg[i].type = "HEADERS" => t.ob_reg[i].id # f.id
  BY <1>1, RegularTaken
<1>3. SessionInv(srv, t) /\ t \in SessionType(srv)
  BY <1>2 DEF Moves, SessionInv, Sound
<1>4. f \in Requests \cup Updates \cup Goaways
  BY <1>1, <1>2 DEF Regular
<1>5. f \in Frames(FALSE)
  BY <1>4 DEF Frames, Regular
<1>6. CASE f \in Requests
  <2>1. f.type = "HEADERS" /\ f.cat = "REQUEST" /\ f.id \in StreamIds /\ f.id % 2 = 1
    BY <1>6 DEF Requests
  <2>2. u = open_stream(t, f.id, "INITIAL")
    BY <2>1 DEF prepare
  <2>3. Mine(srv, f.id)
    BY <2>1 DEF Mine
  <2>4. u \in SessionType(srv)
    <3>1. f.id < t.next_stream_id /\ t.streams[f.id].state = "IDLE"
          /\ \A i \in 1 .. Len(t.ob_reg) :
               t.ob_reg[i].type = "HEADERS" => t.ob_reg[i].id # f.id
      BY <1>2, <2>1
    <3>2. Moves(srv, t, open_stream(t, f.id, "INITIAL"))
      BY <1>3, <2>1, <2>3, <3>1, RequestPrepared
    <3> QED
      BY <2>2, <3>2 DEF Moves, SessionInv, Sound
  <2>5. after_frame_sent(u, f) = headers_sent(u, f)
    BY <2>1 DEF after_frame_sent
  <2>6. not_sent(u, f) = close_stream(u, f.id)
    BY <2>1 DEF not_sent
  <2>7. d = IF MaySend(u, f) THEN headers_sent(u, f) ELSE close_stream(u, f.id)
    BY <2>5, <2>6
  <2> QED
    BY <1>1, <1>3, <1>5, <1>6, <2>2, <2>4, <2>7, ClientRequest
<1>7. CASE f \in Updates
  <2>1. f.type = "WINDOW_UPDATE"
    BY <1>7 DEF Updates
  <2>2. u = t
    BY <2>1 DEF prepare
  <2>3. after_frame_sent(u, f) = window_update_sent(u, f)
    BY <2>1 DEF after_frame_sent
  <2>4. not_sent(u, f) = u
    BY <2>1 DEF not_sent
  <2>5. d = IF MaySend(t, f) THEN window_update_sent(t, f) ELSE t
    BY <2>2, <2>3, <2>4
  <2> QED
    BY <1>1, <1>3, <1>5, <1>7, <2>2, <2>5, ClientUpdate
<1>8. CASE f \in Goaways
  <2>1. f.type = "GOAWAY"
    BY <1>8 DEF Goaways
  <2>2. u = t
    BY <2>1 DEF prepare
  <2>3. after_frame_sent(u, f) = goaway_sent(u, f)
    BY <2>1 DEF after_frame_sent
  <2>4. not_sent(u, f) = u
    BY <2>1 DEF not_sent
  <2>5. d = IF MaySend(t, f) THEN goaway_sent(t, f) ELSE t
    BY <2>2, <2>3, <2>4
  <2> QED
    BY <1>1, <1>3, <1>5, <1>8, <2>2, <2>5, ClientEnds
<1> QED
  BY <1>4, <1>6, <1>7, <1>8

\* A reset leaves its queue after all requests have left theirs.
LEMMA ClientReset ==
    ASSUME NEW srv \in BOOLEAN, ~srv, NEW c, NEW s, NEW v, NEW w, Whole(c, s, v, w),
           c.ob_reg = <<>>, c.ob_syn # <<>>, NEW f, f = Head(c.ob_syn),
           NEW t, t = [c EXCEPT !.ob_syn = Tail(c.ob_syn)], NEW u, u = prepare(t, f),
           NEW d, d = IF MaySend(u, f) THEN after_frame_sent(u, f) ELSE not_sent(u, f)
    PROVE  ClientSends(c, d, s, v, w, f, MaySend(u, f)) /\ f \in Frames(FALSE)
<1>1. /\ srv = FALSE /\ SessionInv(srv, c) /\ Typed(c, s, v, w) /\ Core(c, s, v, w)
      /\ c \in SessionType(srv)
  BY DEF Whole, Paired, SessionInv, Sound
<1>2. Moves(srv, c, t) /\ f \in Resets
  BY <1>1, SynTaken
<1>3. t \in SessionType(srv)
  BY <1>2 DEF Moves, SessionInv, Sound
<1>4. f.type = "RST_STREAM" /\ f.id \in StreamIds /\ f \in Frames(FALSE)
  BY <1>2 DEF Resets, Frames
<1>5. u = t
  BY <1>4 DEF prepare
<1>6. after_frame_sent(t, f) = close_streams(t, {f.id}) /\ not_sent(t, f) = t
  BY <1>4 DEF after_frame_sent, not_sent, close_stream
<1>7. MaySend(t, f) <=> ~is_closing(t)
  BY <1>4, Zenon DEF MaySend
<1>8. t.streams = c.streams /\ t.ob_reg = c.ob_reg
  BY <1>1 DEF SessionType
<1>9. PICK E : E = {}
  OBVIOUS
<1>10. Tame(c, t, E, E)
  BY <1>1, SynTail
<1>11. Mild(c, t, E, {}) /\ SameSettings(c, t) /\ t.goaway_flags = c.goaway_flags
  BY <1>9, <1>10 DEF Tame, Mild
<1>12. Core(t, s, v, w)
  BY <1>1, <1>8, <1>9, <1>11, ClientMild DEF Active
<1>13. Typed(t, s, v, w)
  BY <1>1, <1>3 DEF Typed
<1>14. CASE c.goaway_flags = {}
  <2>1. MaySend(t, f)
    BY <1>7, <1>11, <1>14, FlagsClear
  <2>2. d = close_streams(t, {f.id})
    BY <1>5, <1>6, <2>1
  <2>3. Asked(c) /\ Underway(c, s, v)
    BY <1>1, <1>14 DEF Core, Polite
  <2>4. f \in Members(c.ob_syn)
    <3>1. c.ob_syn \in Seq(Resets)
      BY <1>1, FieldTypes
    <3> QED
      BY <3>1, MembersOf
  <2>5. Members(c.ob_reg) = {}
    BY DEF Members
  <2>6. IF Odd(f.id) THEN f.id <= t.last_sent_stream_id ELSE f.id <= s.last_sent_stream_id
    <3>1. t.last_sent_stream_id = c.last_sent_stream_id
      BY <1>11 DEF Mild
    <3> QED
      BY <1>4, <2>3, <2>4, <2>5, <3>1 DEF Asked, Underway
  <2>7. Core(t, s, Append(v, f), w)
    BY <1>4, <1>11, <1>12, <1>13, <1>14, <2>6, ClientFrame
  <2>8. Tame(t, d, E, E)
    BY <1>3, <2>2, CloseStreamsTame
  <2>9. Mild(t, d, E, {}) /\ SameSettings(t, d) /\ d.goaway_flags = t.goaway_flags
    BY <1>9, <2>8 DEF Tame, Mild
  <2>10. OnlyCloses(t, d, {f.id})
    BY <1>3, <2>2, CloseStreamsCloses
  <2>11. v \in Seq(Frames(FALSE))
    BY <1>1 DEF Typed
  <2>12. PICK T : T = Frames(FALSE)
    OBVIOUS
  <2>13. v \in Seq(T) /\ f \in T
    BY <1>4, <2>11, <2>12, Zenon
  <2>14. Append(v, f) \in Seq(T) /\ Members(Append(v, f)) = Members(v) \cup {f}
    BY <2>13, Appended, Sent
  <2>15. Append(v, f) \in Seq(Frames(FALSE))
    BY <2>12, <2>14, Zenon
  <2>16. Has(Append(v, f), "RST_STREAM", f.id)
    BY <1>4, <2>14 DEF Has
  <2>17. Typed(t, s, Append(v, f), w)
    BY <1>13, <2>15 DEF Typed
  <2>18. \A k \in StreamIds : Odd(k) /\ Active(t, k) /\ ~Active(d, k) =>
            Has(Append(v, f), "RST_STREAM", k)
    BY <2>10, <2>16 DEF OnlyCloses
  <2> HIDE DEF Core
  <2>19. Core(d, s, Append(v, f), w)
    BY <1>9, <2>7, <2>9, <2>17, <2>18, ClientMild
  <2>20. d.goaway_flags = {} /\ SameSettings(c, d)
    BY <1>11, <1>14, <2>9 DEF SameSettings
  <2> QED
    BY <1>4, <1>5, <2>1, <2>19, <2>20 DEF ClientSends
<1>15. CASE c.goaway_flags # {}
  <2>1. ~MaySend(t, f)
    BY <1>7, <1>11, <1>15 DEF Whole, is_closing
  <2>2. d = t
    BY <1>5, <1>6, <2>1
  <2> QED
    BY <1>4, <1>5, <1>12, <1>15, <2>1, <2>2 DEF ClientSends
<1> QED
  BY <1>14, <1>15

\* A client that is ending the session may send to a server that is gone.
LEMMA UnsentClient ==
    ASSUME NEW c, NEW s, NEW v, NEW w, NEW d, NEW r, Core(c, s, v, w), Settle(c, s, v, w),
           Members(v) \subseteq Members(r), Core(d, s, r, w), d.goaway_flags # {}
    PROVE  Core(d, s, v, w) /\ Settle(d, s, v, w)
<1>1. PartingOK(d, s, r) /\ Goodbyes(d, v) \subseteq Goodbyes(d, r)
  BY DEF Core, Goodbyes
<1>2. PartingOK(d, s, v)
  BY <1>1, PartingFewer
<1> QED
  BY <1>2 DEF Core, Settle

\* A turn of a body: the client has none, or drops it with the session.
LEMMA ClientData ==
    ASSUME NEW srv \in BOOLEAN, ~srv, NEW c, NEW s, NEW v, NEW w, Whole(c, s, v, w),
           NEW id \in DataQueued(c)
    PROVE  /\ ~predicate_data_send(c, id) /\ c.goaway_flags # {}
           /\ Later(c, detach_item(c, id)) => Core(detach_item(c, id), s, v, w)
<1>1. /\ srv = FALSE /\ SessionInv(srv, c) /\ Typed(c, s, v, w) /\ Core(c, s, v, w)
      /\ c \in SessionType(srv)
  BY DEF Whole, Paired, SessionInv, Sound
<1>2. id \in StreamIds /\ c.streams[id].item # NoItem
  BY DEF DataQueued, ActiveStreams
<1>3. c.goaway_flags # {}
  BY <1>1, <1>2 DEF Core, Polite, Listens
<1>4. "TERM_ON_SEND" \in c.goaway_flags
  BY <1>3 DEF Whole
<1>5. ~predicate_data_send(c, id)
  BY <1>4 DEF predicate_data_send, predicate_for_stream_send, is_closing
<1>6. ASSUME Later(c, detach_item(c, id)) PROVE Core(detach_item(c, id), s, v, w)
  <2>1. PICK E : E = {}
    OBVIOUS
  <2>2. Tame(c, detach_item(c, id), E, E)
    BY <1>1, <1>2, ItemTame
  <2>3. Mute(c, detach_item(c, id))
    BY <2>2, TameMute
  <2> QED
    BY <1>1, <1>4, <1>6, <2>3, MuteClient
<1> QED
  BY <1>3, <1>5, <1>6
-----------------------------------------------------------------------------
(***************************************************************************)
(* The client receives a frame.                                            *)
(***************************************************************************)
\* Nothing stands before the first frame.
LEMMA HeadOf ==
    ASSUME NEW T, NEW q \in Seq(T), q # <<>>, NEW ok, NEW R, Guarded(q, ok, R)
    PROVE  Head(q) \in ok
<1>1. 1 \in 1 .. Len(q) /\ q[1] = Head(q) /\ 1 .. 1 - 1 = {}
  BY Rest
<1> QED
  BY <1>1 DEF Guarded

\* A frame of a stream that has begun leaves its stream reset, or closed if
\* the server has closed it.
LEMMA ClientEased ==
    ASSUME NEW c, NEW s, NEW v, NEW w, Whole(c, s, v, w), c.goaway_flags = {},
           NEW id \in StreamIds, Begun(s, id), NEW d, Mild(c, d, {id}, {}),
           NEW X, OnlyCloses(c, d, X), \A k \in X : k = id /\ ~Active(s, id)
    PROVE  Core(d, s, v, w)
<1>1. Typed(c, s, v, w) /\ Core(c, s, v, w) /\ Polite(c, s, v, w) /\ HeardOK(s, v)
  BY DEF Whole, Paired, Core
<1>2. IF Odd(id) THEN id < c.next_stream_id ELSE id <= s.last_sent_stream_id
  <2>1. /\ s.last_recv_stream_id \in Nat /\ c.last_sent_stream_id \in Nat
        /\ c.next_stream_id \in Nat /\ id \in Nat
    BY <1>1, TypedFields, StreamLevels
  <2>2. /\ s.last_recv_stream_id <= c.last_sent_stream_id
        /\ c.last_sent_stream_id < c.next_stream_id
    BY <1>1 DEF Polite, Underway, Asked
  <2>3. Odd(id) => id <= s.last_recv_stream_id
    BY DEF Begun
  <2>4. ~Odd(id) => id <= s.last_sent_stream_id
    BY DEF Begun
  <2> QED
    BY <2>1, <2>2, <2>3, <2>4
<1>3. \A k \in {id} : IF Odd(k) THEN k < c.next_stream_id ELSE k <= s.last_sent_stream_id
  BY <1>2
<1>4. ASSUME Odd(id) PROVE ~Has(v, "HEADERS", id)
  <2>1. SUFFICES ASSUME NEW f \in Members(v), f.type = "HEADERS", f.id = id PROVE FALSE
    BY DEF Has
  <2>2. s.last_recv_stream_id < id
    BY <1>1, <2>1 DEF HeardOK
  <2>3. id <= s.last_recv_stream_id
    BY <1>4 DEF Begun
  <2>4. s.last_recv_stream_id \in Nat /\ id \in Nat
    BY <1>1, TypedFields, StreamLevels
  <2> QED
    BY <2>2, <2>3, <2>4
<1>5. \A k \in StreamIds : Odd(k) /\ Active(c, k) /\ ~Active(d, k) =>
         ~Active(s, k) /\ ~Has(v, "HEADERS", k)
  BY <1>4 DEF OnlyCloses
<1> HIDE DEF Core, Polite, HeardOK, Typed
<1> QED
  BY <1>1, <1>3, <1>5, ClientMild

\* A frame of a stream the server has begun finds it begun on the client's side.
LEMMA NotIdle ==
    ASSUME NEW c, NEW s, NEW v, NEW w, Whole(c, s, v, w), c.goaway_flags = {},
           w # <<>>, NEW f, f = Head(w)
    PROVE  /\ f \in Members(w) /\ f \in Frames(TRUE)
           /\ f.type \in {"HEADERS", "DATA", "RST_STREAM"} =>
                /\ f.id \in StreamIds /\ Begun(s, f.id)
                /\ ~detect_idle_stream(c, f.id)
           /\ f.type = "PUSH_PROMISE" =>
                f.id \in StreamIds /\ ~detect_idle_stream(c, f.id)
           /\ f.type = "RST_STREAM" \/ Complete(f) => ~Active(s, f.id)
<1>1. Typed(c, s, v, w) /\ Polite(c, s, v, w)
  BY DEF Whole, Paired, Core
<1>2. w \in Seq(AllFrames) /\ w \in Seq(Frames(TRUE))
  BY <1>1, TypedFields DEF Typed
<1>3. f \in AllFrames /\ f \in Members(w)
  BY <1>2, MembersOf
<1>4. f \in Frames(TRUE)
  BY <1>2, Taken, Zenon
<1>5. /\ f.type \in {"HEADERS", "PUSH_PROMISE", "RST_STREAM", "DATA"} => f.id \in StreamIds
      /\ f.type = "PUSH_PROMISE" => f.promised \in StreamIds
  BY <1>3, FrameFields
<1>6. Spoken(s, w) /\ Underway(c, s, v) /\ Announced(c, s, w) /\ Answers(c, s, w)
  BY <1>1 DEF Polite
<1>7. /\ f.type \in {"HEADERS", "PUSH_PROMISE", "DATA", "RST_STREAM"} => Begun(s, f.id)
      /\ f.type = "PUSH_PROMISE" => Odd(f.id)
  BY <1>3, <1>6 DEF Spoken
<1>8. f \in KnownPushes(c.last_recv_stream_id)
  <2>1. Guarded(w, KnownPushes(c.last_recv_stream_id), Promised)
    BY <1>6 DEF Announced
  <2> QED
    BY <1>2, <2>1, HeadOf
<1>9. ASSUME f.type \in {"HEADERS", "PUSH_PROMISE", "RST_STREAM", "DATA"}
      PROVE  ~detect_idle_stream(c, f.id)
  <2>1. f.id \in StreamIds /\ f.id \in Nat
    BY <1>5, <1>9, StreamLevels
  <2>2. is_my_stream_id(c, f.id) <=> Odd(f.id)
    BY <1>1, <2>1, Owners
  <2>3. c.last_sent_stream_id \in Nat /\ c.last_recv_stream_id \in Nat /\ s.last_recv_stream_id \in Nat
    BY <1>1, TypedFields
  <2>4. CASE Odd(f.id)
    <3>1. f.id <= s.last_recv_stream_id
      BY <1>7, <1>9, <2>4 DEF Begun
    <3>2. s.last_recv_stream_id <= c.last_sent_stream_id
      BY <1>6 DEF Underway
    <3>3. ~(f.id > c.last_sent_stream_id)
      BY <2>1, <2>3, <3>1, <3>2
    <3> QED
      BY <2>2, <2>4, <3>3 DEF detect_idle_stream
  <2>5. CASE ~Odd(f.id)
    <3>1. f.id <= c.last_recv_stream_id
      BY <1>7, <1>8, <1>9, <2>5 DEF KnownPushes
    <3>2. ~(f.id > c.last_recv_stream_id)
      BY <2>1, <2>3, <3>1
    <3> QED
      BY <2>2, <2>5, <3>2 DEF detect_idle_stream
  <2> QED
    BY <2>4, <2>5
<1>10. f.type = "RST_STREAM" \/ Complete(f) => ~Active(s, f.id)
  BY <1>3, <1>6 DEF Answers
<1> QED
  BY <1>3, <1>4, <1>5, <1>7, <1>9, <1>10

\* The number of streams of a session that stand for its counters stays below
\* the value that no limit has.
LEMMA FewStreams ==
    ASSUME NEW X \in SUBSET StreamIds
    PROVE  Cardinality(X) \in Nat /\ Cardinality(X) < Unlimited
<1>1. Cardinality(StreamIds) = MaxStreamId
  <2>1. Cardinality(1 .. MaxStreamId) = IF 1 > MaxStreamId THEN 0 ELSE MaxStreamId - 1 + 1
    BY SizeAssumption, FS_Interval
  <2> QED
    BY <2>1, SizeAssumption DEF StreamIds
<1>2. StreamIds \in SUBSET StreamIds
  OBVIOUS
<1>3. Cardinality(X) \in Nat /\ Cardinality(X) <= Cardinality(StreamIds)
  BY <1>2, FewerIds
<1> QED
  BY <1>1, <1>3, SizeAssumption DEF Unlimited

\* The least the client may announce.
Lowest == IF Tightens THEN Min2(1, ClientMax) ELSE ClientMax
PushesFit(c) == c.num_incoming_streams + c.num_incoming_reserved_streams <= Lowest

\* A promised stream may be answered: the limit counts it already.
LEMMA PromiseFits ==
    ASSUME NEW srv \in BOOLEAN, ~srv, NEW c, SessionInv(srv, c), EvenReserved(c),
           ClientSettings(c), PushesFit(c),
           NEW id \in StreamIds, c.streams[id].state = "RESERVED"
    PROVE  ~incoming_max(c)
<1> DEFINE X == {k \in StreamIds : ReservedRemote(c, k)}
           Y == {k \in StreamIds : Incoming(c, k)}
<1>1. /\ c \in SessionType(srv)
      /\ c.num_incoming_reserved_streams = Cardinality(X)
      /\ c.num_incoming_streams = Cardinality(Y)
  BY DEF SessionInv, Sound, CountersMatch
<1>2. id \in X
  <2>1. id \in Nat /\ id % 2 = 0
    BY IdsFinite DEF EvenReserved
  <2>2. ~is_my_stream_id(c, id)
    <3>1. is_my_stream_id(c, id) <=> Mine(srv, id)
      BY <1>1, <2>1, MineIs
    <3>2. ~Mine(srv, id)
      BY <2>1 DEF Mine
    <3> QED
      BY <3>1, <3>2
  <2>3. Active(c, id)
    BY DEF Active
  <2>4. c.streams[id].push
    BY <2>3 DEF SessionInv, Sound, PushOK
  <2> QED
    BY <2>2, <2>3, <2>4 DEF ReservedRemote
<1> HIDE DEF X
<1>3. X \in SUBSET StreamIds /\ Y \in SUBSET StreamIds
  BY DEF X
<1> HIDE DEF Y
<1>4. Cardinality(Y) \in Nat /\ Cardinality(Y) < Unlimited
  BY <1>3, FewStreams
<1>5. Cardinality(X) \in Nat /\ Cardinality(X) >= 1
  <2>1. {id} \in SUBSET X
    BY <1>2
  <2>2. Cardinality({id}) = 1
    BY FS_Singleton
  <2> QED
    BY <1>3, <2>1, <2>2, FewerIds
<1>6. Cardinality(Y) + Cardinality(X) <= Lowest
  BY <1>1 DEF PushesFit
<1>7. \A n \in Limits : Cardinality(Y) < n
  BY <1>4, <1>5, <1>6, LimitAssumption DEF Lowest, Limits, Min2
<1>8. c.local_max \in {Unlimited} \cup Limits
  BY DEF ClientSettings
<1>9. Cardinality(Y) < c.local_max
  BY <1>4, <1>7, <1>8
<1>10. c.local_max \in Int
  BY <1>1, FieldTypes
<1> QED
  BY <1>1, <1>4, <1>9, <1>10 DEF incoming_max

\* A frame that is not about settings is received without an error.
ClientHears(c, d, s, v, w) ==
    Core(d, s, v, Tail(w)) /\ d.goaway_flags = c.goaway_flags /\ SameSettings(c, d)

\* A client that goes on, before it reads a frame.
Hearing(srv, c, s, v, w, f) ==
    /\ Whole(c, s, v, w) /\ SessionInv(srv, c) /\ c.goaway_flags = {} /\ PushesFit(c)
    /\ w # <<>> /\ f = Head(w)

LEMMA HearingFacts ==
    ASSUME NEW srv \in BOOLEAN, ~srv, NEW c, NEW s, NEW v, NEW w, NEW f,
           Hearing(srv, c, s, v, w, f)
    PROVE  /\ c \in SessionType(srv) /\ Typed(c, s, v, w) /\ Core(c, s, v, w)
           /\ Polite(c, s, v, w) /\ Settle(c, s, v, w) /\ Whole(c, s, v, w)
           /\ allow_incoming_new_stream(c) /\ ClientSettings(c)
           /\ EvenReserved(c) /\ Listens(c) /\ w # <<>> /\ f = Head(w)
           /\ c.goaway_flags = {}
<1>1. Whole(c, s, v, w) /\ SessionInv(srv, c) /\ c.goaway_flags = {} /\ w # <<>> /\ f = Head(w)
  BY DEF Hearing
<1>2. c \in SessionType(srv)
  BY <1>1 DEF SessionInv, Sound
<1>3. Typed(c, s, v, w) /\ Core(c, s, v, w) /\ Settle(c, s, v, w) /\ IdsOK(c, s, v, w)
  BY <1>1 DEF Whole, Paired
<1>4. Polite(c, s, v, w) /\ ClientSettings(c) /\ EvenReserved(c)
  BY <1>1, <1>3 DEF Core, Settle, IdsOK
<1>5. Listens(c) /\ allow_incoming_new_stream(c)
  BY <1>1, <1>4 DEF Polite, allow_incoming_new_stream
<1> QED
  BY <1>1, <1>2, <1>3, <1>4, <1>5

LEMMA ClientGetsHeaders ==
    ASSUME NEW srv \in BOOLEAN, ~srv, NEW c, NEW s, NEW v, NEW w, NEW f,
           Hearing(srv, c, s, v, w, f), f.type = "HEADERS",
           NEW d, d = process_headers_frame(c, f), Typed(d, s, v, w)
    PROVE  ClientHears(c, d, s, v, w)
<1>1. /\ c \in SessionType(srv) /\ Typed(c, s, v, w) /\ Core(c, s, v, w)
      /\ Polite(c, s, v, w) /\ Settle(c, s, v, w) /\ Whole(c, s, v, w)
      /\ allow_incoming_new_stream(c) /\ ClientSettings(c)
      /\ EvenReserved(c) /\ Listens(c) /\ w # <<>> /\ f = Head(w)
      /\ c.goaway_flags = {}
  BY HearingFacts
<1>2. /\ f.id \in StreamIds /\ Begun(s, f.id) /\ ~detect_idle_stream(c, f.id)
      /\ Complete(f) => ~Active(s, f.id)
  BY <1>1, NotIdle
<1>3. f.id \in Nat
  BY <1>2, IdsFinite
<1>4. c.streams[f.id].state = "OPENING" => is_my_stream_id(c, f.id)
  <2>1. is_my_stream_id(c, f.id) <=> Odd(f.id)
    BY <1>1, <1>3, Owners
  <2> QED
    BY <1>1, <1>2, <2>1 DEF Listens
<1>5. c.streams[f.id].state = "RESERVED" => ~incoming_max(c)
  <2>1. SessionInv(srv, c) /\ PushesFit(c)
    BY DEF Hearing
  <2> QED
    BY <1>1, <1>2, <2>1, PromiseFits
<1>6. Active(c, f.id) => c.streams[f.id].shut = {"WR"}
  BY <1>1, <1>2 DEF Listens
<1>7. c.streams[f.id].state # "INITIAL"
  BY <1>1, <1>2 DEF Listens
<1>8. PICK R : R = {f.id}
  OBVIOUS
<1>9. PICK E : E = {}
  OBVIOUS
<1>10. f.id \in R
  BY <1>8
<1> DEFINE t == process_headers_frame(c, f)
<1>11. /\ Tame(c, t, R, E) /\ OnlyCloses(c, t, {k \in {f.id} : f.size = 0})
       /\ DataAllowed(t, f.id)
  BY <1>1, <1>2, <1>4, <1>5, <1>6, <1>7, <1>10, HeadersReceivedTame
<1>12. t = d
  OBVIOUS
<1> HIDE DEF t
<1>13. PICK X : X = {k \in {f.id} : f.size = 0}
  OBVIOUS
<1>14. Tame(c, d, R, E) /\ OnlyCloses(c, d, X) /\ DataAllowed(d, f.id)
  BY <1>11, <1>12, <1>13
<1>15. Mild(c, d, {f.id}, {}) /\ SameSettings(c, d) /\ d.goaway_flags = c.goaway_flags
  BY <1>8, <1>9, <1>14 DEF Tame, Mild
<1>16. \A k \in X : k = f.id /\ ~Active(s, f.id)
  <2>1. f.size = 0 => Complete(f)
    BY DEF Complete
  <2> QED
    BY <1>2, <1>13, <2>1
<1>17. Core(d, s, v, w)
  <2>1. PICK Q : Q = {f.id}
    OBVIOUS
  <2>2. Mild(c, d, {f.id}, {})
    BY <1>15
  <2> HIDE DEF Mild
  <2> QED
    BY <1>1, <1>2, <1>14, <1>16, <2>2, ClientEased
<1>18. Head(w).type = "HEADERS" /\ DataAllowed(d, Head(w).id)
  BY <1>1, <1>14
<1>19. Core(d, s, v, Tail(w))
  BY <1>1, <1>17, <1>18, ClientTakes
<1> QED
  BY <1>15, <1>19 DEF ClientHears

LEMMA ClientGetsReset ==
    ASSUME NEW srv \in BOOLEAN, ~srv, NEW c, NEW s, NEW v, NEW w, NEW f,
           Hearing(srv, c, s, v, w, f), f.type = "RST_STREAM",
           NEW d, d = on_rst_stream_received(c, f), Typed(d, s, v, w)
    PROVE  ClientHears(c, d, s, v, w)
<1>1. /\ c \in SessionType(srv) /\ Typed(c, s, v, w) /\ Core(c, s, v, w)
      /\ Whole(c, s, v, w) /\ w # <<>> /\ f = Head(w) /\ c.goaway_flags = {}
  BY HearingFacts
<1>2. /\ f.id \in StreamIds /\ Begun(s, f.id) /\ ~detect_idle_stream(c, f.id)
      /\ ~Active(s, f.id)
  BY <1>1, NotIdle
<1>3. PICK R : R = {f.id}
  OBVIOUS
<1>4. PICK E : E = {}
  OBVIOUS
<1>5. d = close_streams(c, R)
  BY <1>2, <1>3 DEF on_rst_stream_received, close_stream
<1>6. Tame(c, d, R, E) /\ OnlyCloses(c, d, R)
  <2>1. Tame(c, close_streams(c, R), R, E)
    BY <1>1, CloseStreamsTame
  <2>2. OnlyCloses(c, close_streams(c, R), R)
    BY <1>1, CloseStreamsCloses
  <2> QED
    BY <1>5, <2>1, <2>2
<1>7. Mild(c, d, {f.id}, {}) /\ SameSettings(c, d) /\ d.goaway_flags = c.goaway_flags
  BY <1>3, <1>4, <1>6 DEF Tame, Mild
<1>8. \A k \in R : k = f.id /\ ~Active(s, f.id)
  BY <1>2, <1>3
<1>9. Core(d, s, v, w)
  <2> HIDE DEF Mild
  <2> QED
    BY <1>1, <1>2, <1>6, <1>7, <1>8, ClientEased
<1>10. Head(w).type = "RST_STREAM"
  BY <1>1
<1>11. Core(d, s, v, Tail(w))
  BY <1>1, <1>9, <1>10, ClientTakes
<1> QED
  BY <1>7, <1>11 DEF ClientHears

LEMMA ClientGetsPromise ==
    ASSUME NEW srv \in BOOLEAN, ~srv, NEW c, NEW s, NEW v, NEW w, NEW f,
           Hearing(srv, c, s, v, w, f), f.type = "PUSH_PROMISE",
           NEW d, d = on_push_promise_received(c, f)
    PROVE  ClientHears(c, d, s, v, w)
<1>1. /\ c \in SessionType(srv) /\ Typed(c, s, v, w) /\ Core(c, s, v, w)
      /\ Whole(c, s, v, w) /\ w # <<>> /\ f = Head(w) /\ c.goaway_flags = {}
      /\ Polite(c, s, v, w) /\ Listens(c) /\ allow_incoming_new_stream(c)
  BY HearingFacts
<1>2. /\ f \in Members(w) /\ f \in Frames(TRUE)
      /\ f.id \in StreamIds /\ ~detect_idle_stream(c, f.id)
  BY <1>1, NotIdle
<1>3. f \in Promises
  <2>1. PICK b \in BOOLEAN : b = TRUE
    OBVIOUS
  <2>2. f \in Frames(b)
    BY <1>2, <2>1
  <2> QED
    BY <2>2, FrameKinds
<1>4. c.last_recv_stream_id < f.promised
  BY <1>1, <1>2 DEF Polite, Announced
<1>5. Active(c, f.id) => "RD" \notin c.streams[f.id].shut
  BY <1>1, <1>2 DEF Listens
<1>6. SessionInv(srv, c)
  BY DEF Hearing
<1> DEFINE t == on_push_promise_received(c, f)
<1>7. PromiseSeen(c, t, f) /\ SameSettings(c, t)
  <2>1. Odd(f.id) /\ f.id \in Nat
    BY <1>1, <1>2, IdsFinite DEF Polite, Spoken
  <2>2. is_my_stream_id(c, f.id)
    BY <1>1, <2>1, Owners
  <2> QED
    BY <1>1, <1>2, <1>3, <1>4, <1>5, <1>6, <2>2, PromiseRead
<1>8. t = d
  OBVIOUS
<1> HIDE DEF t
<1>9. PromiseSeen(c, d, Head(w)) /\ SameSettings(c, d)
  BY <1>1, <1>7, <1>8
<1>10. \A g \in Members(w) : g.type = "PUSH_PROMISE" => g.promised <= s.last_sent_stream_id
  BY <1>1 DEF Whole, Paired, IdsOK
<1>11. Head(w).type = "PUSH_PROMISE"
  BY <1>1
<1>12. Core(d, s, v, Tail(w))
  BY <1>1, <1>9, <1>10, <1>11, PromiseIn
<1> QED
  BY <1>9, <1>12 DEF ClientHears, PromiseSeen

LEMMA ClientGetsData ==
    ASSUME NEW srv \in BOOLEAN, ~srv, NEW c, NEW s, NEW v, NEW w, NEW f,
           Hearing(srv, c, s, v, w, f), f.type = "DATA",
           NEW d, d = on_data_received(c, f), Typed(d, s, v, w)
    PROVE  ClientHears(c, d, s, v, w)
<1>1. /\ c \in SessionType(srv) /\ Typed(c, s, v, w) /\ Core(c, s, v, w)
      /\ Whole(c, s, v, w) /\ w # <<>> /\ f = Head(w) /\ c.goaway_flags = {}
      /\ Polite(c, s, v, w) /\ Listens(c)
  BY HearingFacts
<1>2. /\ f \in Members(w) /\ f \in Frames(TRUE)
      /\ f.id \in StreamIds /\ Begun(s, f.id) /\ ~detect_idle_stream(c, f.id)
      /\ Complete(f) => ~Active(s, f.id)
  BY <1>1, NotIdle
<1>3. f \in DataFrames
  <2>1. PICK b \in BOOLEAN : b = TRUE
    OBVIOUS
  <2>2. f \in Frames(b)
    BY <1>2, <2>1
  <2> QED
    BY <2>2, FrameKinds
<1>4. w \in Seq(AllFrames)
  BY <1>1, TypedFields
<1>5. DataAllowed(c, f.id)
  <2>1. Guarded(w, Readable(c), Headed)
    BY <1>1 DEF Polite, Answers
  <2>2. f \in Readable(c)
    BY <1>1, <1>4, <2>1, HeadOf
  <2> QED
    BY <2>2 DEF Readable
<1>6. Active(c, f.id) => c.streams[f.id].shut = {"WR"}
  BY <1>1, <1>2 DEF Listens
<1>7. ~data_not_allowed(c, f)
  BY <1>5, <1>6 DEF data_not_allowed, DataAllowed
<1>8. c.recv_window_size + f.length <= c.local_window_size
  <2>1. c.recv_window_size + Payload(w, 0) <= c.local_window_size
    BY <1>1, ReceivedFits
  <2>2. f \in AllFrames
    BY <1>1, <1>2, TypedFields
  <2>3. /\ Payload(w, 0) = Lengths(0)[Head(w)] + Payload(Tail(w), 0)
        /\ Lengths(0)[Head(w)] \in Nat /\ Payload(Tail(w), 0) \in Nat
    BY <1>1, <1>4, CreditTail
  <2>4. Lengths(0)[f] = f.length
    BY <2>2, FrameValue
  <2>5. Payload(w, 0) = f.length + Payload(Tail(w), 0) /\ f.length \in Nat
    BY <1>1, <2>3, <2>4
  <2>6. c.recv_window_size \in Nat /\ c.local_window_size \in Int
    BY <1>1, FieldTypes
  <2> QED
    BY <2>1, <2>3, <2>5, <2>6
<1>9. PICK R : R = {f.id}
  OBVIOUS
<1>10. PICK E : E = {}
  OBVIOUS
<1>11. PICK X : X = {k \in {f.id} : f.end}
  OBVIOUS
<1>12. Active(c, f.id) => "WR" \in c.streams[f.id].shut
  BY <1>6
<1>13. f.id \in R
  BY <1>9
<1> DEFINE t == on_data_received(c, f)
<1>14. Tame(c, t, R, E) /\ OnlyCloses(c, t, {k \in {f.id} : f.end})
  BY <1>1, <1>3, <1>7, <1>8, <1>12, <1>13, DataReceivedTame
<1>15. t = d
  OBVIOUS
<1> HIDE DEF t
<1>16. Tame(c, d, R, E) /\ OnlyCloses(c, d, X)
  BY <1>11, <1>14, <1>15
<1>17. Mild(c, d, {f.id}, {}) /\ SameSettings(c, d) /\ d.goaway_flags = c.goaway_flags
  BY <1>9, <1>10, <1>16 DEF Tame, Mild
<1>18. \A k \in X : k = f.id /\ ~Active(s, f.id)
  <2>1. f.end => Complete(f)
    BY DEF Complete
  <2> QED
    BY <1>2, <1>11, <2>1
<1>19. Core(d, s, v, w)
  <2> HIDE DEF Mild
  <2> QED
    BY <1>1, <1>2, <1>16, <1>17, <1>18, ClientEased
<1>20. Head(w).type = "DATA"
  BY <1>1
<1>21. Core(d, s, v, Tail(w))
  BY <1>1, <1>19, <1>20, ClientTakes
<1> QED
  BY <1>17, <1>21 DEF ClientHears

\* A step that closes and resets nothing.
LEMMA ClientCalm ==
    ASSUME NEW c, NEW s, NEW v, NEW w, Typed(c, s, v, w), Core(c, s, v, w),
           NEW d, NEW E, E = {}, Mild(c, d, E, E), Calm(c, d)
    PROVE  Core(d, s, v, w)
<1>1. OnlyCloses(c, d, {})
  BY CalmCloses
<1>2. \A k \in StreamIds : Odd(k) /\ Active(c, k) /\ ~Active(d, k) =>
         \/ Has(v, "RST_STREAM", k)
         \/ ~Active(s, k) /\ ~Has(v, "HEADERS", k)
  BY <1>1 DEF OnlyCloses
<1>3. \A k \in E : IF Odd(k) THEN k < c.next_stream_id ELSE k <= s.last_sent_stream_id
  OBVIOUS
<1>4. Mild(c, d, E, {})
  OBVIOUS
<1> HIDE DEF Core, Typed, Mild
<1> QED
  BY <1>2, <1>3, <1>4, ClientMild

LEMMA ClientGetsSettings ==
    ASSUME NEW srv \in BOOLEAN, ~srv, NEW c, NEW s, NEW v, NEW w, NEW f,
           Hearing(srv, c, s, v, w, f), f.type = "SETTINGS",
           NEW d, d = on_settings_received(c, f), Typed(d, s, v, w), Typed(d, s, v, Tail(w))
    PROVE  /\ Core(d, s, v, Tail(w)) /\ Settle(d, s, v, Tail(w))
           /\ d.goaway_flags = c.goaway_flags
<1>1. /\ c \in SessionType(srv) /\ Typed(c, s, v, w) /\ Core(c, s, v, w)
      /\ Settle(c, s, v, w) /\ Whole(c, s, v, w) /\ w # <<>> /\ f = Head(w)
      /\ c.goaway_flags = {}
  BY HearingFacts
<1>2. f \in SettingsFrames
  <2>1. PICK b \in BOOLEAN : b = TRUE
    OBVIOUS
  <2>2. f \in Frames(b)
    BY <1>1, <2>1, NotIdle
  <2> QED
    BY <2>2, FrameKinds
<1>3. PICK E : E = {}
  OBVIOUS
<1> DEFINE t == on_settings_received(c, f)
<1>4. /\ Mild(c, t, E, E)
      /\ t.inflight_settings = c.inflight_settings /\ t.local_max = c.local_max
      /\ t.ob_urgent \in {c.ob_urgent, Append(c.ob_urgent, SettingsAck)}
  BY <1>1, <1>2, SettingsReceivedMild
<1>5. Calm(c, t)
  BY <1>1, <1>2, SettingsReceived
<1>6. t = d
  OBVIOUS
<1> HIDE DEF t
<1>7. /\ Mild(c, d, E, E) /\ Calm(c, d)
      /\ d.inflight_settings = c.inflight_settings /\ d.local_max = c.local_max
      /\ d.ob_urgent \in {c.ob_urgent, Append(c.ob_urgent, SettingsAck)}
  BY <1>4, <1>5, <1>6
<1>8. d.goaway_flags = c.goaway_flags
  BY <1>7 DEF Mild
<1>9. Core(d, s, v, w)
  BY <1>1, <1>3, <1>7, ClientCalm
<1>10. Head(w).type = "SETTINGS"
  BY <1>1
<1>11. Core(d, s, v, Tail(w))
  BY <1>1, <1>9, <1>10, ClientTakes
<1>12. Settle(d, s, v, Tail(w))
  BY <1>1, <1>7, <1>8, <1>10, ClientSettingsRead
<1> QED
  BY <1>8, <1>11, <1>12

LEMMA ClientGetsAck ==
    ASSUME NEW srv \in BOOLEAN, ~srv, NEW c, NEW s, NEW v, NEW w, NEW f,
           Hearing(srv, c, s, v, w, f), f.type = "ACK",
           NEW d, d = on_settings_ack_received(c), Typed(d, s, v, w), Typed(d, s, v, Tail(w))
    PROVE  /\ Core(d, s, v, Tail(w)) /\ Settle(d, s, v, Tail(w))
           /\ d.goaway_flags = c.goaway_flags
<1>1. /\ c \in SessionType(srv) /\ Typed(c, s, v, w) /\ Core(c, s, v, w)
      /\ Settle(c, s, v, w) /\ Whole(c, s, v, w) /\ w # <<>> /\ f = Head(w)
      /\ c.goaway_flags = {}
  BY HearingFacts
<1>2. Head(w).type = "ACK"
  BY <1>1
<1>3. c.inflight_settings # <<>> /\ Head(c.inflight_settings).max \in Limits
  BY <1>1, <1>2, ClientAckExpected
<1>4. Head(c.inflight_settings).max # Unchanged
  BY <1>3, LimitAssumption DEF Limits, Unchanged
<1>5. PICK E : E = {}
  OBVIOUS
<1> DEFINE t == on_settings_ack_received(c)
<1>6. /\ Mild(c, t, E, E)
      /\ t.ob_urgent = c.ob_urgent /\ t.inflight_settings = Tail(c.inflight_settings)
      /\ t.local_max = Head(c.inflight_settings).max
  <2>1. /\ Mild(c, t, E, E)
        /\ t.ob_urgent = c.ob_urgent /\ t.inflight_settings = Tail(c.inflight_settings)
        /\ t.local_max = IF Head(c.inflight_settings).max = Unchanged THEN c.local_max
                         ELSE Head(c.inflight_settings).max
    BY <1>1, <1>3, SettingsAckedMild
  <2> QED
    BY <1>4, <2>1
<1>7. Calm(c, t)
  BY <1>1, SettingsAcked
<1>8. t = d
  OBVIOUS
<1> HIDE DEF t
<1>9. /\ Mild(c, d, E, E) /\ Calm(c, d)
      /\ d.ob_urgent = c.ob_urgent /\ d.inflight_settings = Tail(c.inflight_settings)
      /\ d.local_max \in Limits
  BY <1>3, <1>6, <1>7, <1>8
<1>10. d.goaway_flags = c.goaway_flags
  BY <1>9 DEF Mild
<1>11. Core(d, s, v, w)
  BY <1>1, <1>5, <1>9, ClientCalm
<1>12. Core(d, s, v, Tail(w))
  BY <1>1, <1>2, <1>11, ClientTakes
<1>13. Settle(d, s, v, Tail(w))
  BY <1>1, <1>2, <1>9, ClientAckRead
<1> QED
  BY <1>10, <1>12, <1>13

\* A client that is ending the session does not mind what it gets.
LEMMA ClientGetsAny ==
    ASSUME NEW srv \in BOOLEAN, ~srv, NEW c, NEW s, NEW v, NEW w, Whole(c, s, v, w),
           SessionInv(srv, c), c.goaway_flags # {}, w # <<>>, NEW f, f = Head(w),
           NEW d, d = receive(c, f), Later(c, d), Typed(d, s, v, w)
    PROVE  Core(d, s, v, Tail(w)) /\ Settle(d, s, v, Tail(w)) /\ d.goaway_flags # {}
<1>1. /\ c \in SessionType(srv) /\ Typed(c, s, v, w) /\ Core(c, s, v, w)
      /\ Settle(c, s, v, w) /\ "TERM_ON_SEND" \in c.goaway_flags
  BY DEF SessionInv, Sound, Whole, Paired
<1>2. d.goaway_flags # {}
  BY <1>1 DEF Later
<1>3. f \in Frames(~srv)
  <2>1. w \in Seq(Frames(TRUE))
    BY <1>1 DEF Typed
  <2>2. f \in Frames(TRUE)
    BY <2>1, Taken, Zenon
  <2>3. ~srv = TRUE
    OBVIOUS
  <2> QED
    BY <2>2, <2>3
<1>4. Mute(c, d)
  BY <1>1, <1>3, ReceiveMute
<1>5. Core(d, s, v, w)
  BY <1>1, <1>4, MuteClient
<1>6. Core(d, s, v, Tail(w))
  BY <1>2, <1>5, ClientTakes
<1>7. Settle(d, s, v, Tail(w))
  BY <1>1, <1>2 DEF Settle
<1> QED
  BY <1>2, <1>6, <1>7

LEMMA ClientReceives ==
    ASSUME NEW srv \in BOOLEAN, ~srv, NEW c, NEW s, NEW v, NEW w, Whole(c, s, v, w),
           SessionInv(srv, c), PushesFit(c), w # <<>>, NEW f, f = Head(w),
           NEW d, d = receive(c, f), Later(c, d), Typed(d, s, v, w)
    PROVE  /\ Core(d, s, v, Tail(w)) /\ Settle(d, s, v, Tail(w))
           /\ c.goaway_flags = {} => d.goaway_flags = {}
<1>1. CASE c.goaway_flags # {}
  BY <1>1, ClientGetsAny
<1>2. CASE c.goaway_flags = {}
  <2>1. Hearing(srv, c, s, v, w, f)
    BY <1>2 DEF Hearing
  <2>2. Typed(c, s, v, w) /\ Core(c, s, v, w) /\ Settle(c, s, v, w) /\ w \in Seq(AllFrames)
    BY TypedFields DEF Whole, Paired
  <2>3. f \in Members(w) /\ f \in AllFrames
    BY <1>2, <2>2, NotIdle, TypedFields
  <2>4. /\ Typed(d, s, v, Tail(w))
        /\ Fewer(v, v) /\ Fewer(w, Tail(w))
    <3>1. Tail(w) \in Seq(Frames(TRUE))
      <4>1. w \in Seq(Frames(TRUE))
        BY <2>2 DEF Typed
      <4> QED
        BY <4>1, Taken, Zenon
    <3>2. Typed(d, s, v, Tail(w))
      BY <3>1 DEF Typed
    <3>3. v \in Seq(AllFrames)
      BY <2>2, TypedFields
    <3> QED
      BY <2>2, <3>2, <3>3, FewerFrames
  <2>5. f.type \notin {"WINDOW_UPDATE", "GOAWAY"}
    BY <2>2, <2>3 DEF Core, ServerOK
  <2>6. f.type \in {"HEADERS", "PUSH_PROMISE", "RST_STREAM", "SETTINGS", "ACK", "DATA"}
    BY <2>3, <2>5, FrameFields
  <2>7. ASSUME ClientHears(c, d, s, v, w)
        PROVE  /\ Core(d, s, v, Tail(w)) /\ Settle(d, s, v, Tail(w))
               /\ d.goaway_flags = {}
    <3>1. SameSettings(s, s)
      BY DEF SameSettings
    <3>2. Core(d, s, v, Tail(w)) /\ d.goaway_flags = {} /\ SameSettings(c, d)
      BY <1>2, <2>7 DEF ClientHears
    <3> QED
      BY <1>2, <2>2, <2>4, <3>1, <3>2, SettleOther
  <2>8. CASE f.type = "HEADERS"
    <3>1. d = process_headers_frame(c, f)
      BY <2>8 DEF receive
    <3> QED
      BY <2>1, <2>7, <2>8, <3>1, ClientGetsHeaders
  <2>9. CASE f.type = "PUSH_PROMISE"
    <3>1. d = on_push_promise_received(c, f)
      BY <2>9 DEF receive
    <3> QED
      BY <2>1, <2>7, <2>9, <3>1, ClientGetsPromise
  <2>10. CASE f.type = "RST_STREAM"
    <3>1. d = on_rst_stream_received(c, f)
      BY <2>10 DEF receive
    <3> QED
      BY <2>1, <2>7, <2>10, <3>1, ClientGetsReset
  <2>11. CASE f.type = "DATA"
    <3>1. d = on_data_received(c, f)
      BY <2>11 DEF receive
    <3> QED
      BY <2>1, <2>7, <2>11, <3>1, ClientGetsData
  <2>12. CASE f.type = "SETTINGS"
    <3>1. d = on_settings_received(c, f)
      BY <2>12 DEF receive
    <3> QED
      BY <1>2, <2>1, <2>4, <2>12, <3>1, ClientGetsSettings
  <2>13. CASE f.type = "ACK"
    <3>1. d = on_settings_ack_received(c)
      BY <2>13 DEF receive
    <3> QED
      BY <1>2, <2>1, <2>4, <2>13, <3>1, ClientGetsAck
  <2> QED
    BY <1>2, <2>6, <2>8, <2>9, <2>10, <2>11, <2>12, <2>13
<1> QED
  BY <1>1, <1>2

\* The application sends a request.
LEMMA ClientRequests ==
    ASSUME NEW c, NEW s, NEW v, NEW w, Whole(c, s, v, w), c.next_stream_id \in StreamIds,
           NEW d, d = submit_request(c), Typed(d, s, v, w)
    PROVE  Core(d, s, v, w) /\ Settle(d, s, v, w) /\ d.goaway_flags = c.goaway_flags
<1>1. Paired(c, s, v, w) /\ Typed(c, s, v, w) /\ Core(c, s, v, w) /\ Settle(c, s, v, w)
  BY DEF Whole, Paired
<1>2. Core(d, s, v, w)
  BY <1>1, RequestQueued
<1>3. SameSettings(c, d) /\ d.goaway_flags = c.goaway_flags
  <2>1. c \in SessionType(FALSE)
    BY <1>1 DEF Typed
  <2> QED
    BY <2>1 DEF submit_request, Enqueue, SameSettings, SessionType
<1>4. Fewer(v, v) /\ Fewer(w, w) /\ SameSettings(s, s)
  BY <1>1, TypedFields, FewerFrames DEF SameSettings
<1> QED
  BY <1>1, <1>2, <1>3, <1>4, SettleOther
-----------------------------------------------------------------------------
(***************************************************************************)
(* The steps of the server.                                                *)
(***************************************************************************)
ServerGoes(c, s, t, v, w) == Core(c, t, v, w) /\ SameSettings(s, t)

LEMMA ServerFacts ==
    ASSUME NEW srv \in BOOLEAN, srv, NEW c, NEW s, NEW v, NEW w, Whole(c, s, v, w),
           SessionInv(srv, s)
    PROVE  /\ s \in SessionType(srv) /\ Typed(c, s, v, w) /\ Core(c, s, v, w)
           /\ Settle(c, s, v, w) /\ Paired(c, s, v, w)
           /\ ServerOK(s, w) /\ HeardOK(s, v) /\ RoomOK(s, v)
           /\ c.goaway_flags = {} => Polite(c, s, v, w)
           /\ c.goaway_flags # {} => "TERM_ON_SEND" \in c.goaway_flags
           /\ \A k \in StreamIds : Active(s, k) => "RD" \in s.streams[k].shut
           /\ w \in Seq(AllFrames) /\ v \in Seq(AllFrames) /\ v \in Seq(Frames(FALSE))
           /\ \A g \in Members(w) : g.type = "PUSH_PROMISE" => g.promised <= s.last_sent_stream_id
           /\ EvenReserved(s)
<1>1. Paired(c, s, v, w) /\ Core(c, s, v, w) /\ Settle(c, s, v, w) /\ Typed(c, s, v, w)
  BY DEF Whole, Paired
<1>2. ServerOK(s, w) /\ HeardOK(s, v) /\ RoomOK(s, v) /\ (c.goaway_flags = {} => Polite(c, s, v, w))
  BY <1>1 DEF Core
<1>3. \A k \in StreamIds : Active(s, k) => "RD" \in s.streams[k].shut
  BY <1>2 DEF ServerOK
<1>4. w \in Seq(AllFrames) /\ v \in Seq(AllFrames) /\ v \in Seq(Frames(FALSE))
  BY <1>1, TypedFields DEF Typed
<1>5. /\ \A g \in Members(w) : g.type = "PUSH_PROMISE" => g.promised <= s.last_sent_stream_id
      /\ EvenReserved(s)
  BY <1>1 DEF Paired, IdsOK
<1> QED
  BY <1>1, <1>2, <1>3, <1>4, <1>5 DEF SessionInv, Sound, Whole

LEMMA ServerTame ==
    ASSUME NEW c, NEW s, NEW v, NEW w, Typed(c, s, v, w), Core(c, s, v, w),
           NEW t, NEW R, NEW E, E = {}, Tame(s, t, R, E), Dry(s, t),
           c.goaway_flags = {} => \A k \in R : Begun(s, k)
    PROVE  ServerGoes(c, s, t, v, w)
<1>1. Mild(s, t, R, E) /\ SameSettings(s, t)
  BY DEF Tame
<1>2. c.goaway_flags = {} => \A k \in StreamIds : k \in E =>
         Begun(s, k) /\ (DataAllowed(c, k) \/ Has(w, "HEADERS", k))
  OBVIOUS
<1>3. Core(c, t, v, w)
  <2> HIDE DEF Core, Mild, Dry
  <2> QED
    BY <1>1, <1>2, ServerMild
<1> QED
  BY <1>1, <1>3 DEF ServerGoes

LEMMA ServerResponds ==
    ASSUME NEW srv \in BOOLEAN, srv, NEW c, NEW s, NEW v, NEW w, Whole(c, s, v, w),
           SessionInv(srv, s), NEW id \in StreamIds, NEW n \in Nat,
           \/ s.streams[id].state = "OPENING"
           \/ s.streams[id].state = "RESERVED" /\ id <= s.last_sent_stream_id
    PROVE  ServerGoes(c, s, submit_response(s, id, n), v, w)
<1>1. s \in SessionType(srv) /\ Paired(c, s, v, w) /\ Core(c, s, v, w)
  BY ServerFacts
<1>2. Core(c, submit_response(s, id, n), v, w)
  BY <1>1, ResponseQueued
<1>3. SameSettings(s, submit_response(s, id, n))
  BY <1>1 DEF submit_response, Enqueue, SameSettings, SessionType
<1> QED
  BY <1>2, <1>3 DEF ServerGoes

LEMMA ServerPromises ==
    ASSUME NEW srv \in BOOLEAN, srv, NEW c, NEW s, NEW v, NEW w, Whole(c, s, v, w),
           SessionInv(srv, s), NEW id \in RequestIds, s.streams[id].state = "OPENING",
           s.next_stream_id \in StreamIds
    PROVE  ServerGoes(c, s, submit_push_promise(s, id), v, w)
<1>1. s \in SessionType(srv) /\ Typed(c, s, v, w) /\ Core(c, s, v, w)
  BY ServerFacts
<1>2. id \in StreamIds /\ Odd(id)
  BY DEF RequestIds, Odd
<1>3. Core(c, submit_push_promise(s, id), v, w)
  BY <1>1, <1>2, PromiseQueued
<1>4. SameSettings(s, submit_push_promise(s, id))
  <2> DEFINE n == s.next_stream_id
             t == [s EXCEPT !.next_stream_id = n + 2]
             u == open_stream(t, n, "RESERVED")
             x == [u EXCEPT !.ob_reg = Append(u.ob_reg, PushPromise(id, n))]
  <2>1. Active(s, id)
    BY DEF Active
  <2>2. submit_push_promise(s, id) = x
    BY <2>1 DEF submit_push_promise, Enqueue
  <2>3. n + 2 \in Nat
    <3>1. n \in Nat
      BY IdsFinite
    <3> QED
      BY <3>1
  <2>4. t \in SessionType(srv) /\ SameSettings(s, t)
    BY <1>1, <2>3 DEF SessionType, SameSettings
  <2> HIDE DEF t
  <2>5. Opened(t, u, n, "RESERVED")
    BY <2>4, OpenedFields
  <2>6. SameSettings(t, u)
    BY <2>5 DEF Opened, Steady
  <2>7. SameSettings(u, x)
    BY <2>4 DEF SameSettings, open_stream, SessionType
  <2> QED
    BY <2>2, <2>4, <2>6, <2>7 DEF SameSettings
<1> QED
  BY <1>3, <1>4 DEF ServerGoes

\* A body that waits to be sent is that of a stream that has begun.
LEMMA BodyFacts ==
    ASSUME NEW srv \in BOOLEAN, srv, NEW c, NEW s, NEW v, NEW w, Whole(c, s, v, w),
           SessionInv(srv, s), NEW id \in DataQueued(s)
    PROVE  /\ id \in StreamIds /\ Active(s, id) /\ s.streams[id].item # NoItem
           /\ c.goaway_flags = {} =>
                Begun(s, id) /\ (DataAllowed(c, id) \/ Has(w, "HEADERS", id))
<1>1. c.goaway_flags = {} => Polite(c, s, v, w)
  BY ServerFacts
<1>2. id \in StreamIds /\ Active(s, id) /\ s.streams[id].item # NoItem
  BY DEF DataQueued, ActiveStreams
<1> QED
  BY <1>1, <1>2 DEF Polite, Answers

LEMMA ServerFails ==
    ASSUME NEW srv \in BOOLEAN, srv, NEW c, NEW s, NEW v, NEW w, Whole(c, s, v, w),
           SessionInv(srv, s), NEW id \in DataQueued(s)
    PROVE  ServerGoes(c, s, add_rst_stream(detach_item(s, id), id), v, w)
<1>1. s \in SessionType(srv) /\ Typed(c, s, v, w) /\ Core(c, s, v, w)
  BY ServerFacts
<1>2. id \in StreamIds /\ (c.goaway_flags = {} => Begun(s, id))
  BY BodyFacts
<1>3. PICK R : R = {id}
  OBVIOUS
<1>4. PICK E : E = {}
  OBVIOUS
<1>5. id \in R
  BY <1>3
<1> DEFINE u == detach_item(s, id)
           t == add_rst_stream(u, id)
<1>6. Tame(s, u, R, E) /\ Dry(s, u) /\ u \in SessionType(srv)
  BY <1>1, <1>2, ItemTame, ItemDetached
<1> HIDE DEF u
<1>7. Tame(u, t, R, E) /\ Dry(u, t)
  BY <1>2, <1>5, <1>6, AddRstTame
<1> HIDE DEF t
<1>8. Tame(s, t, R, E) /\ Dry(s, t)
  BY <1>6, <1>7, TameTwice, DryTwice
<1>9. ServerGoes(c, s, t, v, w)
  BY <1>1, <1>2, <1>3, <1>4, <1>8, ServerTame
<1> QED
  BY <1>9 DEF t, u

LEMMA SettleServer ==
    ASSUME NEW c, NEW s, NEW t, NEW v, NEW w, NEW w2,
           Typed(c, s, v, w), Typed(c, t, v, w2), Settle(c, s, v, w),
           t.local_max = s.local_max, t.inflight_settings = s.inflight_settings,
           Down(w, s.ob_urgent, w2, t.ob_urgent)
    PROVE  Settle(c, t, v, w2)
<1>1. \A T : /\ Units(v, Tally(T)) + Units(c.ob_urgent, Tally(T))
                  <= Units(v, Tally(T)) + Units(c.ob_urgent, Tally(T))
             /\ Units(v, Tally(T)) <= Units(v, Tally(T))
  BY SettleNumbers
<1>2. Down(v, c.ob_urgent, v, c.ob_urgent)
  BY <1>1 DEF Down
<1>3. c.goaway_flags # {} => Units(v, Tally("ACK")) <= Units(v, Tally("ACK"))
  BY <1>1, Zenon
<1>4. c.goaway_flags = {} =>
        /\ c.goaway_flags = {}
        /\ c.local_max = c.local_max /\ c.inflight_settings = c.inflight_settings
        /\ Down(v, c.ob_urgent, v, c.ob_urgent)
        /\ Down(w, s.ob_urgent, w2, t.ob_urgent)
  BY <1>2
<1> QED
  BY <1>3, <1>4, SettleFewer

\* A frame about settings goes, or is dropped.
LEMMA ServerUrgent ==
    ASSUME NEW srv \in BOOLEAN, srv, NEW c, NEW s, NEW v, NEW w, Whole(c, s, v, w),
           SessionInv(srv, s), s.ob_urgent # <<>>,
           NEW f, f = Head(s.ob_urgent), NEW t, t = [s EXCEPT !.ob_urgent = Tail(s.ob_urgent)]
    PROVE  /\ UrgentGone(s, t, f)
           /\ Core(c, t, v, w) /\ Settle(c, t, v, w)
           /\ Core(c, t, v, Append(w, f)) /\ Settle(c, t, v, Append(w, f))
<1>1. /\ s \in SessionType(srv) /\ Typed(c, s, v, w) /\ Core(c, s, v, w)
      /\ Settle(c, s, v, w) /\ srv = TRUE
  BY ServerFacts
<1>2. /\ UrgentGone(s, t, f) /\ t \in SessionType(srv)
      /\ f \in Frames(srv) /\ f.type \in {"SETTINGS", "ACK"}
  BY <1>1, UrgentFirst
<1>3. PICK E : E = {}
  OBVIOUS
<1>4. /\ Mild(s, t, E, E) /\ Dry(s, t)
      /\ t.inflight_settings = s.inflight_settings /\ t.local_max = s.local_max
      /\ t.ob_urgent = Tail(s.ob_urgent)
  BY <1>2, <1>3 DEF UrgentGone
<1>5. Core(c, t, v, w)
  <2>1. \A k \in E : Begun(s, k)
    BY <1>3
  <2>2. \A k \in StreamIds : k \in E => Begun(s, k) /\ (DataAllowed(c, k) \/ Has(w, "HEADERS", k))
    BY <1>3
  <2> HIDE DEF Core, Mild, Dry, Typed
  <2> QED
    BY <1>1, <1>4, <2>1, <2>2, ServerMild
<1>6. Typed(c, t, v, w) /\ w \in Seq(Frames(TRUE)) /\ f \in Frames(TRUE)
  BY <1>1, <1>2 DEF Typed
<1>7. Typed(c, t, v, Append(w, f))
  <2>1. Append(w, f) \in Seq(Frames(TRUE))
    BY <1>6, Appended, Zenon
  <2> QED
    BY <1>6, <2>1 DEF Typed
<1>8. Core(c, t, v, Append(w, f))
  <2>1. f.type \notin {"HEADERS", "RST_STREAM", "DATA"} /\ ~Complete(f)
    BY <1>2 DEF Complete
  <2> HIDE DEF Core, Typed
  <2> QED
    BY <1>2, <1>5, <1>6, <2>1, ServerFrame
<1>9. s.ob_urgent \in Seq(AllFrames) /\ v \in Seq(AllFrames) /\ w \in Seq(AllFrames)
  BY <1>1, UrgentFrames, TypedFields
<1>10. \A T \in {"SETTINGS", "ACK"} :
        /\ Units(Append(w, f), Tally(T)) + Units(t.ob_urgent, Tally(T))
             <= Units(w, Tally(T)) + Units(s.ob_urgent, Tally(T))
        /\ Units(w, Tally(T)) + Units(t.ob_urgent, Tally(T))
             <= Units(w, Tally(T)) + Units(s.ob_urgent, Tally(T))
  BY <1>4, <1>9, UrgentUnits
<1>11. Down(w, s.ob_urgent, w, t.ob_urgent) /\ Down(w, s.ob_urgent, Append(w, f), t.ob_urgent)
  BY <1>10 DEF Down
<1>12. t.inflight_settings = s.inflight_settings /\ t.local_max = s.local_max
  BY <1>4
<1>13. Settle(c, t, v, w)
  BY <1>1, <1>6, <1>11, <1>12, SettleServer
<1>14. Settle(c, t, v, Append(w, f))
  BY <1>1, <1>7, <1>11, <1>12, SettleServer
<1> QED
  BY <1>2, <1>5, <1>8, <1>13, <1>14

\* A server that goes on in front of a client that is gone has sent nothing.
LEMMA UnsentServer ==
    ASSUME NEW c, NEW s, NEW v, NEW w, NEW t, NEW r, Core(c, s, v, w),
           Core(c, t, v, r), c.goaway_flags # {}
    PROVE  Core(c, t, v, w)
<1>1. ServerOK(s, w) /\ ServerOK(t, r)
  BY DEF Core
<1>2. ServerOK(t, w)
  BY <1>1 DEF ServerOK
<1> QED
  BY <1>2 DEF Core

\* A turn of a body.
LEMMA ServerData ==
    ASSUME NEW srv \in BOOLEAN, srv, NEW c, NEW s, NEW v, NEW w, Whole(c, s, v, w),
           SessionInv(srv, s), NEW id \in DataQueued(s)
    PROVE  /\ ServerGoes(c, s, detach_item(s, id), v, w)
           /\ ServerGoes(c, s, defer_item(s, id), v, w)
           /\ NextData(s, id).length > 0 =>
                /\ ServerGoes(c, s, data_sent(s, NextData(s, id)), v, w)
                /\ Core(c, data_sent(s, NextData(s, id)), v, Append(w, NextData(s, id)))
                /\ NextData(s, id) \in Frames(TRUE) /\ NextData(s, id).type = "DATA"
<1>1. /\ s \in SessionType(srv) /\ Typed(c, s, v, w) /\ Core(c, s, v, w) /\ srv = TRUE
      /\ \A k \in StreamIds : Active(s, k) => "RD" \in s.streams[k].shut
  BY ServerFacts
<1>2. /\ id \in StreamIds /\ s.streams[id].item # NoItem
      /\ c.goaway_flags = {} => Begun(s, id) /\ (DataAllowed(c, id) \/ Has(w, "HEADERS", id))
  BY BodyFacts
<1>3. PICK E : E = {}
  OBVIOUS
<1>4. \A k \in E : Begun(s, k)
  BY <1>3
<1>5. /\ Tame(s, detach_item(s, id), E, E) /\ Dry(s, detach_item(s, id))
      /\ Tame(s, defer_item(s, id), E, E) /\ Dry(s, defer_item(s, id))
  BY <1>1, <1>2, ItemTame
<1>6. ServerGoes(c, s, detach_item(s, id), v, w) /\ ServerGoes(c, s, defer_item(s, id), v, w)
  BY <1>1, <1>3, <1>4, <1>5, ServerTame
<1>7. ASSUME NextData(s, id).length > 0
      PROVE  /\ ServerGoes(c, s, data_sent(s, NextData(s, id)), v, w)
             /\ Core(c, data_sent(s, NextData(s, id)), v, Append(w, NextData(s, id)))
             /\ NextData(s, id) \in Frames(TRUE) /\ NextData(s, id).type = "DATA"
  <2>1. PICK f : f = NextData(s, id)
    OBVIOUS
  <2>2. PICK t : t = data_sent(s, f)
    OBVIOUS
  <2>3. f \in DataFrames /\ Moves(srv, s, t) /\ f.length > 0
    BY <1>2, <1>7, <2>1, <2>2, DataSent
  <2>4. f.id = id /\ f.type = "DATA"
    BY <2>1 DEF NextData, Data
  <2>5. Tame(s, t, E, E) /\ Dry(s, t) /\ (f.end => ~Active(t, id))
    BY <1>1, <1>2, <2>1, <2>2, <2>3, DataSentTame
  <2>6. ServerGoes(c, s, t, v, w)
    BY <1>1, <1>3, <1>4, <2>5, ServerTame
  <2>7. f \in Frames(TRUE)
    BY <2>3 DEF Frames
  <2>8. Typed(c, t, v, w)
    BY <1>1, <2>3 DEF Typed, Moves, SessionInv, Sound
  <2>9. Begun(s, id) => Begun(t, id)
    BY <2>5 DEF Tame, Mild, Begun
  <2>10. Complete(f) => ~Active(t, id)
    BY <2>4, <2>5 DEF Complete
  <2>11. Core(c, t, v, Append(w, f))
    <3>1. Core(c, t, v, w)
      BY <2>6 DEF ServerGoes
    <3> QED
      BY <1>2, <2>4, <2>7, <2>8, <2>9, <2>10, <3>1, ServerFrame
  <2> QED
    BY <2>1, <2>2, <2>4, <2>6, <2>7, <2>11
<1> QED
  BY <1>6, <1>7

\* What the server leaves when the first frame of a queue is sent, or dropped.
ServerSends(c, s, t, v, w, f, may) ==
    /\ may => Core(c, t, v, Append(w, f))
    /\ ~may => Core(c, t, v, w)
    /\ SameSettings(s, t)
    /\ f.type \notin {"SETTINGS", "ACK"}

LEMMA ServerResponse ==
    ASSUME NEW srv \in BOOLEAN, srv, NEW c, NEW s, NEW v, NEW w, Typed(c, s, v, w),
           Core(c, s, v, w), s \in SessionType(srv), NEW f \in Responses,
           c.goaway_flags = {} => Begun(s, f.id),
           NEW t, t \in SessionType(srv),
           t = IF MaySend(s, f) THEN headers_sent(s, f) ELSE add_rst_stream(s, f.id)
    PROVE  ServerSends(c, s, t, v, w, f, MaySend(s, f))
<1>1. /\ f.type = "HEADERS" /\ f.cat = "HEADERS" /\ f.id \in StreamIds /\ f.size \in Nat
      /\ f \in Frames(TRUE) /\ srv = TRUE
  BY DEF Responses, Frames, Regular
<1>2. PICK E : E = {}
  OBVIOUS
<1>3. PICK R : R = {f.id}
  OBVIOUS
<1>4. Typed(c, t, v, w) /\ w \in Seq(Frames(TRUE))
  BY <1>1 DEF Typed
<1>5. CASE ~MaySend(s, f)
  <2>1. t = add_rst_stream(s, f.id) /\ f.id \in R
    BY <1>3, <1>5
  <2>2. Tame(s, add_rst_stream(s, f.id), R, E) /\ Dry(s, add_rst_stream(s, f.id))
    BY <1>1, <2>1, AddRstTame
  <2>3. c.goaway_flags = {} => \A k \in R : Begun(s, k)
    BY <1>3
  <2>4. ServerGoes(c, s, t, v, w)
    BY <1>2, <2>1, <2>2, <2>3, ServerTame
  <2> QED
    BY <1>1, <1>5, <2>4 DEF ServerSends, ServerGoes
<1>6. ASSUME MaySend(s, f) PROVE "RD" \in s.streams[f.id].shut /\ t = headers_sent(s, f)
  <2>1. Active(s, f.id)
    BY <1>1, <1>6 DEF MaySend, predicate_for_stream_send
  <2> QED
    BY <1>1, <1>6, <2>1 DEF Core, ServerOK
<1>7. CASE MaySend(s, f) /\ f.size = 0
  <2>1. Tame(s, t, E, E) /\ Dry(s, t) /\ ~Active(t, f.id)
    BY <1>6, <1>7, ResponseSentTame
  <2>2. c.goaway_flags = {} => \A k \in E : Begun(s, k)
    BY <1>2
  <2>3. ServerGoes(c, s, t, v, w)
    BY <1>2, <2>1, <2>2, ServerTame
  <2>4. Core(c, t, v, w)
    BY <2>3 DEF ServerGoes
  <2>5. c.goaway_flags = {} => Begun(t, f.id)
    BY <2>1 DEF Tame, Mild, Begun
  <2>6. Core(c, t, v, Append(w, f))
    <3> HIDE DEF Core, Typed
    <3> QED
      BY <1>1, <1>4, <2>1, <2>4, <2>5, ServerFrame
  <2> QED
    BY <1>1, <1>7, <2>3, <2>6 DEF ServerSends, ServerGoes
<1>8. CASE MaySend(s, f) /\ f.size # 0
  <2>1. f.size # 0 => f.id \in R
    BY <1>3
  <2>2. Tame(s, t, E, R) /\ Dry(s, t)
    BY <1>6, <1>8, <2>1, ResponseSentTame
  <2>3. Mild(s, t, E, R) /\ SameSettings(s, t)
    BY <2>2 DEF Tame
  <2>4. ~Complete(f) /\ f.type # "RST_STREAM" /\ f.type # "DATA"
    BY <1>1, <1>8 DEF Complete
  <2>5. Core(c, s, v, Append(w, f))
    <3> HIDE DEF Core, Typed
    <3> QED
      BY <1>1, <2>4, ServerFrame
  <2>6. Typed(c, s, v, Append(w, f)) /\ Has(Append(w, f), "HEADERS", f.id)
    <3>1. Append(w, f) \in Seq(Frames(TRUE))
      BY <1>1, <1>4, Appended, Zenon
    <3>2. Members(Append(w, f)) = Members(w) \cup {f}
      BY <1>1, <1>4, Sent, Zenon
    <3>3. Has(Append(w, f), "HEADERS", f.id)
      BY <1>1, <3>2 DEF Has
    <3> QED
      BY <3>1, <3>3 DEF Typed
  <2>7. c.goaway_flags = {} => \A k \in StreamIds : k \in R =>
           Begun(s, k) /\ (DataAllowed(c, k) \/ Has(Append(w, f), "HEADERS", k))
    BY <1>3, <2>6
  <2>8. c.goaway_flags = {} => \A k \in E : Begun(s, k)
    BY <1>2
  <2>9. Core(c, t, v, Append(w, f))
    <3> HIDE DEF Core, Typed, Mild, Dry
    <3> QED
      BY <2>2, <2>3, <2>5, <2>6, <2>7, <2>8, ServerMild
  <2> QED
    BY <1>1, <1>8, <2>3, <2>9 DEF ServerSends
<1> QED
  BY <1>1, <1>5, <1>7, <1>8

LEMMA ServerPromise ==
    ASSUME NEW srv \in BOOLEAN, srv, NEW c, NEW s, NEW v, NEW w, Typed(c, s, v, w),
           Core(c, s, v, w), s \in SessionType(srv), NEW f \in Promises,
           c.goaway_flags = {} => Begun(s, f.id) /\ Odd(f.id),
           \A g \in Members(w) : g.type = "PUSH_PROMISE" => g.promised <= s.last_sent_stream_id,
           s.last_sent_stream_id < f.promised,
           NEW t, t = IF MaySend(s, f) THEN [s EXCEPT !.last_sent_stream_id = f.promised]
                      ELSE close_stream(s, f.promised)
    PROVE  ServerSends(c, s, t, v, w, f, MaySend(s, f))
<1>1. f.type = "PUSH_PROMISE"
  BY DEF Promises
<1>2. CASE ~MaySend(s, f)
  <2>1. PICK E : E = {}
    OBVIOUS
  <2>2. PICK X : X = {f.promised}
    OBVIOUS
  <2>3. t = close_streams(s, X)
    BY <1>2, <2>2 DEF close_stream
  <2>4. Tame(s, close_streams(s, X), E, E) /\ Dry(s, close_streams(s, X))
    BY CloseStreamsTame
  <2>5. c.goaway_flags = {} => \A k \in E : Begun(s, k)
    BY <2>1
  <2>6. ServerGoes(c, s, t, v, w)
    BY <2>1, <2>3, <2>4, <2>5, ServerTame
  <2> QED
    BY <1>1, <1>2, <2>6 DEF ServerSends, ServerGoes
<1>3. CASE MaySend(s, f)
  <2>1. /\ t.last_sent_stream_id = f.promised
        /\ t.goaway_flags = s.goaway_flags
        /\ t.remote_last_stream_id = s.remote_last_stream_id
        /\ t.last_recv_stream_id = s.last_recv_stream_id
        /\ t.recv_window_size = s.recv_window_size
        /\ t.remote_window_size = s.remote_window_size
        /\ t.ob_syn = s.ob_syn /\ t.ob_reg = s.ob_reg /\ t.streams = s.streams
        /\ SameSettings(s, t)
    BY <1>3 DEF SessionType, SameSettings
  <2>2. Core(c, t, v, Append(w, f))
    BY <2>1, PromiseOut
  <2> QED
    BY <1>1, <1>3, <2>1, <2>2 DEF ServerSends
<1> QED
  BY <1>2, <1>3

\* The first frame of the regular queue.
LEMMA ServerRegular ==
    ASSUME NEW srv \in BOOLEAN, srv, NEW c, NEW s, NEW v, NEW w, Whole(c, s, v, w),
           SessionInv(srv, s), s.ob_reg # <<>>, NEW f, f = Head(s.ob_reg),
           NEW t, t = [s EXCEPT !.ob_reg = Tail(s.ob_reg)], NEW u, u = prepare(t, f),
           NEW d, d = IF MaySend(u, f) THEN after_frame_sent(u, f) ELSE not_sent(u, f)
    PROVE  ServerSends(c, s, d, v, w, f, MaySend(u, f)) /\ f \in Frames(TRUE)
<1>1. /\ s \in SessionType(srv) /\ Typed(c, s, v, w) /\ Core(c, s, v, w) /\ srv = TRUE
      /\ ServerOK(s, w) /\ (c.goaway_flags = {} => Polite(c, s, v, w))
      /\ \A g \in Members(w) : g.type = "PUSH_PROMISE" => g.promised <= s.last_sent_stream_id
  BY ServerFacts
<1>2. PICK E : E = {}
  OBVIOUS
<1>3. Tame(s, t, E, E) /\ Dry(s, t)
  BY <1>1, RegularTail
<1>4. /\ Moves(srv, s, t) /\ f \in Regular(srv) /\ GoawayOK(t, f)
      /\ f.type = "PUSH_PROMISE" => /\ t.last_sent_stream_id < f.promised
                                    /\ InOrder(t.ob_reg, f.promised, t.next_stream_id)
  BY RegularTaken
<1>5. SessionInv(srv, t) /\ t \in SessionType(srv)
  BY <1>4 DEF Moves, SessionInv, Sound
<1>6. f \in Members(s.ob_reg)
  <2>1. s.ob_reg \in Seq(Regular(srv))
    BY <1>1, FieldTypes
  <2> QED
    BY <2>1, MembersOf
<1>7. f.type \notin {"GOAWAY", "WINDOW_UPDATE"}
  BY <1>1, <1>6 DEF ServerOK
<1>8. f \in Responses \/ f \in Promises
  BY <1>1, <1>4, <1>7 DEF Regular, Goaways, Updates
<1>9. f.type \in {"HEADERS", "PUSH_PROMISE"} /\ f.id \in StreamIds /\ f \in Frames(TRUE)
  BY <1>8 DEF Responses, Promises, Frames, Regular
<1>10. c.goaway_flags = {} => Begun(s, f.id) /\ (f.type = "PUSH_PROMISE" => Odd(f.id))
  BY <1>1, <1>6, <1>9 DEF Polite, Spoken
<1>11. /\ c.goaway_flags = {} => Begun(t, f.id)
       /\ t.last_sent_stream_id = s.last_sent_stream_id /\ SameSettings(s, t)
  BY <1>3, <1>10 DEF Tame, Mild, Begun
<1>12. Core(c, t, v, w)
  <2>1. c.goaway_flags = {} => \A k \in E : Begun(s, k)
    BY <1>2
  <2>2. ServerGoes(c, s, t, v, w)
    BY <1>1, <1>2, <1>3, <2>1, ServerTame
  <2> QED
    BY <2>2 DEF ServerGoes
<1>13. Typed(c, t, v, w)
  BY <1>1, <1>5 DEF Typed
<1>14. u = t
  BY <1>8 DEF prepare, Responses, Promises
<1>15. d \in SessionType(srv)
  <2>1. f \in Frames(srv) \ DataFrames /\ PromiseIsNext(t, f) /\ f \notin Requests
    BY <1>1, <1>4, <1>8, <1>9 DEF PromiseIsNext, DataFrames, Requests, Responses, Promises
  <2>2. Moves(srv, t, d)
    BY <1>4, <1>5, <1>14, <2>1, FrameSent
  <2> QED
    BY <2>2 DEF Moves, SessionInv, Sound
<1>16. ServerSends(c, t, d, v, w, f, MaySend(t, f))
  <2>1. CASE f \in Responses
    <3>1. d = IF MaySend(t, f) THEN headers_sent(t, f) ELSE add_rst_stream(t, f.id)
      BY <1>14, <2>1 DEF after_frame_sent, not_sent, Responses
    <3> HIDE DEF Core, Typed
    <3> QED
      BY <1>5, <1>11, <1>12, <1>13, <1>15, <2>1, <3>1, ServerResponse
  <2>2. CASE f \in Promises
    <3>1. d = IF MaySend(t, f) THEN [t EXCEPT !.last_sent_stream_id = f.promised]
              ELSE close_stream(t, f.promised)
      BY <1>14, <2>2 DEF after_frame_sent, not_sent, Promises
    <3>2. f.type = "PUSH_PROMISE"
      BY <2>2 DEF Promises
    <3>3. \A g \in Members(w) : g.type = "PUSH_PROMISE" => g.promised <= t.last_sent_stream_id
      BY <1>1, <1>11
    <3>4. c.goaway_flags = {} => Begun(t, f.id) /\ Odd(f.id)
      BY <1>10, <1>11, <3>2
    <3> HIDE DEF Core, Typed
    <3> QED
      BY <1>4, <1>5, <1>12, <1>13, <2>2, <3>1, <3>2, <3>3, <3>4, ServerPromise
  <2> QED
    BY <1>8, <2>1, <2>2
<1> QED
  BY <1>9, <1>11, <1>14, <1>16 DEF ServerSends, SameSettings

\* A reset is sent: its stream has ended.
LEMMA ServerReset ==
    ASSUME NEW srv \in BOOLEAN, srv, NEW c, NEW s, NEW v, NEW w, Whole(c, s, v, w),
           SessionInv(srv, s), s.ob_syn # <<>>, NEW f, f = Head(s.ob_syn),
           NEW t, t = [s EXCEPT !.ob_syn = Tail(s.ob_syn)], NEW u, u = prepare(t, f),
           NEW d, d = IF MaySend(u, f) THEN after_frame_sent(u, f) ELSE not_sent(u, f)
    PROVE  ServerSends(c, s, d, v, w, f, MaySend(u, f)) /\ f \in Frames(TRUE)
<1>1. /\ s \in SessionType(srv) /\ Typed(c, s, v, w) /\ Core(c, s, v, w) /\ srv = TRUE
      /\ (c.goaway_flags = {} => Polite(c, s, v, w))
  BY ServerFacts
<1>2. PICK E : E = {}
  OBVIOUS
<1>3. Tame(s, t, E, E) /\ Dry(s, t)
  BY <1>1, SynTail
<1>4. Moves(srv, s, t) /\ f \in Resets
  BY SynTaken
<1>5. Sound(srv, t) /\ t \in SessionType(srv)
  BY <1>4 DEF Moves, SessionInv, Sound
<1>6. f \in Members(s.ob_syn)
  <2>1. s.ob_syn \in Seq(Resets)
    BY <1>1, FieldTypes
  <2>2. Head(s.ob_syn) \in Members(s.ob_syn)
    BY <2>1, MembersOf
  <2> QED
    BY <2>2
<1>7. f.type = "RST_STREAM" /\ f.id \in StreamIds /\ f \in Frames(TRUE)
  BY <1>4 DEF Resets, Frames
<1>8. c.goaway_flags = {} => Begun(s, f.id)
  BY <1>1, <1>6 DEF Polite, Spoken
<1>9. c.goaway_flags = {} => \A k \in E : Begun(s, k)
  BY <1>2
<1>10. Core(c, t, v, w) /\ SameSettings(s, t)
  <2>1. ServerGoes(c, s, t, v, w)
    BY <1>1, <1>2, <1>3, <1>9, ServerTame
  <2> QED
    BY <2>1 DEF ServerGoes
<1>11. Typed(c, t, v, w)
  BY <1>1, <1>5 DEF Typed
<1>12. u = t /\ d = IF MaySend(t, f) THEN close_stream(t, f.id) ELSE t
  BY <1>7 DEF prepare, after_frame_sent, not_sent
<1>13. CASE ~MaySend(t, f)
  BY <1>7, <1>10, <1>12, <1>13 DEF ServerSends
<1>14. CASE MaySend(t, f)
  <2>1. PICK X : X = {f.id}
    OBVIOUS
  <2>2. d = close_streams(t, X)
    BY <1>12, <1>14, <2>1 DEF close_stream
  <2>3. Tame(t, close_streams(t, X), E, E) /\ Dry(t, close_streams(t, X))
    BY <1>5, CloseStreamsTame
  <2>4. Sound(srv, d) /\ ~Active(d, f.id)
    <3>1. d = close_stream(t, f.id)
      BY <1>12, <1>14
    <3>2. Sound(srv, close_stream(t, f.id)) /\ ~Active(close_stream(t, f.id), f.id)
      BY <1>5, <1>7, CloseStream, Zenon
    <3> QED
      BY <3>1, <3>2
  <2>5. c.goaway_flags = {} => \A k \in E : Begun(t, k)
    BY <1>2
  <2>6. Core(c, d, v, w) /\ SameSettings(t, d)
    <3>1. ServerGoes(c, t, d, v, w)
      BY <1>2, <1>10, <1>11, <2>2, <2>3, <2>5, ServerTame
    <3> QED
      BY <3>1 DEF ServerGoes
  <2>7. c.goaway_flags = {} => Begun(d, f.id)
    <3>1. Tame(t, d, E, E)
      BY <2>2, <2>3
    <3> QED
      BY <1>3, <1>8, <3>1 DEF Tame, Mild, Begun
  <2>8. Typed(c, d, v, w)
    BY <1>1, <2>4 DEF Typed, Sound
  <2>9. ~Complete(f)
    BY <1>7 DEF Complete
  <2>10. Core(c, d, v, Append(w, f))
    <3> HIDE DEF Core, Typed
    <3> QED
      BY <1>7, <2>4, <2>6, <2>7, <2>8, ServerFrame
  <2>11. SameSettings(s, d)
    BY <1>10, <2>6 DEF SameSettings
  <2> QED
    BY <1>7, <1>14, <2>10, <2>11, <1>12 DEF ServerSends
<1> QED
  BY <1>7, <1>12, <1>13, <1>14
-----------------------------------------------------------------------------
(***************************************************************************)
(* The server receives a frame.                                            *)
(***************************************************************************)
ServerHears(c, s, t, v, w) == Core(c, t, Tail(v), w) /\ SameSettings(s, t)

\* A frame of a stream finds it begun on the server's side.
LEMMA StreamKnown ==
    ASSUME NEW srv \in BOOLEAN, srv, NEW c, NEW s, NEW v, NEW w, Whole(c, s, v, w),
           SessionInv(srv, s), v # <<>>, NEW f, f = Head(v)
    PROVE  /\ f \in Members(v) /\ f \in Frames(FALSE) /\ f \in AllFrames
           /\ f.type \in {"RST_STREAM", "WINDOW_UPDATE"} /\ f.id # 0 =>
                f.id \in StreamIds /\ ~detect_idle_stream(s, f.id)
<1>1. /\ s \in SessionType(srv) /\ Typed(c, s, v, w) /\ HeardOK(s, v)
      /\ v \in Seq(AllFrames) /\ v \in Seq(Frames(FALSE))
  BY ServerFacts
<1>2. f \in Members(v) /\ f \in AllFrames
  <2>1. Head(v) \in Members(v) /\ Members(v) \subseteq AllFrames
    BY <1>1, MembersOf
  <2> QED
    BY <2>1
<1>3. f \in Frames(FALSE)
  BY <1>1, Taken, Zenon
<1>4. ASSUME f.type \in {"RST_STREAM", "WINDOW_UPDATE"}, f.id # 0
      PROVE  f.id \in StreamIds /\ ~detect_idle_stream(s, f.id)
  <2>1. f.id \in StreamIds
    BY <1>2, <1>4, FrameFields DEF Levels
  <2>2. f.id \in Nat
    BY <2>1, IdsFinite
  <2>3. is_my_stream_id(s, f.id) <=> ~Odd(f.id)
    BY <1>1, <2>2, Owners
  <2>4. s.last_sent_stream_id \in Nat /\ s.last_recv_stream_id \in Nat
    BY <1>1, TypedFields
  <2>5. CASE Odd(f.id)
    <3>1. Guarded(v, KnownRequests(s.last_recv_stream_id), Introduces)
      BY <1>1 DEF HeardOK
    <3>2. f \in KnownRequests(s.last_recv_stream_id)
      BY <1>1, <3>1, HeadOf
    <3>3. f.id <= s.last_recv_stream_id
      BY <1>4, <2>5, <3>2 DEF KnownRequests
    <3>4. ~(f.id > s.last_recv_stream_id)
      BY <2>2, <2>4, <3>3
    <3> QED
      BY <2>1, <2>3, <2>5, <3>4 DEF detect_idle_stream
  <2>6. CASE ~Odd(f.id)
    <3>1. f.id <= s.last_sent_stream_id
      BY <1>1, <1>2, <1>4, <2>6 DEF HeardOK
    <3>2. ~(f.id > s.last_sent_stream_id)
      BY <2>2, <2>4, <3>1
    <3> QED
      BY <2>1, <2>3, <2>6, <3>2 DEF detect_idle_stream
  <2> QED
    BY <2>5, <2>6
<1> QED
  BY <1>2, <1>3, <1>4

\* What is left once the frame is dealt with.
LEMMA ServerDone ==
    ASSUME NEW c, NEW s, NEW v, NEW w, Typed(c, s, v, w), Core(c, s, v, w), v # <<>>,
           NEW t, NEW E, E = {}, Mild(s, t, E, E), Dry(s, t), Typed(c, t, v, w),
           Head(v).type # "HEADERS", Head(v).type = "RST_STREAM" => ~Active(t, Head(v).id)
    PROVE  Core(c, t, Tail(v), w)
<1>1. \A k \in E : Begun(s, k)
  OBVIOUS
<1>2. \A k \in StreamIds : k \in E => Begun(s, k) /\ (DataAllowed(c, k) \/ Has(w, "HEADERS", k))
  OBVIOUS
<1> HIDE DEF Core, Mild, Dry, Typed
<1>3. Core(c, t, v, w)
  BY <1>1, <1>2, ServerMild
<1> QED
  BY <1>3, ServerTakes

LEMMA ServerGetsRequest ==
    ASSUME NEW srv \in BOOLEAN, srv, NEW c, NEW s, NEW v, NEW w, Whole(c, s, v, w),
           SessionInv(srv, s), v # <<>>, NEW f, f = Head(v), f.type = "HEADERS",
           NEW t, t = process_headers_frame(s, f)
    PROVE  ServerHears(c, s, t, v, w)
<1>1. /\ s \in SessionType(srv) /\ Typed(c, s, v, w) /\ Core(c, s, v, w)
      /\ HeardOK(s, v) /\ RoomOK(s, v) /\ ServerOK(s, w) /\ Settle(c, s, v, w)
      /\ v \in Seq(AllFrames)
  BY ServerFacts
<1>2. f \in Members(v) /\ f \in Frames(FALSE)
  BY StreamKnown
<1>3. f \in Requests
  <2>1. PICK b \in BOOLEAN : b = FALSE
    OBVIOUS
  <2>2. f \in Frames(b)
    BY <1>2, <2>1
  <2> QED
    BY <2>1, <2>2, FrameKinds
<1>4. f.id \in StreamIds /\ ~Mine(srv, f.id)
  BY <1>3, IdsFinite DEF Requests, Mine
<1>5. s.last_recv_stream_id < f.id
  BY <1>1, <1>2 DEF HeardOK
<1>6. 1 \in 1 .. Len(v) /\ v[1].type = "HEADERS"
  BY <1>1, Rest
<1>7. ~incoming_max(s)
  <2>1. s.local_max \in {Unlimited, ServerMax}
    BY <1>1 DEF Settle, ServerSettings
  <2> QED
    BY <1>1, <1>6, <2>1, RoomThere
<1>8. allow_incoming_new_stream(s)
  BY <1>1 DEF ServerOK, allow_incoming_new_stream
<1> DEFINE u == process_headers_frame(s, f)
<1>9. RequestSeen(s, u, f.id) /\ SameSettings(s, u)
  BY <1>4, <1>5, <1>7, <1>8, RequestRead
<1>10. u = t
  OBVIOUS
<1> HIDE DEF u
<1>11. RequestSeen(s, t, Head(v).id) /\ SameSettings(s, t) /\ Head(v).type = "HEADERS"
  BY <1>9, <1>10
<1>12. Core(c, t, Tail(v), w)
  BY <1>1, <1>11, RequestIn
<1> QED
  BY <1>11, <1>12 DEF ServerHears

LEMMA ServerGetsReset ==
    ASSUME NEW srv \in BOOLEAN, srv, NEW c, NEW s, NEW v, NEW w, Whole(c, s, v, w),
           SessionInv(srv, s), v # <<>>, NEW f, f = Head(v), f.type = "RST_STREAM",
           NEW t, t = on_rst_stream_received(s, f), Typed(c, t, v, w)
    PROVE  ServerHears(c, s, t, v, w)
<1>1. s \in SessionType(srv) /\ Typed(c, s, v, w) /\ Core(c, s, v, w)
  BY ServerFacts
<1>2. f \in AllFrames
  BY StreamKnown
<1>3. f.id \in StreamIds /\ f.id # 0
  BY <1>2, FrameFields, StreamLevels DEF StreamIds
<1>4. ~detect_idle_stream(s, f.id)
  BY <1>3, StreamKnown
<1>5. PICK E : E = {}
  OBVIOUS
<1>6. PICK X : X = {f.id}
  OBVIOUS
<1>7. t = close_streams(s, X) /\ t = close_stream(s, f.id)
  BY <1>4, <1>6 DEF on_rst_stream_received, close_stream
<1>8. Tame(s, t, E, E) /\ Dry(s, t)
  <2>1. Tame(s, close_streams(s, X), E, E) /\ Dry(s, close_streams(s, X))
    BY <1>1, CloseStreamsTame
  <2> QED
    BY <1>7, <2>1
<1>9. ~Active(t, f.id)
  <2>1. Sound(srv, s)
    BY DEF SessionInv
  <2>2. ~Active(close_stream(s, f.id), f.id)
    BY <1>3, <2>1, CloseStream, Zenon
  <2> QED
    BY <1>7, <2>2
<1>10. Mild(s, t, E, E) /\ SameSettings(s, t)
  BY <1>8 DEF Tame
<1>11. Head(v).type # "HEADERS" /\ ~Active(t, Head(v).id)
  BY <1>9
<1>12. Core(c, t, Tail(v), w)
  BY <1>1, <1>5, <1>8, <1>10, <1>11, ServerDone
<1> QED
  BY <1>10, <1>12 DEF ServerHears

LEMMA ServerGetsUpdate ==
    ASSUME NEW srv \in BOOLEAN, srv, NEW c, NEW s, NEW v, NEW w, Whole(c, s, v, w),
           SessionInv(srv, s), v # <<>>, NEW f, f = Head(v), f.type = "WINDOW_UPDATE",
           NEW t, t = on_window_update_received(s, f), Typed(c, t, v, w)
    PROVE  ServerHears(c, s, t, v, w)
<1>1. /\ s \in SessionType(srv) /\ Typed(c, s, v, w) /\ Core(c, s, v, w) /\ EvenReserved(s)
  BY ServerFacts
<1>2. f \in Frames(FALSE)
  BY StreamKnown
<1>3. f \in Updates
  <2>1. PICK b \in BOOLEAN : b = FALSE
    OBVIOUS
  <2>2. f \in Frames(b)
    BY <1>2, <2>1
  <2> QED
    BY <2>1, <2>2, FrameKinds
<1>4. f.id # 0 => /\ ~detect_idle_stream(s, f.id)
                  /\ ~(s.streams[f.id].state = "RESERVED" /\ ~is_my_stream_id(s, f.id))
  <2>1. SUFFICES ASSUME f.id # 0
                 PROVE  /\ ~detect_idle_stream(s, f.id)
                        /\ ~(s.streams[f.id].state = "RESERVED" /\ ~is_my_stream_id(s, f.id))
    OBVIOUS
  <2>2. f.id \in StreamIds /\ ~detect_idle_stream(s, f.id)
    BY <2>1, StreamKnown
  <2>3. s.streams[f.id].state = "RESERVED" => ~Odd(f.id)
    <3>1. f.id \in Nat
      BY <2>2, IdsFinite
    <3> QED
      BY <1>1, <2>2, <3>1 DEF EvenReserved, Odd
  <2>4. is_my_stream_id(s, f.id) <=> ~Odd(f.id)
    BY <1>1, <2>2, IdsFinite, Owners
  <2> QED
    BY <2>2, <2>3, <2>4
<1>5. PICK E : E = {}
  OBVIOUS
<1>6. Tame(s, t, E, E) /\ Dry(s, t)
  <2>1. /\ Tame(s, on_window_update_received(s, f), E, E)
        /\ Dry(s, on_window_update_received(s, f))
    BY <1>1, <1>3, <1>4, WindowUpdateReceivedTame
  <2> QED
    BY <2>1
<1>7. Mild(s, t, E, E) /\ SameSettings(s, t)
  BY <1>6 DEF Tame
<1>8. Head(v).type = "WINDOW_UPDATE"
  OBVIOUS
<1>9. Core(c, t, Tail(v), w)
  BY <1>1, <1>5, <1>6, <1>7, <1>8, ServerDone
<1> QED
  BY <1>7, <1>9 DEF ServerHears

LEMMA ServerGetsSettings ==
    ASSUME NEW srv \in BOOLEAN, srv, NEW c, NEW s, NEW v, NEW w, Whole(c, s, v, w),
           SessionInv(srv, s), v # <<>>, NEW f, f = Head(v), f.type = "SETTINGS",
           NEW t, t = on_settings_received(s, f), Typed(c, t, v, w), Typed(c, t, Tail(v), w)
    PROVE  Core(c, t, Tail(v), w) /\ Settle(c, t, Tail(v), w)
<1>1. /\ s \in SessionType(srv) /\ Typed(c, s, v, w) /\ Core(c, s, v, w) /\ Settle(c, s, v, w)
  BY ServerFacts
<1>2. f \in Frames(FALSE)
  BY StreamKnown
<1>3. f \in SettingsFrames
  <2>1. PICK b \in BOOLEAN : b = FALSE
    OBVIOUS
  <2>2. f \in Frames(b)
    BY <1>2, <2>1
  <2> QED
    BY <2>1, <2>2, FrameKinds
<1>4. PICK E : E = {}
  OBVIOUS
<1> DEFINE u == on_settings_received(s, f)
<1>5. /\ Mild(s, u, E, E) /\ Dry(s, u)
      /\ u.inflight_settings = s.inflight_settings /\ u.local_max = s.local_max
      /\ u.ob_urgent \in {s.ob_urgent, Append(s.ob_urgent, SettingsAck)}
  BY <1>1, <1>3, SettingsReceivedMild
<1>6. u = t
  OBVIOUS
<1> HIDE DEF u
<1>7. /\ Mild(s, t, E, E) /\ Dry(s, t)
      /\ t.inflight_settings = s.inflight_settings /\ t.local_max = s.local_max
      /\ t.ob_urgent \in {s.ob_urgent, Append(s.ob_urgent, SettingsAck)}
  BY <1>5, <1>6
<1>8. Head(v).type = "SETTINGS"
  OBVIOUS
<1>9. Core(c, t, Tail(v), w)
  BY <1>1, <1>4, <1>7, <1>8, ServerDone
<1>10. Settle(c, t, Tail(v), w)
  BY <1>1, <1>7, <1>8, ServerSettingsRead
<1> QED
  BY <1>9, <1>10

LEMMA ServerGetsAck ==
    ASSUME NEW srv \in BOOLEAN, srv, NEW c, NEW s, NEW v, NEW w, Whole(c, s, v, w),
           SessionInv(srv, s), v # <<>>, NEW f, f = Head(v), f.type = "ACK",
           NEW t, t = on_settings_ack_received(s), Typed(c, t, v, w), Typed(c, t, Tail(v), w)
    PROVE  Core(c, t, Tail(v), w) /\ Settle(c, t, Tail(v), w)
<1>1. /\ s \in SessionType(srv) /\ Typed(c, s, v, w) /\ Core(c, s, v, w) /\ Settle(c, s, v, w)
  BY ServerFacts
<1>2. Head(v).type = "ACK"
  OBVIOUS
<1>3. /\ s.inflight_settings # <<>> /\ Head(s.inflight_settings).window = Unchanged
      /\ Head(s.inflight_settings).max = ServerMax /\ ServerMax # Unchanged
  BY <1>1, <1>2, ServerAckExpected
<1>4. PICK E : E = {}
  OBVIOUS
<1> DEFINE u == on_settings_ack_received(s)
<1>5. /\ Mild(s, u, E, E) /\ Dry(s, u)
      /\ u.ob_urgent = s.ob_urgent /\ u.inflight_settings = Tail(s.inflight_settings)
      /\ u.local_max = ServerMax
  <2>1. /\ Mild(s, u, E, E)
        /\ Head(s.inflight_settings).window = Unchanged => Dry(s, u)
        /\ u.ob_urgent = s.ob_urgent /\ u.inflight_settings = Tail(s.inflight_settings)
        /\ u.local_max = IF Head(s.inflight_settings).max = Unchanged THEN s.local_max
                         ELSE Head(s.inflight_settings).max
    BY <1>1, <1>3, SettingsAckedMild
  <2> HIDE DEF u
  <2> QED
    BY <1>3, <2>1
<1>6. u = t
  OBVIOUS
<1> HIDE DEF u
<1>7. /\ Mild(s, t, E, E) /\ Dry(s, t)
      /\ t.ob_urgent = s.ob_urgent /\ t.inflight_settings = Tail(s.inflight_settings)
      /\ t.local_max = ServerMax
  BY <1>5, <1>6
<1>8. Core(c, t, Tail(v), w)
  BY <1>1, <1>2, <1>4, <1>7, ServerDone
<1>9. Settle(c, t, Tail(v), w)
  BY <1>1, <1>2, <1>7, ServerAckRead
<1> QED
  BY <1>8, <1>9

\* The client ends the session; the server only closes streams.
LEMMA ServerGetsGoaway ==
    ASSUME NEW srv \in BOOLEAN, srv, NEW c, NEW s, NEW v, NEW w, Whole(c, s, v, w),
           SessionInv(srv, s), v # <<>>, NEW f, f = Head(v), f.type = "GOAWAY",
           NEW t, t = on_goaway_received(s, f), Typed(c, t, v, w)
    PROVE  ServerHears(c, s, t, v, w)
<1>1. /\ s \in SessionType(srv) /\ Typed(c, s, v, w) /\ Core(c, s, v, w)
      /\ HeardOK(s, v) /\ RoomOK(s, v) /\ ServerOK(s, w) /\ srv = TRUE
      /\ c.goaway_flags = {} => Polite(c, s, v, w)
  BY ServerFacts
<1>2. f \in Members(v) /\ f \in AllFrames
  BY StreamKnown
<1>3. c.goaway_flags # {}
  BY <1>1, <1>2 DEF Polite, Underway
<1>4. LastOK(f.last) /\ f.last \in Nat
  BY <1>1, <1>2, FrameFields DEF HeardOK
<1>5. ~(f.last > 0 /\ f.last < Unlimited /\ ~is_my_stream_id(s, f.last))
  <2>1. is_my_stream_id(s, f.last) <=> ~Odd(f.last)
    BY <1>1, <1>4, Owners
  <2>2. f.last = Unlimited => ~(f.last < Unlimited)
    BY <1>4
  <2> QED
    BY <1>4, <2>1, <2>2 DEF LastOK
<1> DEFINE g == s.goaway_flags \cup {"RECV"}
           u == [s EXCEPT !.goaway_flags = g, !.remote_last_stream_id = f.last]
<1>6. PartingOK(c, s, v) /\ f \in Goodbyes(c, v)
  BY <1>1, <1>2, <1>3 DEF Core, Goodbyes
<1>7. ~(s.remote_last_stream_id < f.last)
  <2>1. s.remote_last_stream_id \in Nat /\ f.last <= s.remote_last_stream_id
    BY <1>1, <1>6, FieldTypes DEF PartingOK
  <2> QED
    BY <1>4, <2>1
<1>8. PICK X : X = {k \in StreamIds : k > f.last /\ is_my_stream_id(u, k) = ~FALSE}
  OBVIOUS
<1>9. t = close_streams(u, X)
  BY <1>5, <1>7, <1>8 DEF on_goaway_received, close_stream_on_goaway
<1>10. /\ u.goaway_flags = g
       /\ u.last_recv_stream_id = s.last_recv_stream_id
       /\ u.last_sent_stream_id = s.last_sent_stream_id
       /\ u.remote_last_stream_id = f.last
       /\ u.ob_reg = s.ob_reg /\ u.streams = s.streams
       /\ u.recv_window_size = s.recv_window_size /\ SameSettings(s, u)
  BY <1>1 DEF SessionType, SameSettings
<1>11. u \in SessionType(srv)
  <2>1. g \in SUBSET {"TERM_ON_SEND", "TERM_SENT", "SENT", "RECV"}
    BY <1>1, FieldTypes
  <2> HIDE DEF g
  <2> QED
    BY <1>1, <1>4, <2>1 DEF SessionType
<1>12. g \subseteq {"RECV"}
  BY <1>1 DEF ServerOK
<1> HIDE DEF u, g
<1>13. \A k : Active(u, k) <=> Active(s, k)
  BY <1>10 DEF Active
<1>14. Core(c, u, v, w)
  <2>1. ServerOK(u, w)
    BY <1>1, <1>10, <1>12, <1>13 DEF ServerOK, NoRecv
  <2>2. HeardOK(u, v)
    BY <1>1, <1>10 DEF HeardOK
  <2>3. RoomOK(u, v)
    BY <1>1, <1>13, RoomShrinks
  <2>4. PartingOK(c, u, v)
    BY <1>4, <1>6, <1>10 DEF PartingOK
  <2> QED
    BY <1>1, <1>3, <2>1, <2>2, <2>3, <2>4 DEF Core
<1>15. Typed(c, u, v, w)
  BY <1>1, <1>11 DEF Typed
<1>16. PICK E : E = {}
  OBVIOUS
<1>17. Tame(u, t, E, E) /\ Dry(u, t)
  <2>1. Tame(u, close_streams(u, X), E, E) /\ Dry(u, close_streams(u, X))
    BY <1>11, CloseStreamsTame
  <2> QED
    BY <1>9, <2>1
<1>18. Mild(u, t, E, E) /\ SameSettings(u, t)
  BY <1>17 DEF Tame
<1>19. Head(v).type = "GOAWAY"
  OBVIOUS
<1>20. Core(c, t, Tail(v), w)
  BY <1>14, <1>15, <1>16, <1>17, <1>18, <1>19, ServerDone
<1>21. SameSettings(s, t)
  BY <1>10, <1>18 DEF SameSettings
<1> QED
  BY <1>20, <1>21 DEF ServerHears

LEMMA ServerReceives ==
    ASSUME NEW srv \in BOOLEAN, srv, NEW c, NEW s, NEW v, NEW w, Whole(c, s, v, w),
           SessionInv(srv, s), v # <<>>, NEW f, f = Head(v),
           NEW t, t = receive(s, f), Typed(c, t, v, w)
    PROVE  Core(c, t, Tail(v), w) /\ Settle(c, t, Tail(v), w)
<1>1. /\ s \in SessionType(srv) /\ Typed(c, s, v, w) /\ Core(c, s, v, w) /\ Settle(c, s, v, w)
      /\ HeardOK(s, v) /\ v \in Seq(AllFrames) /\ v \in Seq(Frames(FALSE))
      /\ w \in Seq(AllFrames)
  BY ServerFacts
<1>2. f \in Members(v) /\ f \in Frames(FALSE) /\ f \in AllFrames
  BY StreamKnown
<1>3. f.type # "DATA"
  BY <1>1, <1>2 DEF HeardOK
<1>4. f.type # "PUSH_PROMISE"
  <2>1. PICK b \in BOOLEAN : b = FALSE
    OBVIOUS
  <2>2. f \in Frames(b)
    BY <1>2, <2>1
  <2> QED
    BY <2>1, <2>2, FrameKinds
<1>5. f.type \in {"HEADERS", "RST_STREAM", "WINDOW_UPDATE", "GOAWAY", "SETTINGS", "ACK"}
  BY <1>2, <1>3, <1>4, FrameFields
<1>6. Typed(c, t, Tail(v), w)
  <2>1. Tail(v) \in Seq(Frames(FALSE))
    BY <1>1, Taken, Zenon
  <2> QED
    BY <2>1 DEF Typed
<1>7. ASSUME ServerHears(c, s, t, v, w)
      PROVE  Core(c, t, Tail(v), w) /\ Settle(c, t, Tail(v), w)
  <2>1. Core(c, t, Tail(v), w) /\ SameSettings(s, t) /\ SameSettings(c, c)
    BY <1>7 DEF ServerHears, SameSettings
  <2>2. Fewer(v, Tail(v)) /\ Fewer(w, w)
    BY <1>1, FewerFrames
  <2> QED
    BY <1>1, <1>6, <2>1, <2>2, SettleOther
<1>8. CASE f.type = "HEADERS"
  <2>1. t = process_headers_frame(s, f)
    BY <1>8 DEF receive
  <2> QED
    BY <1>7, <1>8, <2>1, ServerGetsRequest
<1>9. CASE f.type = "RST_STREAM"
  <2>1. t = on_rst_stream_received(s, f)
    BY <1>9 DEF receive
  <2> QED
    BY <1>7, <1>9, <2>1, ServerGetsReset
<1>10. CASE f.type = "WINDOW_UPDATE"
  <2>1. t = on_window_update_received(s, f)
    BY <1>10 DEF receive
  <2> QED
    BY <1>7, <1>10, <2>1, ServerGetsUpdate
<1>11. CASE f.type = "GOAWAY"
  <2>1. t = on_goaway_received(s, f)
    BY <1>11 DEF receive
  <2> QED
    BY <1>7, <1>11, <2>1, ServerGetsGoaway
<1>12. CASE f.type = "SETTINGS"
  <2>1. t = on_settings_received(s, f)
    BY <1>12 DEF receive
  <2> QED
    BY <1>6, <1>12, <2>1, ServerGetsSettings
<1>13. CASE f.type = "ACK"
  <2>1. t = on_settings_ack_received(s)
    BY <1>13 DEF receive
  <2> QED
    BY <1>6, <1>13, <2>1, ServerGetsAck
<1> QED
  BY <1>5, <1>8, <1>9, <1>10, <1>11, <1>12, <1>13
-----------------------------------------------------------------------------
(***************************************************************************)
(* The steps of the connection.                                            *)
(***************************************************************************)
\* What a step leaves: both sides still agree, and no session is ended.
Agreed(c, s, v, w) == Core(c, s, v, w) /\ Settle(c, s, v, w)
Fine(c, d, t, v2, w2) == Agreed(d, t, v2, w2) /\ (c.goaway_flags = {} => d.goaway_flags = {})

\* Nothing about settings has changed on a side that did not move.
LEMMA SameSelf == \A s : SameSettings(s, s)
BY DEF SameSettings

LEMMA ClientStill ==
    ASSUME NEW c, NEW s, NEW v, NEW w, NEW d, Typed(c, s, v, w), Typed(d, s, v, w),
           Settle(c, s, v, w), Later(c, d), ClientGoes(c, d, s, v, w)
    PROVE  Fine(c, d, s, v, w)
<1>1. Core(d, s, v, w) /\ (c.goaway_flags = {} => d.goaway_flags = {} /\ SameSettings(c, d))
  BY DEF ClientGoes
<1>2. d.goaway_flags = {} => c.goaway_flags = {}
  BY DEF Later
<1>3. Fewer(v, v) /\ Fewer(w, w)
  BY TypedFields, FewerFrames
<1>4. Settle(d, s, v, w)
  BY <1>1, <1>2, <1>3, SameSelf, SettleOther
<1> QED
  BY <1>1, <1>4 DEF Fine, Agreed

\* A frame of a queue of the client is sent, or dropped; if it is sent the
\* server may be gone, but only when the client is ending the session.
LEMMA ClientGone ==
    ASSUME NEW c, NEW s, NEW v, NEW w, NEW d, NEW v2, NEW f, NEW may,
           Typed(c, s, v, w), Typed(d, s, v2, w), f \in AllFrames, Core(c, s, v, w),
           Settle(c, s, v, w), Later(c, d), ClientSends(c, d, s, v, w, f, may),
           ~may => v2 = v,
           may => v2 = Append(v, f) \/ (v2 = v /\ c.goaway_flags # {})
    PROVE  Fine(c, d, s, v2, w)
<1>1. /\ may => Core(d, s, Append(v, f), w)
      /\ ~may => Core(d, s, v, w)
      /\ f.type \notin {"SETTINGS", "ACK"}
      /\ c.goaway_flags = {} => d.goaway_flags = {} /\ SameSettings(c, d)
  BY DEF ClientSends
<1>2. d.goaway_flags = {} => c.goaway_flags = {}
  BY DEF Later
<1>3. Fewer(v, v) /\ Fewer(w, w) /\ Fewer(v, Append(v, f))
  BY <1>1, TypedFields, FewerFrames
<1>4. Fewer(v, v2)
  BY <1>3
<1>5. Settle(d, s, v2, w)
  BY <1>1, <1>2, <1>3, <1>4, SameSelf, SettleOther
<1>6. Core(d, s, v2, w)
  <2>1. CASE may /\ v2 = v /\ c.goaway_flags # {}
    <3>1. v \in Seq(AllFrames)
      BY TypedFields
    <3>2. Members(v) \subseteq Members(Append(v, f))
      BY <3>1, Sent
    <3> QED
      BY <1>1, <1>2, <2>1, <3>2, UnsentClient
  <2> QED
    BY <1>1, <2>1
<1> QED
  BY <1>1, <1>5, <1>6 DEF Fine, Agreed

LEMMA ServerStill ==
    ASSUME NEW c, NEW s, NEW v, NEW w, NEW t, Typed(c, s, v, w), Typed(c, t, v, w),
           Settle(c, s, v, w), ServerGoes(c, s, t, v, w)
    PROVE  Fine(c, c, t, v, w)
<1>1. Core(c, t, v, w) /\ SameSettings(s, t)
  BY DEF ServerGoes
<1>2. Fewer(v, v) /\ Fewer(w, w)
  BY TypedFields, FewerFrames
<1>3. Settle(c, t, v, w)
  BY <1>1, <1>2, SameSelf, SettleOther
<1> QED
  BY <1>1, <1>3 DEF Fine, Agreed

LEMMA ServerGone ==
    ASSUME NEW c, NEW s, NEW v, NEW w, NEW t, NEW w2, NEW f, NEW may,
           Typed(c, s, v, w), Typed(c, t, v, w2), f \in AllFrames, Core(c, s, v, w),
           Settle(c, s, v, w), ServerSends(c, s, t, v, w, f, may),
           ~may => w2 = w,
           may => w2 = Append(w, f) \/ (w2 = w /\ c.goaway_flags # {})
    PROVE  Fine(c, c, t, v, w2)
<1>1. /\ may => Core(c, t, v, Append(w, f))
      /\ ~may => Core(c, t, v, w)
      /\ f.type \notin {"SETTINGS", "ACK"}
      /\ SameSettings(s, t)
  BY DEF ServerSends
<1>2. Fewer(v, v) /\ Fewer(w, w) /\ Fewer(w, Append(w, f))
  BY <1>1, TypedFields, FewerFrames
<1>3. Fewer(w, w2)
  BY <1>2
<1>4. Settle(c, t, v, w2)
  BY <1>1, <1>2, <1>3, SameSelf, SettleOther
<1>5. Core(c, t, v, w2)
  <2>1. CASE may /\ w2 = w /\ c.goaway_flags # {}
    BY <1>1, <2>1, UnsentServer
  <2> QED
    BY <1>1, <2>1
<1> QED
  BY <1>1, <1>4, <1>5 DEF Fine, Agreed

\* What was under way to an end that is gone is lost.
LEMMA WiresLost ==
    ASSUME NEW c, NEW s, NEW v, NEW w, Typed(c, s, v, w), Agreed(c, s, v, w), c.goaway_flags # {},
           NEW v2, v2 \in {v, <<>>}, NEW w2, w2 \in {w, <<>>}
    PROVE  Agreed(c, s, v2, w2)
<1>1. Members(<<>>) = {}
  BY DEF Members
<1>2. /\ ServerOK(s, w) /\ GoawaysOK(c) /\ HeardOK(s, v) /\ RoomOK(s, v)
      /\ Settle(c, s, v, w) /\ PartingOK(c, s, v)
  BY DEF Agreed, Core
<1>3. ServerOK(s, w2)
  BY <1>1, <1>2 DEF ServerOK
<1>4. HeardOK(s, <<>>) /\ RoomOK(s, <<>>)
  BY <1>1 DEF HeardOK, RoomOK, Guarded, Apart
<1>5. Units(v2, Tally("ACK")) <= Units(v, Tally("ACK"))
  <2>1. Fewer(v, v) /\ Fewer(v, <<>>)
    BY TypedFields, FewerFrames
  <2> QED
    BY <2>1 DEF Fewer
<1>6. Settle(c, s, v2, w2)
  <2>1. /\ Units(v, Tally("ACK")) \in Nat /\ Units(v2, Tally("ACK")) \in Nat
        /\ Len(s.inflight_settings) \in Nat
    <3>1. Typed(c, s, v2, w)
      <4>1. \A T : <<>> \in Seq(T)
        OBVIOUS
      <4>2. <<>> \in Seq(Frames(FALSE))
        BY <4>1, Zenon
      <4>3. v2 = v \/ v2 = <<>>
        OBVIOUS
      <4> QED
        BY <4>2, <4>3, Zenon DEF Typed
    <3> QED
      BY <3>1, SettleNumbers
  <2>2. Units(v, Tally("ACK")) <= Len(s.inflight_settings) /\ ServerSettings(s)
    BY <1>2 DEF Settle
  <2>3. Units(v2, Tally("ACK")) <= Len(s.inflight_settings)
    BY <1>5, <2>1, <2>2
  <2> QED
    BY <2>2, <2>3 DEF Settle
<1>7. PartingOK(c, s, v2)
  <2>1. Goodbyes(c, v2) \subseteq Goodbyes(c, v)
    BY <1>1 DEF Goodbyes
  <2> QED
    BY <1>2, <2>1, PartingFewer
<1> QED
  BY <1>2, <1>3, <1>4, <1>6, <1>7 DEF Agreed, Core

\* The inductive invariant.  Until its settings timer expires the client goes
\* on, and then both ends are there.
ErrorsInv ==
    /\ WindowsInv
    /\ client.goaway_flags # {} =>
         "TERM_ON_SEND" \in client.goaway_flags /\ Timeouts /\ ~settings_timer
    /\ client.goaway_flags = {} => Running
    /\ Agreed(client, server, wire["client"], wire["server"])

\* The client has at most as many requests open as the server admits, and the
\* server at most as many pushes as the least limit the client announces.
LimitsKept == client.num_outgoing_streams <= ServerMax /\ PushesFit(client)

\* What a step has to leave.
Goes ==
    /\ Agreed(client', server', wire'["client"], wire'["server"])
    /\ client.goaway_flags = {} /\ (client').goaway_flags # {} =>
         "TERM_ON_SEND" \in (client').goaway_flags /\ Timeouts /\ ~settings_timer'
    /\ ~settings_timer => ~settings_timer'
    /\ client.goaway_flags = {} => Running'

LEMMA EndTypes ==
    /\ ConnectionInv =>
         /\ SessionInv(FALSE, client) /\ SessionInv(TRUE, server)
         /\ Typed(client, server, wire["client"], wire["server"])
    /\ ConnectionInv' =>
         /\ SessionInv(FALSE, client') /\ SessionInv(TRUE, server')
         /\ Typed(client', server', wire'["client"], wire'["server"])
<1>1. Srv("client") = FALSE /\ Srv("server") = TRUE
  BY DEF Srv
<1>2. ConnectionInv =>
        /\ SessionInv(Srv("client"), client) /\ SessionInv(Srv("server"), server)
        /\ wire["client"] \in Seq(Frames(Srv("client")))
        /\ wire["server"] \in Seq(Frames(Srv("server")))
  BY Sides DEF ConnectionInv, SessionsOK, WireOK, client, server
<1>3. ConnectionInv' =>
        /\ SessionInv(Srv("client"), client') /\ SessionInv(Srv("server"), server')
        /\ wire'["client"] \in Seq(Frames(Srv("client")))
        /\ wire'["server"] \in Seq(Frames(Srv("server")))
  BY Sides DEF ConnectionInv, SessionsOK, WireOK, client, server
<1>4. ConnectionInv =>
        /\ SessionInv(FALSE, client) /\ SessionInv(TRUE, server)
        /\ wire["client"] \in Seq(Frames(FALSE)) /\ wire["server"] \in Seq(Frames(TRUE))
  BY <1>1, <1>2, Zenon
<1>5. ConnectionInv' =>
        /\ SessionInv(FALSE, client') /\ SessionInv(TRUE, server')
        /\ wire'["client"] \in Seq(Frames(FALSE)) /\ wire'["server"] \in Seq(Frames(TRUE))
  BY <1>1, <1>3, Zenon
<1>6. \A b : \A s : SessionInv(b, s) => s \in SessionType(b)
  BY Zenon DEF SessionInv, Sound
<1>7. /\ \A s : SessionInv(FALSE, s) => s \in SessionType(FALSE)
      /\ \A s : SessionInv(TRUE, s) => s \in SessionType(TRUE)
  BY <1>6, Zenon
<1> QED
  BY <1>4, <1>5, <1>7, Zenon DEF Typed

\* What is known before a step.
LEMMA BeforeStep ==
    ASSUME ErrorsInv
    PROVE  /\ Whole(client, server, wire["client"], wire["server"])
           /\ Typed(client, server, wire["client"], wire["server"])
           /\ Agreed(client, server, wire["client"], wire["server"])
           /\ Core(client, server, wire["client"], wire["server"])
           /\ Settle(client, server, wire["client"], wire["server"])
           /\ SessionInv(Srv("client"), client) /\ SessionInv(Srv("server"), server)
           /\ ConnectionInv /\ DOMAIN wire = Ends
           /\ session["client"] = client /\ session["server"] = server
           /\ client.goaway_flags = {} => Running
<1> DEFINE c == client
           s == server
           v == wire["client"]
           w == wire["server"]
<1>1. ConnectionInv /\ WindowsInv /\ IdsOK(c, s, v, w) /\ Agreed(c, s, v, w)
  BY DEF ErrorsInv, WindowsInv
<1>2. Core(c, s, v, w) /\ Settle(c, s, v, w)
  BY <1>1 DEF Agreed
<1>3. SessionInv(FALSE, c) /\ SessionInv(TRUE, s) /\ Typed(c, s, v, w)
  BY <1>1, EndTypes
<1>4. Paired(c, s, v, w)
  BY <1>1, <1>3, Zenon DEF Paired
<1>5. c.goaway_flags # {} => "TERM_ON_SEND" \in c.goaway_flags
  BY DEF ErrorsInv
<1>6. c.goaway_flags = {} => Running
  BY DEF ErrorsInv
<1>7. c.goaway_flags = {} => Balance(c, s, v, w, 0) = 0
  <2>1. SUFFICES ASSUME c.goaway_flags = {}
                 PROVE  Balance(c, s, v, w, 0) = 0
    OBVIOUS
  <2>2. Open
    BY <1>6, <2>1, FlagsClear DEF Open
  <2>3. WindowsOK(c, s, v, w)
    BY <2>2 DEF ErrorsInv, WindowsInv
  <2> QED
    BY <2>3 DEF WindowsOK
<1>8. Whole(c, s, v, w)
  BY <1>2, <1>4, <1>5, <1>7 DEF Whole
<1>9. /\ SessionInv(Srv("client"), client) /\ SessionInv(Srv("server"), server)
      /\ DOMAIN wire = Ends /\ session["client"] = client /\ session["server"] = server
  BY <1>1, SideFacts DEF ConnectionInv, WireOK, client, server
<1> QED
  BY <1>1, <1>2, <1>3, <1>6, <1>8, <1>9

LEMMA StepGoes ==
    ASSUME ErrorsInv, WindowsInv', Onward, Goes
    PROVE  ErrorsInv'
<1>1. client.goaway_flags \subseteq (client').goaway_flags
  BY Sides DEF Onward, Later, client
<1>2. (client').goaway_flags # {} =>
        "TERM_ON_SEND" \in (client').goaway_flags /\ Timeouts /\ ~settings_timer'
  BY <1>1 DEF ErrorsInv, Goes
<1>3. (client').goaway_flags = {} => Running'
  BY <1>1 DEF Goes
<1> QED
  BY <1>2, <1>3 DEF ErrorsInv, Goes

LEMMA FineGoes ==
    ASSUME ErrorsInv, UNCHANGED alive, ~settings_timer => ~settings_timer',
           Fine(client, client', server', wire'["client"], wire'["server"])
    PROVE  Goes
<1>1. client.goaway_flags = {} => Running'
  BY BeforeStep DEF Running
<1> QED
  BY <1>1 DEF Fine, Goes

\* One end moves and sends nothing, or one frame.
LEMMA ClientQuietly ==
    ASSUME ErrorsInv, ConnectionInv', Onward, NEW d, Becomes("client", d),
           UNCHANGED <<wire, alive>>, ~settings_timer => ~settings_timer'
    PROVE  /\ client' = d /\ server' = server
           /\ Later(client, d) /\ Typed(d, server, wire["client"], wire["server"])
           /\ d \in SessionType(FALSE)
           /\ Fine(client, d, server, wire["client"], wire["server"]) => Goes
<1>1. client' = d /\ server' = server
  BY BeforeStep, OneEnd, Sides
<1>2. Typed(client', server', wire'["client"], wire'["server"])
  BY EndTypes
<1>3. Later(client, client')
  BY Sides DEF Onward, client
<1>4. wire' = wire
  OBVIOUS
<1>5. d \in SessionType(FALSE)
  BY <1>1, <1>2, Zenon DEF Typed
<1> QED
  BY <1>1, <1>2, <1>3, <1>4, <1>5, FineGoes

LEMMA ServerQuietly ==
    ASSUME ErrorsInv, ConnectionInv', Onward, NEW t, Becomes("server", t),
           UNCHANGED <<wire, alive>>, ~settings_timer => ~settings_timer'
    PROVE  /\ server' = t /\ client' = client
           /\ Typed(client, t, wire["client"], wire["server"])
           /\ Fine(client, client, t, wire["client"], wire["server"]) => Goes
<1>1. server' = t /\ client' = client
  BY BeforeStep, OneEnd, Sides
<1>2. Typed(client', server', wire'["client"], wire'["server"])
  BY EndTypes
<1>3. wire' = wire
  OBVIOUS
<1> QED
  BY <1>1, <1>2, <1>3, FineGoes

LEMMA ClientAppGoes ==
    ASSUME ErrorsInv, ConnectionInv', Onward, ClientApp
    PROVE  Goes
<1> DEFINE c == client
           s == server
           v == wire["client"]
           w == wire["server"]
<1>1. Whole(c, s, v, w) /\ Typed(c, s, v, w) /\ Settle(c, s, v, w)
  BY BeforeStep
<1>2. \A d : /\ ClientGoes(c, d, s, v, w) /\ Becomes("client", d) /\ UNCHANGED <<wire, alive>>
             /\ (~settings_timer => ~settings_timer')
             => Goes
  BY <1>1, ClientQuietly, ClientStill
<1>3. CASE SendRequest
  <2> DEFINE d == submit_request(c)
  <2>1. Becomes("client", d) /\ UNCHANGED <<wire, alive, settings_timer>>
        /\ c.next_stream_id \in StreamIds
    BY <1>3 DEF SendRequest
  <2>2. d = submit_request(c)
    OBVIOUS
  <2> HIDE DEF d, c, s, v, w
  <2>3. Typed(d, s, v, w) /\ (Fine(c, d, s, v, w) => Goes)
    BY <2>1, ClientQuietly DEF c, s, v, w
  <2>4. Core(d, s, v, w) /\ Settle(d, s, v, w) /\ d.goaway_flags = c.goaway_flags
    BY <1>1, <2>1, <2>2, <2>3, ClientRequests
  <2> QED
    BY <2>3, <2>4 DEF Fine, Agreed
<1>4. ASSUME NEW id \in StreamIds, ResetStream(id) PROVE Goes
  <2> DEFINE d == add_rst_stream(c, id)
  <2>1. Becomes("client", d) /\ UNCHANGED <<wire, alive, settings_timer>>
        /\ id < c.next_stream_id /\ Odd(id)
    BY <1>4 DEF ResetStream, RequestIds, Odd
  <2>2. ClientGoes(c, d, s, v, w)
    BY <1>1, <2>1, ClientResets
  <2> HIDE DEF d
  <2> QED
    BY <1>2, <2>1, <2>2
<1>5. CASE TightenLimit
  <2> DEFINE f == Settings(1, Unchanged)
             d == submit_settings(c, f)
  <2>1. Becomes("client", d) /\ UNCHANGED <<wire, alive, settings_timer>>
    BY <1>5 DEF TightenLimit
  <2>2. f \in SettingsFrames /\ f.max \in Limits
    BY <1>5 DEF Settings, SettingsFrames, Unchanged, Limits, TightenLimit
  <2>3. d = submit_settings(c, f)
    OBVIOUS
  <2> HIDE DEF d, f, c, s, v, w
  <2>4. d \in SessionType(FALSE) /\ (Fine(c, d, s, v, w) => Goes)
    BY <2>1, ClientQuietly DEF c, s, v, w
  <2>5. Core(d, s, v, w) /\ Settle(d, s, v, w) /\ d.goaway_flags = c.goaway_flags
    BY <1>1, <2>2, <2>3, <2>4, ClientTightens
  <2> QED
    BY <2>4, <2>5 DEF Fine, Agreed
<1>6. CASE SettingsTimeout
  <2> DEFINE d == terminate_session(c)
  <2>1. Becomes("client", d) /\ UNCHANGED <<wire, alive>> /\ ~settings_timer' /\ Timeouts
        /\ wire' = wire
    BY <1>6 DEF SettingsTimeout
  <2>2. Core(d, s, v, w)
    BY <1>1, ClientTimesOut
  <2>3. "TERM_ON_SEND" \in d.goaway_flags
    <3>1. c \in SessionType(FALSE)
      BY <1>1, Zenon DEF Typed
    <3> QED
      BY <3>1 DEF terminate_session, SessionType
  <2>4. d = terminate_session(c)
    OBVIOUS
  <2> HIDE DEF d
  <2>5. client' = d /\ server' = s
    BY <2>1, ClientQuietly
  <2>6. Settle(d, s, v, w)
    BY <1>1, <2>3 DEF Settle
  <2>7. c.goaway_flags = {} => Running'
    BY <2>1, BeforeStep DEF Running
  <2> QED
    BY <2>1, <2>2, <2>3, <2>5, <2>6, <2>7 DEF Goes, Agreed
<1> QED
  BY <1>3, <1>4, <1>5, <1>6 DEF ClientApp

LEMMA ServerAppGoes ==
    ASSUME ErrorsInv, ConnectionInv', Onward, ServerApp
    PROVE  Goes
<1> DEFINE c == client
           s == server
           v == wire["client"]
           w == wire["server"]
<1>1. /\ Whole(c, s, v, w) /\ Typed(c, s, v, w) /\ Settle(c, s, v, w)
      /\ Srv("server") \in BOOLEAN /\ Srv("server") /\ SessionInv(Srv("server"), s)
  BY BeforeStep, Sides
<1>2. \A t : /\ ServerGoes(c, s, t, v, w) /\ Becomes("server", t)
             /\ UNCHANGED <<wire, alive, settings_timer>>
             => Goes
  BY <1>1, ServerQuietly, ServerStill
<1>3. PICK id \in StreamIds : Respond(id) \/ Push(id) \/ ReadFails(id)
  BY DEF ServerApp
<1>4. CASE Respond(id)
  <2>1. PICK n \in Sizes : Becomes("server", submit_response(s, id, n))
    BY <1>4 DEF Respond
  <2>2. n \in Nat
    BY LimitAssumption
  <2>3. /\ UNCHANGED <<wire, alive, settings_timer>>
        /\ \/ s.streams[id].state = "OPENING"
           \/ s.streams[id].state = "RESERVED" /\ id <= s.last_sent_stream_id
    BY <1>4 DEF Respond
  <2> HIDE DEF c, s, v, w
  <2>4. ServerGoes(c, s, submit_response(s, id, n), v, w)
    BY <1>1, <2>2, <2>3, ServerResponds
  <2> QED
    BY <1>2, <2>1, <2>3, <2>4
<1>5. CASE Push(id)
  <2>1. /\ UNCHANGED <<wire, alive, settings_timer>> /\ id \in RequestIds
        /\ s.streams[id].state = "OPENING" /\ s.next_stream_id \in StreamIds
        /\ Becomes("server", submit_push_promise(s, id))
    BY <1>5 DEF Push
  <2> HIDE DEF c, s, v, w
  <2>2. ServerGoes(c, s, submit_push_promise(s, id), v, w)
    BY <1>1, <2>1, ServerPromises
  <2> QED
    BY <1>2, <2>1, <2>2
<1>6. CASE ReadFails(id)
  <2>1. /\ UNCHANGED <<wire, alive, settings_timer>> /\ id \in DataQueued(s)
        /\ Becomes("server", add_rst_stream(detach_item(s, id), id))
    BY <1>6 DEF ReadFails
  <2> HIDE DEF c, s, v, w
  <2>2. ServerGoes(c, s, add_rst_stream(detach_item(s, id), id), v, w)
    BY <1>1, <2>1, ServerFails
  <2> QED
    BY <1>2, <2>1, <2>2
<1> QED
  BY <1>3, <1>4, <1>5, <1>6

\* One end sends a frame; if the other is gone the session is being ended.
LEMMA ClientPuts ==
    ASSUME ErrorsInv, ConnectionInv', Onward, UNCHANGED <<alive, settings_timer>>,
           NEW d, NEW f, Becomes("client", d), Put("client", f)
    PROVE  /\ client' = d /\ server' = server /\ wire'["server"] = wire["server"]
           /\ Later(client, d) /\ Typed(d, server, wire'["client"], wire["server"])
           /\ \/ wire'["client"] = Append(wire["client"], f)
              \/ wire'["client"] = wire["client"] /\ client.goaway_flags # {}
<1>1. client' = d /\ server' = server /\ Later(client, client')
  BY BeforeStep, OneEnd, Sides DEF Onward, client
<1>2. Typed(client', server', wire'["client"], wire'["server"])
  BY EndTypes
<1>3. /\ wire'["server"] = wire["server"]
      /\ \/ wire'["client"] = Append(wire["client"], f)
         \/ wire'["client"] = wire["client"] /\ ~alive["server"]
  BY BeforeStep DEF Put, Peer, Ends
<1>4. ~alive["server"] => client.goaway_flags # {}
  BY BeforeStep DEF Running
<1> QED
  BY <1>1, <1>2, <1>3, <1>4

LEMMA ServerPuts ==
    ASSUME ErrorsInv, ConnectionInv', Onward, UNCHANGED <<alive, settings_timer>>,
           NEW t, NEW f, Becomes("server", t), Put("server", f)
    PROVE  /\ server' = t /\ client' = client /\ wire'["client"] = wire["client"]
           /\ Typed(client, t, wire["client"], wire'["server"])
           /\ \/ wire'["server"] = Append(wire["server"], f)
              \/ wire'["server"] = wire["server"] /\ client.goaway_flags # {}
<1>1. server' = t /\ client' = client
  BY BeforeStep, OneEnd, Sides
<1>2. Typed(client', server', wire'["client"], wire'["server"])
  BY EndTypes
<1>3. /\ wire'["client"] = wire["client"]
      /\ \/ wire'["server"] = Append(wire["server"], f)
         \/ wire'["server"] = wire["server"] /\ ~alive["client"]
  BY BeforeStep DEF Put, Peer, Ends
<1>4. ~alive["client"] => client.goaway_flags # {}
  BY BeforeStep DEF Running
<1> QED
  BY <1>1, <1>2, <1>3, <1>4

LEMMA ClientSendsGoes ==
    ASSUME ErrorsInv, ConnectionInv', Onward, UNCHANGED alive, UNCHANGED settings_timer,
           NEW d, NEW f, f \in Frames(FALSE), NEW may, Becomes("client", d),
           may => Put("client", f), ~may => UNCHANGED wire,
           ClientSends(client, d, server, wire["client"], wire["server"], f, may)
    PROVE  Goes
<1> DEFINE c == client
           s == server
           v == wire["client"]
           w == wire["server"]
           v2 == wire'["client"]
<1>1. /\ Typed(c, s, v, w) /\ Core(c, s, v, w) /\ Settle(c, s, v, w)
      /\ ClientSends(c, d, s, v, w, f, may)
  BY BeforeStep
<1>2. f \in AllFrames
  <2>1. PICK b \in BOOLEAN : b = FALSE
    OBVIOUS
  <2>2. f \in Frames(b)
    BY <2>1, Zenon
  <2> QED
    BY <2>2, IsFrame
<1>3. /\ client' = d /\ server' = s /\ wire'["server"] = w
      /\ Later(c, d) /\ Typed(d, s, v2, w)
      /\ ~may => v2 = v
      /\ may => v2 = Append(v, f) \/ (v2 = v /\ c.goaway_flags # {})
  <2>1. CASE may
    BY <2>1, ClientPuts
  <2>2. CASE ~may
    BY <2>2, ClientQuietly
  <2> QED
    BY <2>1, <2>2
<1>4. Fine(c, d, s, v2, w) => Goes
  BY <1>3, FineGoes
<1> HIDE DEF c, s, v, w, v2
<1>5. Fine(c, d, s, v2, w)
  BY <1>1, <1>2, <1>3, ClientGone
<1> QED
  BY <1>4, <1>5

LEMMA ServerSendsGoes ==
    ASSUME ErrorsInv, ConnectionInv', Onward, UNCHANGED alive, UNCHANGED settings_timer,
           NEW t, NEW f, f \in Frames(TRUE), NEW may, Becomes("server", t),
           may => Put("server", f), ~may => UNCHANGED wire,
           ServerSends(client, server, t, wire["client"], wire["server"], f, may)
    PROVE  Goes
<1> DEFINE c == client
           s == server
           v == wire["client"]
           w == wire["server"]
           w2 == wire'["server"]
<1>1. /\ Typed(c, s, v, w) /\ Core(c, s, v, w) /\ Settle(c, s, v, w)
      /\ ServerSends(c, s, t, v, w, f, may)
  BY BeforeStep
<1>2. f \in AllFrames
  <2>1. PICK b \in BOOLEAN : b = TRUE
    OBVIOUS
  <2>2. f \in Frames(b)
    BY <2>1, Zenon
  <2> QED
    BY <2>2, IsFrame
<1>3. /\ server' = t /\ client' = c /\ wire'["client"] = v
      /\ Typed(c, t, v, w2)
      /\ ~may => w2 = w
      /\ may => w2 = Append(w, f) \/ (w2 = w /\ c.goaway_flags # {})
  <2>1. CASE may
    BY <2>1, ServerPuts
  <2>2. CASE ~may
    BY <2>2, ServerQuietly
  <2> QED
    BY <2>1, <2>2
<1>4. Fine(c, c, t, v, w2) => Goes
  BY <1>3, FineGoes
<1> HIDE DEF c, s, v, w, w2
<1>5. Fine(c, c, t, v, w2)
  BY <1>1, <1>2, <1>3, ServerGone
<1> QED
  BY <1>4, <1>5

LEMMA ClientQueuesGo ==
    ASSUME ErrorsInv, ConnectionInv', Onward, LimitsKept', SendRegular("client") \/ SendSyn("client")
    PROVE  Goes
<1> DEFINE c == client
           s == server
           v == wire["client"]
           w == wire["server"]
<1>1. /\ Whole(c, s, v, w) /\ Srv("client") \in BOOLEAN /\ ~Srv("client")
      /\ session["client"] = c
  BY BeforeStep, Sides
<1>2. ASSUME NEW f, NEW u,
             UNCHANGED <<alive, settings_timer>>,
             IF MaySend(u, f) THEN Becomes("client", after_frame_sent(u, f)) /\ Put("client", f)
                              ELSE Becomes("client", not_sent(u, f)) /\ UNCHANGED wire
      PROVE  \E d : /\ d = IF MaySend(u, f) THEN after_frame_sent(u, f) ELSE not_sent(u, f)
                    /\ client' = d /\ Later(c, d) /\ d.num_outgoing_streams <= ServerMax
                    /\ ClientSends(c, d, s, v, w, f, MaySend(u, f)) /\ f \in Frames(FALSE)
                       => Goes
  <2> DEFINE d == IF MaySend(u, f) THEN after_frame_sent(u, f) ELSE not_sent(u, f)
             may == MaySend(u, f)
  <2>2. /\ Becomes("client", d)
        /\ may => Put("client", f)
        /\ ~may => UNCHANGED wire
    <3>1. CASE MaySend(u, f)
      BY <1>2, <3>1
    <3>2. CASE ~MaySend(u, f)
      BY <1>2, <3>2
    <3> QED
      BY <3>1, <3>2
  <2> HIDE DEF may, d
  <2>3. client' = d /\ Later(c, d)
    <3>1. CASE may
      BY <1>2, <2>2, <3>1, ClientPuts
    <3>2. CASE ~may
      BY <1>2, <2>2, <3>2, ClientQuietly
    <3> QED
      BY <3>1, <3>2
  <2>4. d.num_outgoing_streams <= ServerMax
    BY <2>3 DEF LimitsKept
  <2>5. ClientSends(c, d, s, v, w, f, may) /\ f \in Frames(FALSE) => Goes
    <3>1. UNCHANGED alive /\ UNCHANGED settings_timer
      BY <1>2
    <3> SUFFICES ASSUME ClientSends(c, d, s, v, w, f, may), f \in Frames(FALSE)
                 PROVE  Goes
      OBVIOUS
    <3> QED
      BY <2>2, <3>1, ClientSendsGoes, Zenon
  <2> QED
    BY <2>3, <2>4, <2>5 DEF may, d
<1>3. CASE SendRegular("client")
  <2> DEFINE f == Head(c.ob_reg)
             t == [c EXCEPT !.ob_reg = Tail(c.ob_reg)]
             u == prepare(t, f)
  <2>1. /\ c.ob_reg # <<>> /\ UNCHANGED <<alive, settings_timer>>
        /\ IF MaySend(u, f) THEN Becomes("client", after_frame_sent(u, f)) /\ Put("client", f)
                            ELSE Becomes("client", not_sent(u, f)) /\ UNCHANGED wire
    BY <1>1, <1>3 DEF SendRegular, SendFrom
  <2>2. f = Head(c.ob_reg) /\ t = [c EXCEPT !.ob_reg = Tail(c.ob_reg)] /\ u = prepare(t, f)
    OBVIOUS
  <2> HIDE DEF f, t, u, c, s, v, w
  <2>3. PICK d : /\ d = IF MaySend(u, f) THEN after_frame_sent(u, f) ELSE not_sent(u, f)
                 /\ client' = d /\ Later(c, d) /\ d.num_outgoing_streams <= ServerMax
                 /\ ClientSends(c, d, s, v, w, f, MaySend(u, f)) /\ f \in Frames(FALSE)
                    => Goes
    BY <1>2, <2>1
  <2>4. ClientSends(c, d, s, v, w, f, MaySend(u, f)) /\ f \in Frames(FALSE)
    BY <1>1, <2>1, <2>2, <2>3, ClientRegular
  <2> QED
    BY <2>3, <2>4
<1>4. CASE SendSyn("client")
  <2> DEFINE f == Head(c.ob_syn)
             t == [c EXCEPT !.ob_syn = Tail(c.ob_syn)]
             u == prepare(t, f)
  <2>1. /\ c.ob_reg = <<>> /\ c.ob_syn # <<>> /\ UNCHANGED <<alive, settings_timer>>
        /\ IF MaySend(u, f) THEN Becomes("client", after_frame_sent(u, f)) /\ Put("client", f)
                            ELSE Becomes("client", not_sent(u, f)) /\ UNCHANGED wire
    BY <1>1, <1>4 DEF SendSyn, SendFrom
  <2>2. f = Head(c.ob_syn) /\ t = [c EXCEPT !.ob_syn = Tail(c.ob_syn)] /\ u = prepare(t, f)
    OBVIOUS
  <2> HIDE DEF f, t, u, c, s, v, w
  <2>3. PICK d : /\ d = IF MaySend(u, f) THEN after_frame_sent(u, f) ELSE not_sent(u, f)
                 /\ client' = d /\ Later(c, d) /\ d.num_outgoing_streams <= ServerMax
                 /\ ClientSends(c, d, s, v, w, f, MaySend(u, f)) /\ f \in Frames(FALSE)
                    => Goes
    BY <1>2, <2>1
  <2>4. ClientSends(c, d, s, v, w, f, MaySend(u, f)) /\ f \in Frames(FALSE)
    BY <1>1, <2>1, <2>2, <2>3, ClientReset
  <2> QED
    BY <2>3, <2>4
<1> QED
  BY <1>3, <1>4

LEMMA ServerQueuesGo ==
    ASSUME ErrorsInv, ConnectionInv', Onward, SendRegular("server") \/ SendSyn("server")
    PROVE  Goes
<1> DEFINE c == client
           s == server
           v == wire["client"]
           w == wire["server"]
<1>1. /\ Whole(c, s, v, w) /\ Srv("server") \in BOOLEAN /\ Srv("server")
      /\ SessionInv(Srv("server"), s) /\ session["server"] = s
  BY BeforeStep, Sides
<1>2. ASSUME NEW f, NEW u,
             UNCHANGED <<alive, settings_timer>>,
             IF MaySend(u, f) THEN Becomes("server", after_frame_sent(u, f)) /\ Put("server", f)
                              ELSE Becomes("server", not_sent(u, f)) /\ UNCHANGED wire
      PROVE  \E t : /\ t = IF MaySend(u, f) THEN after_frame_sent(u, f) ELSE not_sent(u, f)
                    /\ ServerSends(c, s, t, v, w, f, MaySend(u, f)) /\ f \in Frames(TRUE)
                       => Goes
  <2> DEFINE t == IF MaySend(u, f) THEN after_frame_sent(u, f) ELSE not_sent(u, f)
             may == MaySend(u, f)
  <2>1. /\ Becomes("server", t)
        /\ may => Put("server", f)
        /\ ~may => UNCHANGED wire
    <3>1. CASE MaySend(u, f)
      BY <1>2, <3>1
    <3>2. CASE ~MaySend(u, f)
      BY <1>2, <3>2
    <3> QED
      BY <3>1, <3>2
  <2> HIDE DEF may, t
  <2>2. ServerSends(c, s, t, v, w, f, may) /\ f \in Frames(TRUE) => Goes
    <3>1. UNCHANGED alive /\ UNCHANGED settings_timer
      BY <1>2
    <3> SUFFICES ASSUME ServerSends(c, s, t, v, w, f, may), f \in Frames(TRUE)
                 PROVE  Goes
      OBVIOUS
    <3> QED
      BY <2>1, <3>1, ServerSendsGoes, Zenon
  <2> QED
    BY <2>2 DEF may, t
<1>3. CASE SendRegular("server")
  <2> DEFINE f == Head(s.ob_reg)
             r == [s EXCEPT !.ob_reg = Tail(s.ob_reg)]
             u == prepare(r, f)
  <2>1. /\ s.ob_reg # <<>> /\ UNCHANGED <<alive, settings_timer>>
        /\ IF MaySend(u, f) THEN Becomes("server", after_frame_sent(u, f)) /\ Put("server", f)
                            ELSE Becomes("server", not_sent(u, f)) /\ UNCHANGED wire
    BY <1>1, <1>3 DEF SendRegular, SendFrom
  <2>2. f = Head(s.ob_reg) /\ r = [s EXCEPT !.ob_reg = Tail(s.ob_reg)] /\ u = prepare(r, f)
    OBVIOUS
  <2> HIDE DEF f, r, u, c, s, v, w
  <2>3. PICK t : /\ t = IF MaySend(u, f) THEN after_frame_sent(u, f) ELSE not_sent(u, f)
                 /\ ServerSends(c, s, t, v, w, f, MaySend(u, f)) /\ f \in Frames(TRUE)
                    => Goes
    BY <1>2, <2>1
  <2>4. ServerSends(c, s, t, v, w, f, MaySend(u, f)) /\ f \in Frames(TRUE)
    BY <1>1, <2>1, <2>2, <2>3, ServerRegular
  <2> QED
    BY <2>3, <2>4
<1>4. CASE SendSyn("server")
  <2> DEFINE f == Head(s.ob_syn)
             r == [s EXCEPT !.ob_syn = Tail(s.ob_syn)]
             u == prepare(r, f)
  <2>1. /\ s.ob_syn # <<>> /\ UNCHANGED <<alive, settings_timer>>
        /\ IF MaySend(u, f) THEN Becomes("server", after_frame_sent(u, f)) /\ Put("server", f)
                            ELSE Becomes("server", not_sent(u, f)) /\ UNCHANGED wire
    BY <1>1, <1>4 DEF SendSyn, SendFrom
  <2>2. f = Head(s.ob_syn) /\ r = [s EXCEPT !.ob_syn = Tail(s.ob_syn)] /\ u = prepare(r, f)
    OBVIOUS
  <2> HIDE DEF f, r, u, c, s, v, w
  <2>3. PICK t : /\ t = IF MaySend(u, f) THEN after_frame_sent(u, f) ELSE not_sent(u, f)
                 /\ ServerSends(c, s, t, v, w, f, MaySend(u, f)) /\ f \in Frames(TRUE)
                    => Goes
    BY <1>2, <2>1
  <2>4. ServerSends(c, s, t, v, w, f, MaySend(u, f)) /\ f \in Frames(TRUE)
    BY <1>1, <2>1, <2>2, <2>3, ServerReset
  <2> QED
    BY <2>3, <2>4
<1> QED
  BY <1>3, <1>4

LEMMA ClientUrgentGoes ==
    ASSUME ErrorsInv, ConnectionInv', Onward, SendUrgent("client")
    PROVE  Goes
<1> DEFINE c == client
           s == server
           v == wire["client"]
           w == wire["server"]
           f == Head(c.ob_urgent)
           t == [c EXCEPT !.ob_urgent = Tail(c.ob_urgent)]
           v2 == wire'["client"]
<1>1. Whole(c, s, v, w) /\ session["client"] = c
  BY BeforeStep
<1>2. /\ c.ob_urgent # <<>> /\ UNCHANGED <<alive, settings_timer>>
      /\ IF MaySend(prepare(t, f), f)
         THEN Becomes("client", after_frame_sent(prepare(t, f), f)) /\ Put("client", f)
         ELSE Becomes("client", not_sent(prepare(t, f), f)) /\ UNCHANGED wire
  BY <1>1 DEF SendUrgent, SendFrom
<1>3. f = Head(c.ob_urgent) /\ t = [c EXCEPT !.ob_urgent = Tail(c.ob_urgent)]
  OBVIOUS
<1> HIDE DEF f, t
<1>4. /\ UrgentGone(c, t, f)
      /\ Core(t, s, v, w) /\ Settle(t, s, v, w)
      /\ Core(t, s, Append(v, f), w)
      /\ MaySend(t, f) => Settle(t, s, Append(v, f), w)
  <2> HIDE DEF c, s, v, w
  <2> QED
    BY <1>1, <1>2, <1>3, ClientUrgent
<1>5. /\ prepare(t, f) = t /\ after_frame_sent(t, f) = t /\ not_sent(t, f) = t
      /\ t.goaway_flags = c.goaway_flags
  BY <1>4 DEF UrgentGone
<1>6. /\ Becomes("client", t)
      /\ MaySend(t, f) => Put("client", f)
      /\ ~MaySend(t, f) => UNCHANGED wire
  <2>1. CASE MaySend(t, f)
    BY <1>2, <1>5, <2>1
  <2>2. CASE ~MaySend(t, f)
    BY <1>2, <1>5, <2>2
  <2> QED
    BY <2>1, <2>2
<1>7. /\ client' = t /\ server' = s /\ wire'["server"] = w
      /\ v2 = v \/ (MaySend(t, f) /\ v2 = Append(v, f))
  <2>1. CASE MaySend(t, f)
    BY <1>2, <1>6, <2>1, ClientPuts
  <2>2. CASE ~MaySend(t, f)
    BY <1>2, <1>6, <2>2, ClientQuietly
  <2> QED
    BY <2>1, <2>2
<1>8. Fine(c, t, s, v2, w) => Goes
  BY <1>2, <1>7, FineGoes
<1>9. Agreed(t, s, v2, w)
  BY <1>4, <1>7 DEF Agreed
<1> QED
  BY <1>5, <1>8, <1>9 DEF Fine

LEMMA ServerUrgentGoes ==
    ASSUME ErrorsInv, ConnectionInv', Onward, SendUrgent("server")
    PROVE  Goes
<1> DEFINE c == client
           s == server
           v == wire["client"]
           w == wire["server"]
           f == Head(s.ob_urgent)
           t == [s EXCEPT !.ob_urgent = Tail(s.ob_urgent)]
           w2 == wire'["server"]
<1>1. /\ Whole(c, s, v, w) /\ session["server"] = s /\ Srv("server") \in BOOLEAN
      /\ Srv("server") /\ SessionInv(Srv("server"), s)
  BY BeforeStep, Sides
<1>2. /\ s.ob_urgent # <<>> /\ UNCHANGED <<alive, settings_timer>>
      /\ IF MaySend(prepare(t, f), f)
         THEN Becomes("server", after_frame_sent(prepare(t, f), f)) /\ Put("server", f)
         ELSE Becomes("server", not_sent(prepare(t, f), f)) /\ UNCHANGED wire
  BY <1>1 DEF SendUrgent, SendFrom
<1>3. f = Head(s.ob_urgent) /\ t = [s EXCEPT !.ob_urgent = Tail(s.ob_urgent)]
  OBVIOUS
<1> HIDE DEF f, t
<1>4. /\ UrgentGone(s, t, f)
      /\ Core(c, t, v, w) /\ Settle(c, t, v, w)
      /\ Core(c, t, v, Append(w, f)) /\ Settle(c, t, v, Append(w, f))
  <2> HIDE DEF c, s, v, w
  <2> QED
    BY <1>1, <1>2, <1>3, ServerUrgent
<1>5. prepare(t, f) = t /\ after_frame_sent(t, f) = t /\ not_sent(t, f) = t
  BY <1>4 DEF UrgentGone
<1>6. /\ Becomes("server", t)
      /\ MaySend(t, f) => Put("server", f)
      /\ ~MaySend(t, f) => UNCHANGED wire
  <2>1. CASE MaySend(t, f)
    BY <1>2, <1>5, <2>1
  <2>2. CASE ~MaySend(t, f)
    BY <1>2, <1>5, <2>2
  <2> QED
    BY <2>1, <2>2
<1>7. /\ client' = c /\ server' = t /\ wire'["client"] = v
      /\ w2 = w \/ w2 = Append(w, f)
  <2>1. CASE MaySend(t, f)
    BY <1>2, <1>6, <2>1, ServerPuts
  <2>2. CASE ~MaySend(t, f)
    BY <1>2, <1>6, <2>2, ServerQuietly
  <2> QED
    BY <2>1, <2>2
<1>8. Fine(c, c, t, v, w2) => Goes
  BY <1>2, <1>7, FineGoes
<1>9. Agreed(c, t, v, w2)
  BY <1>4, <1>7 DEF Agreed
<1> QED
  BY <1>8, <1>9 DEF Fine

LEMMA ClientDataGoes ==
    ASSUME ErrorsInv, ConnectionInv', Onward, NEW id \in StreamIds, SendData("client", id)
    PROVE  Goes
<1> DEFINE c == client
           s == server
           v == wire["client"]
           w == wire["server"]
           d == detach_item(c, id)
<1>1. /\ Whole(c, s, v, w) /\ session["client"] = c /\ Srv("client") \in BOOLEAN
      /\ ~Srv("client") /\ Core(c, s, v, w) /\ Settle(c, s, v, w)
  BY BeforeStep, Sides
<1>2. id \in DataQueued(c)
  BY <1>1 DEF SendData
<1>3. d = detach_item(c, id)
  OBVIOUS
<1>4. /\ ~predicate_data_send(c, id) /\ c.goaway_flags # {}
      /\ Later(c, d) => Core(d, s, v, w)
  <2> HIDE DEF c, s, v, w
  <2> QED
    BY <1>1, <1>2, ClientData
<1>5. Becomes("client", d) /\ UNCHANGED <<wire, alive, settings_timer>>
  BY <1>1, <1>4 DEF SendData
<1> HIDE DEF d
<1>6. Later(c, d) /\ (Fine(c, d, s, v, w) => Goes)
  BY <1>5, ClientQuietly
<1>7. d.goaway_flags # {}
  BY <1>4, <1>6 DEF Later
<1>8. Core(d, s, v, w) /\ Settle(d, s, v, w)
  <2> HIDE DEF c, s, v, w
  <2> QED
    BY <1>1, <1>4, <1>6, <1>7, UnsentClient
<1> QED
  BY <1>4, <1>6, <1>8 DEF Fine, Agreed

LEMMA ServerDataGoes ==
    ASSUME ErrorsInv, ConnectionInv', Onward, NEW id \in StreamIds, SendData("server", id)
    PROVE  Goes
<1> DEFINE c == client
           s == server
           v == wire["client"]
           w == wire["server"]
           f == NextData(s, id)
<1>1. /\ Whole(c, s, v, w) /\ Typed(c, s, v, w) /\ Settle(c, s, v, w)
      /\ session["server"] = s /\ Srv("server") \in BOOLEAN
      /\ Srv("server") /\ SessionInv(Srv("server"), s)
  BY BeforeStep, Sides
<1>2. /\ id \in DataQueued(s) /\ UNCHANGED <<alive, settings_timer>>
      /\ \/ Becomes("server", detach_item(s, id)) /\ UNCHANGED wire
         \/ Becomes("server", defer_item(s, id)) /\ UNCHANGED wire
         \/ ~(f.length <= 0) /\ Becomes("server", data_sent(s, f)) /\ Put("server", f)
  BY <1>1 DEF SendData
<1>3. f.length \in Int
  <2>1. s.streams[id].item \in Nat /\ s.streams[id].remote_window_size \in Int
        /\ s.remote_window_size \in Int
    BY <1>1, <1>2, FieldTypes, StreamTypes DEF SessionInv, Sound
  <2> QED
    BY <2>1, SizeAssumption DEF NextData, Data, Min2
<1>4. f = NextData(s, id)
  OBVIOUS
<1> HIDE DEF f
<1>5. /\ ServerGoes(c, s, detach_item(s, id), v, w)
      /\ ServerGoes(c, s, defer_item(s, id), v, w)
      /\ f.length > 0 =>
           /\ ServerGoes(c, s, data_sent(s, f), v, w)
           /\ Core(c, data_sent(s, f), v, Append(w, f))
           /\ f \in Frames(TRUE) /\ f.type = "DATA"
  <2> HIDE DEF c, s, v, w
  <2> QED
    BY <1>1, <1>2, <1>4, ServerData
<1>6. \A t : /\ ServerGoes(c, s, t, v, w) /\ Becomes("server", t) /\ UNCHANGED wire
             => Goes
  BY <1>1, <1>2, ServerQuietly, ServerStill
<1>7. CASE ~(f.length <= 0) /\ Becomes("server", data_sent(s, f)) /\ Put("server", f)
  <2>1. f.length > 0
    BY <1>3, <1>7
  <2> DEFINE t == data_sent(s, f)
  <2>2. /\ ServerGoes(c, s, t, v, w) /\ Core(c, t, v, Append(w, f))
        /\ f \in Frames(TRUE) /\ f.type = "DATA"
    BY <1>5, <2>1
  <2>3. Becomes("server", t)
    BY <1>7
  <2> HIDE DEF t
  <2>4. PICK may : may = TRUE
    OBVIOUS
  <2>5. ServerSends(c, s, t, v, w, f, may)
    BY <2>2 DEF ServerSends, ServerGoes
  <2>6. (may => Put("server", f)) /\ (~may => UNCHANGED wire)
    BY <1>7, <2>4
  <2>7. UNCHANGED alive /\ UNCHANGED settings_timer
    BY <1>2
  <2> QED
    BY <2>2, <2>3, <2>5, <2>6, <2>7, ServerSendsGoes, Zenon
<1> QED
  BY <1>2, <1>5, <1>6, <1>7

LEMMA ClientReceiveGoes ==
    ASSUME ErrorsInv, ConnectionInv', Onward, LimitsKept, Receive("client")
    PROVE  Goes
<1> DEFINE c == client
           s == server
           v == wire["client"]
           w == wire["server"]
           f == Head(w)
           d == receive(c, f)
<1>1. /\ Whole(c, s, v, w) /\ session["client"] = c /\ Srv("client") \in BOOLEAN
      /\ ~Srv("client") /\ SessionInv(Srv("client"), c) /\ Typed(c, s, v, w)
      /\ DOMAIN wire = Ends /\ ConnectionInv /\ PushesFit(c)
      /\ c.goaway_flags = {} => Running
  BY BeforeStep, Sides DEF LimitsKept
<1>2. /\ w # <<>> /\ Becomes("client", d) /\ UNCHANGED alive
      /\ wire' = [wire EXCEPT !["server"] = Tail(w)]
      /\ ~settings_timer => ~settings_timer'
  BY <1>1 DEF Receive, Peer
<1>3. f = Head(w) /\ d = receive(c, f)
  OBVIOUS
<1> HIDE DEF f, d
<1>4. client' = d /\ server' = s
  BY <1>1, <1>2, OneEnd, Sides
<1>5. wire'["client"] = v /\ wire'["server"] = Tail(w)
  BY <1>1, <1>2 DEF Ends
<1>6. Typed(d, s, v, w) /\ Later(c, d)
  <2>1. Typed(client', server', wire'["client"], wire'["server"])
    BY EndTypes
  <2>2. d \in SessionType(FALSE)
    BY <1>4, <2>1, Zenon DEF Typed
  <2>3. Later(c, d)
    BY <1>4, Sides DEF Onward, client
  <2> QED
    BY <1>1, <2>2, <2>3, Zenon DEF Typed
<1>7. /\ Core(d, s, v, Tail(w)) /\ Settle(d, s, v, Tail(w))
      /\ c.goaway_flags = {} => d.goaway_flags = {}
  <2> HIDE DEF c, s, v, w
  <2> QED
    BY <1>1, <1>2, <1>3, <1>6, ClientReceives
<1>8. Fine(c, d, s, v, Tail(w))
  BY <1>7 DEF Fine, Agreed
<1> QED
  BY <1>2, <1>4, <1>5, <1>8, FineGoes

LEMMA ServerReceiveGoes ==
    ASSUME ErrorsInv, ConnectionInv', Onward, Receive("server")
    PROVE  Goes
<1> DEFINE c == client
           s == server
           v == wire["client"]
           w == wire["server"]
           f == Head(v)
           t == receive(s, f)
<1>1. /\ Whole(c, s, v, w) /\ session["server"] = s /\ Srv("server") \in BOOLEAN
      /\ Srv("server") /\ SessionInv(Srv("server"), s) /\ Typed(c, s, v, w)
      /\ DOMAIN wire = Ends /\ ConnectionInv
  BY BeforeStep, Sides
<1>2. /\ v # <<>> /\ Becomes("server", t) /\ UNCHANGED alive
      /\ wire' = [wire EXCEPT !["client"] = Tail(v)]
      /\ ~settings_timer => ~settings_timer'
  BY <1>1 DEF Receive, Peer
<1>3. f = Head(v) /\ t = receive(s, f)
  OBVIOUS
<1> HIDE DEF f, t
<1>4. server' = t /\ client' = c
  BY <1>1, <1>2, OneEnd, Sides
<1>5. wire'["server"] = w /\ wire'["client"] = Tail(v)
  BY <1>1, <1>2 DEF Ends
<1>6. Typed(c, t, v, w)
  <2>1. Typed(client', server', wire'["client"], wire'["server"])
    BY EndTypes
  <2>2. t \in SessionType(TRUE)
    BY <1>4, <2>1, Zenon DEF Typed
  <2> QED
    BY <1>1, <2>2, Zenon DEF Typed
<1>7. Core(c, t, Tail(v), w) /\ Settle(c, t, Tail(v), w)
  <2> HIDE DEF c, s, v, w
  <2> QED
    BY <1>1, <1>2, <1>3, <1>6, ServerReceives
<1>8. Fine(c, c, t, Tail(v), w)
  BY <1>7 DEF Fine, Agreed
<1> QED
  BY <1>2, <1>4, <1>5, <1>8, FineGoes

\* An end gives up only a session that is being ended.
LEMMA EndsGo ==
    ASSUME ErrorsInv, NEW e \in Ends, Drop(e) \/ EndOfFile(e)
    PROVE  Goes
<1> DEFINE c == client
           s == server
           v == wire["client"]
           w == wire["server"]
           v2 == wire'["client"]
           w2 == wire'["server"]
<1>1. /\ Typed(c, s, v, w) /\ Agreed(c, s, v, w) /\ DOMAIN wire = Ends
      /\ session["client"] = c /\ session["server"] = s
      /\ c.goaway_flags = {} => Running
  BY BeforeStep
<1>2. /\ client' = c /\ server' = s /\ settings_timer' = settings_timer
      /\ alive[e]
      /\ wire' = [wire EXCEPT ![Peer(e)] = <<>>] \/ wire' = wire
      /\ ~want_read(session[e]) \/ ~alive[Peer(e)]
  BY DEF Drop, EndOfFile, client, server
<1>3. c.goaway_flags # {}
  <2> SUFFICES ASSUME c.goaway_flags = {} PROVE FALSE
    OBVIOUS
  <2>1. s.goaway_flags = {}
    BY <1>1 DEF Agreed, Core, Polite
  <2>2. session[e].goaway_flags = {}
    BY <1>1, <2>1 DEF Ends
  <2>3. want_read(session[e])
    BY <2>2 DEF want_read
  <2>4. alive[Peer(e)]
    BY <1>1 DEF Running, Peer, Ends
  <2> QED
    BY <1>2, <2>3, <2>4
<1>4. v2 \in {v, <<>>} /\ w2 \in {w, <<>>}
  BY <1>1, <1>2 DEF Peer, Ends
<1>5. Agreed(c, s, v2, w2)
  BY <1>1, <1>3, <1>4, WiresLost
<1> QED
  BY <1>2, <1>3, <1>5 DEF Goes

LEMMA ErrorsStep ==
    ASSUME ErrorsInv, LimitsKept, LimitsKept', [Next]_vars
    PROVE  ErrorsInv'
<1>1. WindowsInv' /\ ConnectionInv' /\ Onward
  <2>1. WindowsInv /\ ConnectionInv
    BY DEF ErrorsInv, WindowsInv
  <2> QED
    BY <2>1, WindowsStep, ConnectionStep
<1>2. CASE UNCHANGED vars
  <2>1. UNCHANGED <<session, wire, alive, settings_timer>>
    BY <1>2 DEF vars
  <2> QED
    BY <1>1, <2>1 DEF ErrorsInv, Running, client, server
<1>3. CASE Next
  <2>1. ASSUME ClientApp PROVE Goes
    BY <1>1, <2>1, ClientAppGoes
  <2>2. ASSUME ServerApp PROVE Goes
    BY <1>1, <2>2, ServerAppGoes
  <2>3. ASSUME NEW e \in Ends, Send(e) PROVE Goes
    <3>1. ASSUME SendUrgent(e) PROVE Goes
      BY <1>1, <3>1, ClientUrgentGoes, ServerUrgentGoes DEF Ends
    <3>2. ASSUME SendRegular(e) \/ SendSyn(e) PROVE Goes
      BY <1>1, <3>2, ClientQueuesGo, ServerQueuesGo DEF Ends
    <3>3. ASSUME NEW id \in StreamIds, SendData(e, id) PROVE Goes
      BY <1>1, <3>3, ClientDataGoes, ServerDataGoes DEF Ends
    <3> QED
      BY <2>3, <3>1, <3>2, <3>3 DEF Send
  <2>4. ASSUME NEW e \in Ends, Receive(e) PROVE Goes
    BY <1>1, <2>4, ClientReceiveGoes, ServerReceiveGoes DEF Ends
  <2>5. ASSUME NEW e \in Ends, Drop(e) \/ EndOfFile(e) PROVE Goes
    BY <2>5, EndsGo
  <2>6. Goes
    BY <1>3, <2>1, <2>2, <2>3, <2>4, <2>5 DEF Next
  <2> QED
    BY <1>1, <2>6, StepGoes
<1> QED
  BY <1>2, <1>3

\* A session that has submitted its first SETTINGS.
FirstSession(s, f, next) ==
    /\ s.streams = [id \in StreamIds |-> NoStream]
    /\ s.next_stream_id = next
    /\ s.last_sent_stream_id = 0 /\ s.last_recv_stream_id = 0 /\ s.last_proc_stream_id = 0
    /\ s.local_last_stream_id = Unlimited /\ s.remote_last_stream_id = Unlimited
    /\ s.ob_urgent = <<f>> /\ s.inflight_settings = <<f>>
    /\ s.ob_reg = <<>> /\ s.ob_syn = <<>> /\ s.goaway_flags = {}
    /\ s.remote_window_size = InitialWindow /\ s.local_window_size = InitialWindow
    /\ s.recv_window_size = 0 /\ s.local_max = Unlimited

LEMMA SessionsBegin ==
    ASSUME Init
    PROVE  /\ FirstSession(client, Settings(ClientMax, ClientWindow), 1)
           /\ FirstSession(server, Settings(ServerMax, Unchanged), 2)
           /\ wire["client"] = <<>> /\ wire["server"] = <<>> /\ Running
<1>1. /\ client = submit_settings(session_new(FALSE, PeerMax),
                                  Settings(ClientMax, ClientWindow))
      /\ server = submit_settings(session_new(TRUE, Unlimited),
                                  Settings(ServerMax, Unchanged))
      /\ wire["client"] = <<>> /\ wire["server"] = <<>> /\ Running
  BY DEF Init, Ends, client, server, Running
<1>2. \A f : Append(<<>>, f) = <<f>>
  OBVIOUS
<1> QED
  BY <1>1, <1>2 DEF FirstSession, submit_settings, Enqueue, session_new

LEMMA CoreBegins ==
    ASSUME NEW c, NEW s, NEW f, NEW g, FirstSession(c, f, 1), FirstSession(s, g, 2), NEW e, e = <<>>
    PROVE  Core(c, s, e, e)
<1>1. Members(<<>>) = {} /\ Len(<<>>) = 0
  BY DEF Members
<1>2. /\ \A ok, R : Guarded(e, ok, R)
      /\ \A R : Apart(e, R)
  BY <1>1 DEF Guarded, Apart
<1>3. \A k \in StreamIds : c.streams[k] = NoStream /\ s.streams[k] = NoStream
  BY DEF FirstSession
<1>4. \A k \in StreamIds : /\ ~Active(c, k) /\ ~Active(s, k) /\ Idle(c, k)
                           /\ c.streams[k].item = NoItem /\ s.streams[k].item = NoItem
                           /\ s.streams[k].recv_window_size = 0
                           /\ c.streams[k].state = "IDLE" /\ s.streams[k].state = "IDLE"
  BY <1>3 DEF Active, Idle, NoStream
<1>5. \A type, k : ~Has(e, type, k)
  BY <1>1 DEF Has
<1>6. /\ Members(c.ob_reg) = {} /\ Members(c.ob_syn) = {}
      /\ Members(s.ob_reg) = {} /\ Members(s.ob_syn) = {} /\ Members(e) = {}
  BY <1>1 DEF FirstSession
<1>7. ServerOK(s, e)
  BY <1>4, <1>6 DEF ServerOK, NoRecv, FirstSession
<1>8. GoawaysOK(c)
  BY <1>6 DEF GoawaysOK, LastOK, Odd, FirstSession
<1>9. HeardOK(s, e) /\ RoomOK(s, e)
  BY <1>1, <1>2, <1>6 DEF HeardOK, RoomOK
<1>10. Asked(c)
  <2>1. \A R : Apart(c.ob_reg, R)
    BY <1>2 DEF FirstSession
  <2>2. \A k \in StreamIds : ~(k < c.next_stream_id)
    BY IdsFinite, SizeAssumption DEF StreamIds, FirstSession
  <2>3. c.last_sent_stream_id < c.next_stream_id
    BY DEF FirstSession
  <2> QED
    BY <1>4, <1>6, <2>1, <2>2, <2>3 DEF Asked
<1>11. Underway(c, s, e)
  BY <1>6 DEF Underway, FirstSession
<1>12. Spoken(s, e)
  BY <1>6 DEF Spoken
<1>13. Announced(c, s, e)
  BY <1>2, <1>6 DEF Announced, FirstSession
<1>14. Answers(c, s, e)
  BY <1>2, <1>4, <1>6 DEF Answers
<1>15. Listens(c) /\ Followed(c, s, e)
  BY <1>4, <1>5 DEF Listens, Followed
<1>16. /\ c.goaway_flags = {} /\ s.goaway_flags = {} /\ s.remote_last_stream_id = Unlimited
       /\ s.remote_window_size >= 0 /\ c.local_window_size = InitialWindow
  BY SizeAssumption DEF FirstSession
<1> QED
  BY <1>7, <1>8, <1>9, <1>10, <1>11, <1>12, <1>13, <1>14, <1>15, <1>16 DEF Core, Polite

LEMMA SettleBegins ==
    ASSUME NEW c, NEW s, NEW f, f = Settings(ClientMax, ClientWindow),
           NEW g, g = Settings(ServerMax, Unchanged),
           FirstSession(c, f, 1), FirstSession(s, g, 2), NEW e, e = <<>>
    PROVE  Settle(c, s, e, e)
<1>1. /\ c.ob_urgent = <<f>> /\ c.inflight_settings = <<f>> /\ c.local_max = Unlimited
      /\ s.ob_urgent = <<g>> /\ s.inflight_settings = <<g>> /\ s.local_max = Unlimited
  BY DEF FirstSession
<1>2. \A x : Members(<<x>>) = {x} /\ Len(<<x>>) = 1
  BY DEF Members
<1>3. f \in AllFrames /\ g \in AllFrames /\ f.type = "SETTINGS" /\ g.type = "SETTINGS"
  <2>1. f \in SettingsFrames /\ g \in SettingsFrames /\ f.type = "SETTINGS" /\ g.type = "SETTINGS"
    BY LimitAssumption DEF Settings, SettingsFrames, Unchanged
  <2> QED
    BY <2>1 DEF AllFrames, Frames
<1>4. \A T : Units(e, Tally(T)) = 0
  BY UnitsEmpty
<1>5. \A x \in {f, g} : /\ Units(<<x>>, Tally("SETTINGS")) = 1
                        /\ Units(<<x>>, Tally("ACK")) = 0
  <2> SUFFICES ASSUME NEW x \in {f, g}
               PROVE  Units(<<x>>, Tally("SETTINGS")) = 1 /\ Units(<<x>>, Tally("ACK")) = 0
    OBVIOUS
  <2>1. e \in Seq(AllFrames) /\ Append(e, x) = <<x>> /\ x \in AllFrames /\ x.type = "SETTINGS"
    BY <1>3
  <2>2. /\ Units(Append(e, x), Tally("SETTINGS")) = Units(e, Tally("SETTINGS")) + 1
        /\ Units(Append(e, x), Tally("ACK")) = Units(e, Tally("ACK"))
    BY <2>1, SettingsAdded
  <2> QED
    BY <1>4, <2>1, <2>2
<1>6. ServerSettings(s)
  BY <1>1, <1>2 DEF ServerSettings
<1>7. ClientSettings(c)
  BY <1>1, <1>2 DEF ClientSettings, Limits, Settings
<1>8. Unsettled(s, c, e, e) = 1 /\ Unsettled(c, s, e, e) = 1
  BY <1>1, <1>4, <1>5 DEF Unsettled
<1>9. Len(c.inflight_settings) = 1 /\ Len(s.inflight_settings) = 1
  BY <1>1, <1>2
<1> QED
  BY <1>4, <1>6, <1>7, <1>8, <1>9 DEF Settle

LEMMA ErrorsInit ==
    ASSUME Init
    PROVE  ErrorsInv
<1>1. /\ FirstSession(client, Settings(ClientMax, ClientWindow), 1)
      /\ FirstSession(server, Settings(ServerMax, Unchanged), 2)
      /\ wire["client"] = <<>> /\ wire["server"] = <<>> /\ Running
  BY SessionsBegin
<1>2. Core(client, server, wire["client"], wire["server"])
  BY <1>1, CoreBegins
<1>3. Settle(client, server, wire["client"], wire["server"])
  BY <1>1, SettleBegins
<1>4. client.goaway_flags = {}
  BY <1>1 DEF FirstSession
<1> QED
  BY <1>1, <1>2, <1>3, <1>4, WindowsInit DEF ErrorsInv, Agreed

LEMMA ErrorsFree ==
    ASSUME ErrorsInv
    PROVE  NoConnectionError
<1>1. session["client"] = client /\ session["server"] = server
  BY DEF client, server
<1>2. server.goaway_flags \subseteq {"RECV"}
  BY DEF ErrorsInv, Agreed, Core, ServerOK
<1>3. "TERM_ON_SEND" \in client.goaway_flags => Timeouts /\ ~settings_timer
  BY DEF ErrorsInv
<1> QED
  BY <1>1, <1>2, <1>3 DEF NoConnectionError, Ends
-----------------------------------------------------------------------------
(***************************************************************************)
(* The theorems.                                                           *)
(***************************************************************************)
\* As long as the application of the client has no more requests open than the
\* server admits (session_prep_frame no longer holds HEADERS back), and the
\* server no more pushes than the client admits, no frame of one end makes the
\* other end the session with an error (NoConnectionError): only the settings
\* timer of the client may end it.
THEOREM NoErrorWithinLimits == Spec /\ []LimitsKept => []NoConnectionError
<1>1. Init => ErrorsInv
  BY ErrorsInit
<1>2. ErrorsInv /\ LimitsKept /\ LimitsKept' /\ [Next]_vars => ErrorsInv'
  BY ErrorsStep
<1>3. ErrorsInv => NoConnectionError
  BY ErrorsFree
<1> QED
  BY <1>1, <1>2, <1>3, PTL DEF Spec

\* Limits that all streams of the connection together keep to.
Roomy == Cardinality(RequestIds) <= ServerMax /\ Cardinality(PushIds) <= Lowest

LEMMA RoomyKeeps ==
    ASSUME ConnectionInv, Roomy
    PROVE  LimitsKept
<1> DEFINE c == client
           O == {k \in StreamIds : Outgoing(c, k)}
           I == {k \in StreamIds : Incoming(c, k)}
           R == {k \in StreamIds : ReservedRemote(c, k)}
<1>1. /\ c \in SessionType(Srv("client")) /\ Srv("client") = FALSE
      /\ c.num_outgoing_streams = Cardinality(O)
      /\ c.num_incoming_streams = Cardinality(I)
      /\ c.num_incoming_reserved_streams = Cardinality(R)
  BY SideFacts DEF SessionInv, Sound, CountersMatch, Srv
<1>2. \A k \in StreamIds : k \in Nat /\ (is_my_stream_id(c, k) <=> k % 2 = 1)
  <2>1. Typed(c, server, wire["client"], wire["server"])
    BY EndTypes
  <2>2. \A k \in StreamIds : k \in Nat
    BY IdsFinite
  <2>3. \A k \in Nat : is_my_stream_id(c, k) <=> Odd(k)
    BY <2>1, Owners
  <2>4. \A k \in StreamIds : is_my_stream_id(c, k) <=> k % 2 = 1
    BY <2>2, <2>3 DEF Odd
  <2> QED
    BY <2>2, <2>4
<1>3. O \subseteq RequestIds /\ I \subseteq PushIds /\ R \subseteq PushIds
  BY <1>2 DEF RequestIds, PushIds, Outgoing, Incoming, ReservedRemote
<1>4. I \cap R = {}
  BY DEF Incoming, ReservedRemote
<1> HIDE DEF O, I, R
<1>5. IsFiniteSet(RequestIds) /\ IsFiniteSet(PushIds)
  BY IdsFinite, FS_Subset DEF RequestIds, PushIds
<1>6. Cardinality(O) <= Cardinality(RequestIds)
  BY <1>3, <1>5, FS_Subset
<1>7. Cardinality(I) + Cardinality(R) <= Cardinality(PushIds)
  <2>1. IsFiniteSet(I) /\ IsFiniteSet(R)
    BY <1>3, <1>5, FS_Subset
  <2>2. Cardinality(I \cup R) = Cardinality(I) + Cardinality(R)
    <3>1. Cardinality(I \cup R) = Cardinality(I) + Cardinality(R) - Cardinality(I \cap R)
      BY <2>1, FS_Union
    <3>2. Cardinality(I \cap R) = 0
      BY <1>4, FS_EmptySet
    <3>3. Cardinality(I) \in Nat /\ Cardinality(R) \in Nat
      BY <2>1, FS_CardinalityType
    <3> QED
      BY <3>1, <3>2, <3>3
  <2>3. I \cup R \subseteq PushIds
    BY <1>3
  <2> QED
    BY <1>5, <2>2, <2>3, FS_Subset
<1>8. /\ Cardinality(O) \in Nat /\ Cardinality(RequestIds) \in Nat
      /\ Cardinality(I) \in Nat /\ Cardinality(R) \in Nat /\ Cardinality(PushIds) \in Nat
  BY <1>3, <1>5, FS_Subset, FS_CardinalityType
<1>9. Lowest \in Nat /\ ServerMax \in Nat
  BY LimitAssumption DEF Lowest, Min2
<1> QED
  BY <1>1, <1>6, <1>7, <1>8, <1>9 DEF LimitsKept, PushesFit, Roomy

\* With such limits no session ever ends with an error (NoConnectionError),
\* whatever is requested, pushed and reset.
THEOREM NoErrorWithRoom ==
    ASSUME Roomy
    PROVE  Spec => []NoConnectionError
<1>1. Spec => []ConnectionInv
  BY Always
<1>2. ConnectionInv => LimitsKept
  BY RoomyKeeps
<1> QED
  BY <1>1, <1>2, NoErrorWithinLimits, PTL
=============================================================================
