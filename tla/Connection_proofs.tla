-------------------------- MODULE Connection_proofs --------------------------
(***************************************************************************)
(* Proofs about Connection, for any number of streams and any limits.      *)
(*                                                                         *)
(* The invariant of one session (SessionInv) has three parts: the counters *)
(* match the streams (Sound), a stream that is to begin is still idle      *)
(* (Fresh), and GOAWAY covers what was processed (Covered).  A step that   *)
(* opens and closes nothing is Calm, one that begins no stream Advances,   *)
(* and both keep the invariant; so an operator of Session is shown to be   *)
(* one of these, and only those that begin a stream need more.             *)
(***************************************************************************)
EXTENDS Connection, SequenceTheorems, FiniteSetTheorems, TLAPS

-----------------------------------------------------------------------------
(***************************************************************************)
(* Types: of frames by the endpoint that sends them (srv: the server), of  *)
(* a session, and of all variables.                                        *)
(***************************************************************************)
Requests == [type : {"HEADERS"}, cat : {"REQUEST"}, id : {i \in StreamIds : i % 2 = 1}, size : {0}]
Responses == [type : {"HEADERS"}, cat : {"HEADERS"}, id : StreamIds, size : Nat]
Promises == [type : {"PUSH_PROMISE"}, id : StreamIds, promised : {i \in StreamIds : i % 2 = 0}]
Resets == [type : {"RST_STREAM"}, id : StreamIds]
Updates == [type : {"WINDOW_UPDATE"}, id : StreamIds \cup {0}, increment : Nat]
Goaways == [type : {"GOAWAY"}, last : Nat, term : BOOLEAN]
SettingsFrames == [type : {"SETTINGS"}, max : Int, window : Int]
Acks == [type : {"ACK"}]
DataFrames == [type : {"DATA"}, id : StreamIds, length : Nat, end : BOOLEAN]

Regular(srv) == (IF srv THEN Responses \cup Promises ELSE Requests) \cup Updates \cup Goaways
Frames(srv) == Regular(srv) \cup Resets \cup SettingsFrames \cup Acks \cup DataFrames

SessionType(srv) ==
    [server : {srv},
     streams : [StreamIds -> StreamType],
     next_stream_id : Nat,
     last_sent_stream_id : Nat,
     last_recv_stream_id : Nat,
     last_proc_stream_id : Nat,
     local_last_stream_id : Nat,
     remote_last_stream_id : Nat,
     num_outgoing_streams : Int,
     num_incoming_streams : Int,
     num_incoming_reserved_streams : Int,
     ob_urgent : Seq(SettingsFrames \cup Acks),
     ob_reg : Seq(Regular(srv)),
     ob_syn : Seq(Resets),
     goaway_flags : SUBSET {"TERM_ON_SEND", "TERM_SENT", "SENT", "RECV"},
     remote_window_size : Int,
     local_window_size : Int,
     recv_window_size : Nat,
     window_update_queued : BOOLEAN,
     remote_max : Int,
     local_max : Int,
     pending_local_max : Int,
     remote_initial_window : Int,
     local_initial_window : Int,
     inflight_settings : Seq(SettingsFrames)]

\* The fields that decide which streams may be opened, and what a GOAWAY says.
Fixed(s, t) ==
    /\ t.next_stream_id = s.next_stream_id
    /\ t.last_recv_stream_id = s.last_recv_stream_id
    /\ t.last_proc_stream_id = s.last_proc_stream_id
    /\ t.local_last_stream_id = s.local_last_stream_id
    /\ s.server => t.last_sent_stream_id = s.last_sent_stream_id
    /\ s.goaway_flags \subseteq t.goaway_flags

\* Frames that begin no stream are queued, none is taken out.
Beginning == {"HEADERS", "PUSH_PROMISE"}

Extends(q, r) ==
    /\ Len(q) <= Len(r)
    /\ \A i \in 1 .. Len(q) : r[i] = q[i]
    /\ \A i \in Len(q) + 1 .. Len(r) : r[i].type \notin Beginning

\* A GOAWAY is queued for what has been processed, and the session ends with it.
NewGoaways(s, t) ==
    \A i \in Len(s.ob_reg) + 1 .. Len(t.ob_reg) :
        t.ob_reg[i].type = "GOAWAY" =>
            /\ t.ob_reg[i].last = Min2(s.last_proc_stream_id, s.local_last_stream_id)
            /\ "TERM_ON_SEND" \in t.goaway_flags \ s.goaway_flags

Queues(s, t) == Extends(s.ob_reg, t.ob_reg) /\ NewGoaways(s, t)

\* A step of a session that opens and closes nothing.
Calm(s, t) ==
    /\ Fixed(s, t)
    /\ t.num_outgoing_streams = s.num_outgoing_streams
    /\ t.num_incoming_streams = s.num_incoming_streams
    /\ t.num_incoming_reserved_streams = s.num_incoming_reserved_streams
    /\ Queues(s, t)
    /\ \A id \in StreamIds :
         /\ t.streams[id].push = s.streams[id].push
         /\ s.streams[id].shut \subseteq t.streams[id].shut
         /\ \/ t.streams[id].state = s.streams[id].state
            \/ Active(s, id) /\ t.streams[id].state = "CLOSING"

LEMMA ExtendsTwice ==
    ASSUME NEW q, NEW r, NEW u, Len(q) \in Nat, Len(r) \in Nat, Len(u) \in Nat,
           Extends(q, r), Extends(r, u)
    PROVE  Extends(q, u)
BY DEF Extends

LEMMA ExtendsOne ==
    ASSUME NEW S, NEW q \in Seq(S), NEW f \in S, f.type \notin Beginning
    PROVE  /\ Append(q, f) \in Seq(S)
           /\ Extends(q, Append(q, f))
BY DEF Extends

\* Each field of a session has its type.
LEMMA FieldTypes ==
    ASSUME NEW srv \in BOOLEAN, NEW s \in SessionType(srv)
    PROVE  /\ s.server = srv
           /\ s.streams \in [StreamIds -> StreamType]
           /\ s.next_stream_id \in Nat
           /\ s.last_sent_stream_id \in Nat
           /\ s.last_recv_stream_id \in Nat
           /\ s.last_proc_stream_id \in Nat
           /\ s.local_last_stream_id \in Nat
           /\ s.remote_last_stream_id \in Nat
           /\ s.num_outgoing_streams \in Int
           /\ s.num_incoming_streams \in Int
           /\ s.num_incoming_reserved_streams \in Int
           /\ s.ob_urgent \in Seq(SettingsFrames \cup Acks)
           /\ s.ob_reg \in Seq(Regular(srv))
           /\ s.ob_syn \in Seq(Resets)
           /\ s.goaway_flags \subseteq {"TERM_ON_SEND", "TERM_SENT", "SENT", "RECV"}
           /\ s.remote_window_size \in Int
           /\ s.local_window_size \in Int
           /\ s.recv_window_size \in Nat
           /\ s.window_update_queued \in BOOLEAN
           /\ s.remote_max \in Int
           /\ s.local_max \in Int
           /\ s.pending_local_max \in Int
           /\ s.remote_initial_window \in Int
           /\ s.local_initial_window \in Int
           /\ s.inflight_settings \in Seq(SettingsFrames)
BY DEF SessionType

LEMMA StreamTypes ==
    ASSUME NEW srv \in BOOLEAN, NEW s \in SessionType(srv), NEW id \in StreamIds
    PROVE  /\ s.streams[id] \in StreamType
           /\ s.streams[id].state \in
                {"IDLE", "INITIAL", "OPENING", "OPENED", "RESERVED", "CLOSING", "CLOSED"}
           /\ s.streams[id].push \in BOOLEAN
           /\ s.streams[id].shut \subseteq {"RD", "WR"}
           /\ s.streams[id].remote_window_size \in Int
           /\ s.streams[id].local_window_size \in Int
           /\ s.streams[id].recv_window_size \in Nat
           /\ s.streams[id].window_update_queued \in BOOLEAN
           /\ s.streams[id].item \in Nat
           /\ s.streams[id].deferred \in BOOLEAN
BY FieldTypes DEF StreamType

LEMMA QueuesSelf ==
    ASSUME NEW srv \in BOOLEAN, NEW s \in SessionType(srv), NEW t, t.ob_reg = s.ob_reg
    PROVE  Queues(s, t)
<1>1. Len(s.ob_reg) \in Nat
  BY FieldTypes
<1> QED
  BY <1>1 DEF Queues, Extends, NewGoaways

LEMMA QueuesTwice ==
    ASSUME NEW srv \in BOOLEAN, NEW s \in SessionType(srv), NEW t \in SessionType(srv),
           NEW u \in SessionType(srv), Fixed(s, t), Fixed(t, u), Queues(s, t), Queues(t, u)
    PROVE  Queues(s, u)
<1>1. Len(s.ob_reg) \in Nat /\ Len(t.ob_reg) \in Nat /\ Len(u.ob_reg) \in Nat
  BY FieldTypes
<1>2. Extends(s.ob_reg, u.ob_reg)
  BY <1>1, ExtendsTwice DEF Queues
<1>3. NewGoaways(s, u)
  BY <1>1 DEF Queues, Extends, NewGoaways, Fixed
<1> QED
  BY <1>2, <1>3 DEF Queues

LEMMA CalmSelf ==
    ASSUME NEW srv \in BOOLEAN, NEW s \in SessionType(srv)
    PROVE  Calm(s, s)
BY FieldTypes, QueuesSelf DEF Calm, Fixed

LEMMA CalmTwice ==
    ASSUME NEW srv \in BOOLEAN, NEW s \in SessionType(srv), NEW t \in SessionType(srv),
           NEW u \in SessionType(srv), Calm(s, t), Calm(t, u)
    PROVE  Calm(s, u)
<1>1. Queues(s, u)
  BY QueuesTwice DEF Calm
<1>2. Fixed(s, u)
  BY FieldTypes DEF Calm, Fixed
<1> QED
  BY <1>1, <1>2 DEF Calm, Active

\* What Calm says nothing of may change.
LEMMA CalmOthers ==
    ASSUME NEW srv \in BOOLEAN, NEW s \in SessionType(srv), NEW t \in SessionType(srv),
           t.streams = s.streams, Fixed(s, t), Queues(s, t),
           t.num_outgoing_streams = s.num_outgoing_streams,
           t.num_incoming_streams = s.num_incoming_streams,
           t.num_incoming_reserved_streams = s.num_incoming_reserved_streams
    PROVE  Calm(s, t)
BY DEF Calm

LEMMA WindowUpdateQueued ==
    ASSUME NEW srv \in BOOLEAN, NEW s \in SessionType(srv), NEW f \in Updates
    PROVE  /\ Enqueue(s, "ob_reg", f) \in SessionType(srv)
           /\ Calm(s, Enqueue(s, "ob_reg", f))
<1>1. f \in Regular(srv) /\ f.type \notin Beginning /\ f.type # "GOAWAY"
  BY DEF Updates, Regular, Beginning
<1>2. /\ Append(s.ob_reg, f) \in Seq(Regular(srv))
      /\ Extends(s.ob_reg, Append(s.ob_reg, f))
  BY <1>1, FieldTypes, ExtendsOne
<1> DEFINE t == [s EXCEPT !.ob_reg = Append(s.ob_reg, f)]
<1>3. t = Enqueue(s, "ob_reg", f)
  BY DEF Enqueue
<1>4. t \in SessionType(srv)
  BY <1>2 DEF SessionType
<1>5. t.ob_reg = Append(s.ob_reg, f) /\ t.streams = s.streams /\ Fixed(s, t)
      /\ t.num_outgoing_streams = s.num_outgoing_streams
      /\ t.num_incoming_streams = s.num_incoming_streams
      /\ t.num_incoming_reserved_streams = s.num_incoming_reserved_streams
  BY DEF SessionType, Fixed
<1>6. NewGoaways(s, t)
  <2> HIDE DEF t
  <2> QED
    BY <1>1, <1>5, FieldTypes DEF NewGoaways
<1> QED
  BY <1>2, <1>3, <1>4, <1>5, <1>6, CalmOthers DEF Queues

LEMMA ResetQueued ==
    ASSUME NEW srv \in BOOLEAN, NEW s \in SessionType(srv), NEW id \in StreamIds
    PROVE  /\ Enqueue(s, "ob_syn", RstStream(id)) \in SessionType(srv)
           /\ Calm(s, Enqueue(s, "ob_syn", RstStream(id)))
<1>0. RstStream(id) \in Resets
  BY DEF RstStream, Resets
<1>1. Append(s.ob_syn, RstStream(id)) \in Seq(Resets)
  BY <1>0, FieldTypes
<1> DEFINE t == [s EXCEPT !.ob_syn = Append(s.ob_syn, RstStream(id))]
<1>2. t = Enqueue(s, "ob_syn", RstStream(id))
  BY DEF Enqueue
<1>3. t \in SessionType(srv)
  BY <1>1 DEF SessionType
<1>4. t.ob_reg = s.ob_reg /\ t.streams = s.streams /\ Fixed(s, t)
      /\ t.num_outgoing_streams = s.num_outgoing_streams
      /\ t.num_incoming_streams = s.num_incoming_streams
      /\ t.num_incoming_reserved_streams = s.num_incoming_reserved_streams
  BY DEF SessionType, Fixed
<1> HIDE DEF t
<1> QED
  BY <1>2, <1>3, <1>4, QueuesSelf, CalmOthers

\* Streams change in other respects than their states and push flags, or are
\* reset.
LEMMA StreamsChanged ==
    ASSUME NEW srv \in BOOLEAN, NEW s \in SessionType(srv),
           NEW S \in [StreamIds -> StreamType],
           \A id \in StreamIds :
               /\ S[id].push = s.streams[id].push
               /\ s.streams[id].shut \subseteq S[id].shut
               /\ \/ S[id].state = s.streams[id].state
                  \/ Active(s, id) /\ S[id].state = "CLOSING"
    PROVE  /\ [s EXCEPT !.streams = S] \in SessionType(srv)
           /\ Calm(s, [s EXCEPT !.streams = S])
<1> DEFINE t == [s EXCEPT !.streams = S]
<1>1. t \in SessionType(srv)
  BY DEF SessionType
<1>2. /\ t.streams = S /\ t.ob_reg = s.ob_reg /\ Fixed(s, t)
      /\ t.num_outgoing_streams = s.num_outgoing_streams
      /\ t.num_incoming_streams = s.num_incoming_streams
      /\ t.num_incoming_reserved_streams = s.num_incoming_reserved_streams
  BY DEF SessionType, Fixed
<1>3. Queues(s, t)
  BY <1>2, QueuesSelf
<1>4. Calm(s, t)
  BY <1>2, <1>3 DEF Calm
<1> QED
  BY <1>1, <1>4

LEMMA StreamChanged ==
    ASSUME NEW srv \in BOOLEAN, NEW s \in SessionType(srv), NEW id \in StreamIds,
           NEW a \in StreamType, a.push = s.streams[id].push,
           s.streams[id].shut \subseteq a.shut,
           \/ a.state = s.streams[id].state
           \/ Active(s, id) /\ a.state = "CLOSING"
    PROVE  /\ [s EXCEPT !.streams[id] = a] \in SessionType(srv)
           /\ Calm(s, [s EXCEPT !.streams[id] = a])
<1> DEFINE S == [s.streams EXCEPT ![id] = a]
<1>1. S \in [StreamIds -> StreamType]
  BY FieldTypes
<1>2. S[id] = a /\ \A j \in StreamIds : j # id => S[j] = s.streams[j]
  BY FieldTypes
<1> HIDE DEF S
<1>3. [s EXCEPT !.streams = S] \in SessionType(srv) /\ Calm(s, [s EXCEPT !.streams = S])
  BY <1>1, <1>2, StreamsChanged
<1> QED
  BY <1>3 DEF S

LEMMA AddRst ==
    ASSUME NEW srv \in BOOLEAN, NEW s \in SessionType(srv), NEW id \in StreamIds
    PROVE  /\ add_rst_stream(s, id) \in SessionType(srv)
           /\ Calm(s, add_rst_stream(s, id))
<1> DEFINE t == [s EXCEPT !.streams[id] = [s.streams[id] EXCEPT !.state = "CLOSING"]]
<1>1. CASE ~Active(s, id)
  BY <1>1, ResetQueued DEF add_rst_stream
<1>2. CASE Active(s, id) /\ s.streams[id].state = "CLOSING"
  BY <1>2, CalmSelf DEF add_rst_stream
<1>3. CASE Active(s, id) /\ s.streams[id].state # "CLOSING"
  <2>1. [s.streams[id] EXCEPT !.state = "CLOSING"] \in StreamType
    BY StreamTypes DEF StreamType
  <2>2. t \in SessionType(srv) /\ Calm(s, t)
    BY <1>3, <2>1, StreamTypes, StreamChanged DEF StreamType
  <2>3. /\ Enqueue(t, "ob_syn", RstStream(id)) \in SessionType(srv)
        /\ Calm(t, Enqueue(t, "ob_syn", RstStream(id)))
    BY <2>2, ResetQueued
  <2>4. add_rst_stream(s, id) = Enqueue(t, "ob_syn", RstStream(id))
    BY <1>3 DEF add_rst_stream
  <2> QED
    BY <2>2, <2>3, <2>4, CalmTwice
<1> QED
  BY <1>1, <1>2, <1>3

LEMMA Terminate ==
    ASSUME NEW srv \in BOOLEAN, NEW s \in SessionType(srv)
    PROVE  /\ terminate_session(s) \in SessionType(srv)
           /\ Calm(s, terminate_session(s))
<1>1. CASE "TERM_ON_SEND" \in s.goaway_flags
  BY <1>1, CalmSelf DEF terminate_session
<1>2. CASE "TERM_ON_SEND" \notin s.goaway_flags
  <2> DEFINE last == Min2(s.last_proc_stream_id, s.local_last_stream_id)
             f == Goaway(last, TRUE)
             q == Append(s.ob_reg, f)
             flags == s.goaway_flags \cup {"TERM_ON_SEND"}
             t == [s EXCEPT !.ob_reg = q, !.goaway_flags = flags]
  <2>1. t = terminate_session(s)
    BY <1>2 DEF terminate_session, add_goaway, Enqueue
  <2>2. f \in Regular(srv) /\ f.type # "HEADERS" /\ f.last = last
    BY FieldTypes DEF Goaway, Goaways, Regular, Min2
  <2>3. q \in Seq(Regular(srv)) /\ Extends(s.ob_reg, q)
    <3>1. f.type \notin Beginning /\ s.ob_reg \in Seq(Regular(srv))
      BY <2>2, FieldTypes DEF Goaway, Beginning
    <3> HIDE DEF f
    <3> QED
      BY <2>2, <3>1, ExtendsOne
  <2>4. flags \subseteq {"TERM_ON_SEND", "TERM_SENT", "SENT", "RECV"}
    BY FieldTypes
  <2>5. t \in SessionType(srv)
    BY <2>3, <2>4 DEF SessionType
  <2>6. t.ob_reg = q /\ t.streams = s.streams /\ t.goaway_flags = flags /\ Fixed(s, t)
        /\ t.num_outgoing_streams = s.num_outgoing_streams
        /\ t.num_incoming_streams = s.num_incoming_streams
        /\ t.num_incoming_reserved_streams = s.num_incoming_reserved_streams
    BY DEF SessionType, Fixed
  <2>7. NewGoaways(s, t)
    <3> HIDE DEF t, f, flags, last
    <3>1. Len(q) = Len(s.ob_reg) + 1 /\ q[Len(q)] = f /\ Len(s.ob_reg) \in Nat
      BY <2>2, FieldTypes
    <3> HIDE DEF q
    <3> QED
      BY <1>2, <2>2, <2>6, <3>1 DEF NewGoaways, flags, last
  <2> QED
    BY <2>1, <2>3, <2>5, <2>6, <2>7, CalmOthers DEF Queues
<1> QED
  BY <1>1, <1>2

\* What is counted of the connection window, and whether an update waits.
LEMMA ConnectionWindow ==
    ASSUME NEW srv \in BOOLEAN, NEW s \in SessionType(srv), NEW n \in Nat, NEW b \in BOOLEAN
    PROVE  LET t == [s EXCEPT !.window_update_queued = b, !.recv_window_size = n] IN
           t \in SessionType(srv) /\ Calm(s, t)
<1> DEFINE t == [s EXCEPT !.window_update_queued = b, !.recv_window_size = n]
<1>1. t \in SessionType(srv)
  BY DEF SessionType
<1>2. t.ob_reg = s.ob_reg /\ t.streams = s.streams /\ Fixed(s, t)
      /\ t.num_outgoing_streams = s.num_outgoing_streams
      /\ t.num_incoming_streams = s.num_incoming_streams
      /\ t.num_incoming_reserved_streams = s.num_incoming_reserved_streams
  BY DEF SessionType, Fixed
<1> QED
  BY <1>1, <1>2, QueuesSelf, CalmOthers

LEMMA UpdateConnection ==
    ASSUME NEW srv \in BOOLEAN, NEW s \in SessionType(srv), NEW n \in Nat
    PROVE  /\ update_recv_connection_window_size(s, n) \in SessionType(srv)
           /\ Calm(s, update_recv_connection_window_size(s, n))
<1> DEFINE m == s.recv_window_size + n
           t == [s EXCEPT !.window_update_queued = s.window_update_queued,
                          !.recv_window_size = m]
           u == [s EXCEPT !.recv_window_size = @ + n]
           v == Enqueue(u, "ob_reg", WindowUpdate(0, u.recv_window_size))
           w == [v EXCEPT !.window_update_queued = TRUE, !.recv_window_size = 0]
<1>1. m \in Nat
  BY FieldTypes
<1>2. t \in SessionType(srv) /\ Calm(s, t)
  BY <1>1, FieldTypes, ConnectionWindow
<1>3. t = u
  BY DEF SessionType
<1>4. v \in SessionType(srv) /\ Calm(u, v)
  <2>1. WindowUpdate(0, u.recv_window_size) \in Updates
    BY <1>2, <1>3, FieldTypes DEF WindowUpdate, Updates
  <2> QED
    BY <1>2, <1>3, <2>1, WindowUpdateQueued
<1>5. w \in SessionType(srv) /\ Calm(v, w)
  BY <1>4, ConnectionWindow
<1>6. update_recv_connection_window_size(s, n) \in {terminate_session(s), w, u}
  BY DEF update_recv_connection_window_size
<1> QED
  BY <1>2, <1>3, <1>4, <1>5, <1>6, Terminate, CalmTwice

\* The fields of a stream its windows and body are kept in.
LEMMA WindowFields ==
    ASSUME NEW a \in StreamType, NEW n \in Nat, NEW b \in BOOLEAN, NEW i \in Int
    PROVE  /\ [a EXCEPT !.recv_window_size = n] \in StreamType
           /\ [a EXCEPT !.window_update_queued = b] \in StreamType
           /\ [a EXCEPT !.window_update_queued = b, !.recv_window_size = n] \in StreamType
           /\ [a EXCEPT !.remote_window_size = i, !.deferred = b] \in StreamType
           /\ [a EXCEPT !.remote_window_size = i, !.item = n] \in StreamType
           /\ [a EXCEPT !.item = n] \in StreamType
           /\ [a EXCEPT !.item = n, !.deferred = b] \in StreamType
           /\ [a EXCEPT !.deferred = b] \in StreamType
           /\ [a EXCEPT !.local_window_size = i, !.window_update_queued = b,
                        !.recv_window_size = n] \in StreamType
BY DEF StreamType

SameLife(a, b) == b.state = a.state /\ b.push = a.push /\ b.shut = a.shut

LEMMA WindowFieldsOnly ==
    ASSUME NEW a \in StreamType, NEW n, NEW b, NEW i
    PROVE  /\ SameLife(a, [a EXCEPT !.recv_window_size = n])
           /\ SameLife(a, [a EXCEPT !.window_update_queued = b])
           /\ SameLife(a, [a EXCEPT !.window_update_queued = b, !.recv_window_size = n])
           /\ SameLife(a, [a EXCEPT !.remote_window_size = i, !.deferred = b])
           /\ SameLife(a, [a EXCEPT !.remote_window_size = i, !.item = n])
           /\ SameLife(a, [a EXCEPT !.item = n])
           /\ SameLife(a, [a EXCEPT !.item = n, !.deferred = b])
           /\ SameLife(a, [a EXCEPT !.deferred = b])
           /\ SameLife(a, [a EXCEPT !.local_window_size = i, !.window_update_queued = b,
                                    !.recv_window_size = n])
BY DEF StreamType, SameLife

LEMMA StreamLives ==
    ASSUME NEW srv \in BOOLEAN, NEW s \in SessionType(srv), NEW id \in StreamIds,
           NEW a \in StreamType, SameLife(s.streams[id], a)
    PROVE  /\ [s EXCEPT !.streams[id] = a] \in SessionType(srv)
           /\ Calm(s, [s EXCEPT !.streams[id] = a])
BY StreamChanged DEF SameLife

LEMMA UpdateStream ==
    ASSUME NEW srv \in BOOLEAN, NEW s \in SessionType(srv), NEW id \in StreamIds,
           NEW n \in Nat, NEW send \in BOOLEAN
    PROVE  /\ update_recv_stream_window_size(s, id, n, send) \in SessionType(srv)
           /\ Calm(s, update_recv_stream_window_size(s, id, n, send))
<1> DEFINE m == s.streams[id].recv_window_size + n
           u == [s EXCEPT !.streams[id].recv_window_size = @ + n]
           v == Enqueue(u, "ob_reg", WindowUpdate(id, u.streams[id].recv_window_size))
           w == [v EXCEPT !.streams[id].window_update_queued = TRUE,
                          !.streams[id].recv_window_size = 0]
<1>1. m \in Nat
  BY StreamTypes
<1>2. u \in SessionType(srv) /\ Calm(s, u)
  <2> DEFINE a == [s.streams[id] EXCEPT !.recv_window_size = m]
  <2>1. a \in StreamType /\ SameLife(s.streams[id], a)
    BY <1>1, StreamTypes, WindowFields, WindowFieldsOnly
  <2>2. u = [s EXCEPT !.streams[id] = a]
    OBVIOUS
  <2> HIDE DEF a, u
  <2> QED
    BY <2>1, <2>2, StreamLives
<1>3. v \in SessionType(srv) /\ Calm(u, v)
  <2>1. WindowUpdate(id, u.streams[id].recv_window_size) \in Updates
    BY <1>2, StreamTypes DEF WindowUpdate, Updates
  <2> HIDE DEF u
  <2> QED
    BY <1>2, <2>1, WindowUpdateQueued
<1>4. w \in SessionType(srv) /\ Calm(v, w)
  <2> DEFINE a == [v.streams[id] EXCEPT !.window_update_queued = TRUE, !.recv_window_size = 0]
  <2> HIDE DEF v
  <2>1. a \in StreamType /\ SameLife(v.streams[id], a)
    BY <1>3, StreamTypes, WindowFields, WindowFieldsOnly
  <2>2. w = [v EXCEPT !.streams[id] = a]
    BY <1>3, FieldTypes, ZenonT(40) DEF SessionType
  <2> HIDE DEF a, w
  <2> QED
    BY <1>3, <2>1, <2>2, StreamLives
<1>5. update_recv_stream_window_size(s, id, n, send) \in {add_rst_stream(s, id), w, u}
  BY DEF update_recv_stream_window_size
<1> HIDE DEF u, v, w
<1>6. Calm(s, w)
  BY <1>2, <1>3, <1>4, CalmTwice
<1> QED
  BY <1>2, <1>4, <1>5, <1>6, AddRst

LEMMA WindowUpdateSent ==
    ASSUME NEW srv \in BOOLEAN, NEW s \in SessionType(srv), NEW f \in Updates
    PROVE  /\ window_update_sent(s, f) \in SessionType(srv)
           /\ Calm(s, window_update_sent(s, f))
<1>1. CASE f.id = 0
  <2> DEFINE t == [s EXCEPT !.window_update_queued = FALSE]
  <2>1. t \in SessionType(srv) /\ Calm(s, t)
    <3>1. t = [s EXCEPT !.window_update_queued = FALSE,
                        !.recv_window_size = s.recv_window_size]
      BY DEF SessionType
    <3> QED
      BY <3>1, FieldTypes, ConnectionWindow
  <2> QED
    BY <1>1, <2>1, UpdateConnection, CalmTwice DEF window_update_sent
<1>2. CASE f.id # 0
  <2> DEFINE t == [s EXCEPT !.streams[f.id].window_update_queued = FALSE]
             a == [s.streams[f.id] EXCEPT !.window_update_queued = FALSE]
  <2>1. f.id \in StreamIds
    BY <1>2 DEF Updates
  <2>2. a \in StreamType /\ SameLife(s.streams[f.id], a)
    BY <2>1, StreamTypes, WindowFields, WindowFieldsOnly
  <2>3. t = [s EXCEPT !.streams[f.id] = a]
    OBVIOUS
  <2>4. window_update_sent(s, f) \in {s, t, update_recv_stream_window_size(t, f.id, 0, TRUE)}
    BY <1>2 DEF window_update_sent
  <2> HIDE DEF a, t
  <2>5. t \in SessionType(srv) /\ Calm(s, t)
    BY <2>1, <2>2, <2>3, StreamLives
  <2>6. /\ update_recv_stream_window_size(t, f.id, 0, TRUE) \in SessionType(srv)
        /\ Calm(s, update_recv_stream_window_size(t, f.id, 0, TRUE))
    BY <2>1, <2>5, UpdateStream, CalmTwice
  <2> QED
    BY <2>4, <2>5, <2>6, CalmSelf
<1> QED
  BY <1>1, <1>2

LEMMA ItemDetached ==
    ASSUME NEW srv \in BOOLEAN, NEW s \in SessionType(srv), NEW id \in StreamIds
    PROVE  /\ detach_item(s, id) \in SessionType(srv) /\ Calm(s, detach_item(s, id))
           /\ defer_item(s, id) \in SessionType(srv) /\ Calm(s, defer_item(s, id))
<1> DEFINE a == [s.streams[id] EXCEPT !.item = NoItem, !.deferred = FALSE]
           b == [s.streams[id] EXCEPT !.deferred = TRUE]
<1>1. a \in StreamType /\ SameLife(s.streams[id], a)
  BY StreamTypes, WindowFields, WindowFieldsOnly DEF NoItem
<1>2. b \in StreamType /\ SameLife(s.streams[id], b)
  BY StreamTypes, WindowFields, WindowFieldsOnly
<1>3. /\ detach_item(s, id) = [s EXCEPT !.streams[id] = a]
      /\ defer_item(s, id) = [s EXCEPT !.streams[id] = b]
  BY FieldTypes, ZenonT(40) DEF detach_item, defer_item, SessionType
<1> HIDE DEF a, b
<1> QED
  BY <1>1, <1>2, <1>3, StreamLives

LEMMA UrgentQueued ==
    ASSUME NEW srv \in BOOLEAN, NEW s \in SessionType(srv), NEW f \in SettingsFrames \cup Acks
    PROVE  /\ Enqueue(s, "ob_urgent", f) \in SessionType(srv)
           /\ Calm(s, Enqueue(s, "ob_urgent", f))
<1> DEFINE q == Append(s.ob_urgent, f)
           t == [s EXCEPT !.ob_urgent = q]
<1>1. q \in Seq(SettingsFrames \cup Acks)
  BY FieldTypes
<1>2. t = Enqueue(s, "ob_urgent", f)
  BY DEF Enqueue
<1> HIDE DEF q
<1>3. t \in SessionType(srv)
  BY <1>1 DEF SessionType
<1>4. t.ob_reg = s.ob_reg /\ t.streams = s.streams /\ Fixed(s, t)
      /\ t.num_outgoing_streams = s.num_outgoing_streams
      /\ t.num_incoming_streams = s.num_incoming_streams
      /\ t.num_incoming_reserved_streams = s.num_incoming_reserved_streams
  BY DEF SessionType, Fixed
<1> HIDE DEF t
<1> QED
  BY <1>2, <1>3, <1>4, QueuesSelf, CalmOthers

LEMMA WindowUpdateReceived ==
    ASSUME NEW srv \in BOOLEAN, NEW s \in SessionType(srv), NEW f \in Updates
    PROVE  /\ on_window_update_received(s, f) \in SessionType(srv)
           /\ Calm(s, on_window_update_received(s, f))
<1>0. f.increment \in Nat /\ f.id \in StreamIds \cup {0}
  BY DEF Updates
<1>1. CASE f.id = 0
  <2> DEFINE n == s.remote_window_size + f.increment
             t == [s EXCEPT !.remote_window_size = n]
  <2>1. n \in Int
    BY <1>0, FieldTypes
  <2>2. t = on_window_update_received(s, f)
    BY <1>1 DEF on_window_update_received
  <2> HIDE DEF n
  <2>3. t \in SessionType(srv)
    BY <2>1 DEF SessionType
  <2>4. t.ob_reg = s.ob_reg /\ t.streams = s.streams /\ Fixed(s, t)
        /\ t.num_outgoing_streams = s.num_outgoing_streams
        /\ t.num_incoming_streams = s.num_incoming_streams
        /\ t.num_incoming_reserved_streams = s.num_incoming_reserved_streams
    BY DEF SessionType, Fixed
  <2> HIDE DEF t
  <2> QED
    BY <2>2, <2>3, <2>4, QueuesSelf, CalmOthers
<1>2. CASE f.id # 0
  <2> DEFINE n == s.streams[f.id].remote_window_size + f.increment
             d == s.streams[f.id].deferred /\ n <= 0
             a == [s.streams[f.id] EXCEPT !.remote_window_size = n, !.deferred = d]
             t == [s EXCEPT !.streams[f.id].remote_window_size = @ + f.increment,
                            !.streams[f.id].deferred = @ /\ n <= 0]
  <2>1. f.id \in StreamIds
    BY <1>0, <1>2
  <2>2. n \in Int /\ d \in BOOLEAN
    BY <1>0, <2>1, StreamTypes
  <2>3. on_window_update_received(s, f) \in {s, terminate_session(s), t}
    BY <1>2 DEF on_window_update_received
  <2>4. t = [s EXCEPT !.streams[f.id] = a]
    BY <2>1, FieldTypes, ZenonT(40) DEF SessionType
  <2> HIDE DEF n, d, t
  <2>5. a \in StreamType /\ SameLife(s.streams[f.id], a)
    BY <2>1, <2>2, StreamTypes, WindowFields, WindowFieldsOnly
  <2> HIDE DEF a
  <2> QED
    BY <2>1, <2>3, <2>4, <2>5, StreamLives, CalmSelf, Terminate
<1> QED
  BY <1>1, <1>2

LEMMA SettingsReceived ==
    ASSUME NEW srv \in BOOLEAN, NEW s \in SessionType(srv), NEW f \in SettingsFrames
    PROVE  /\ on_settings_received(s, f) \in SessionType(srv)
           /\ Calm(s, on_settings_received(s, f))
<1> DEFINE change == IF f.window = Unchanged THEN 0 ELSE f.window - s.remote_initial_window
           moved(stream) == [stream EXCEPT !.remote_window_size = @ + change,
                                           !.deferred = @ /\ stream.remote_window_size + change <= 0]
           S == [id \in StreamIds |-> IF Active(s, id) THEN moved(s.streams[id]) ELSE s.streams[id]]
           w == s.remote_initial_window + change
           m == IF f.max = Unchanged THEN s.remote_max ELSE f.max
           u == [s EXCEPT !.streams = S]
           t == [u EXCEPT !.remote_initial_window = w, !.remote_max = m]
<1>1. f.window \in Int /\ f.max \in Int
  BY DEF SettingsFrames
<1>2. change \in Int /\ w \in Int /\ m \in Int
  BY <1>1, FieldTypes DEF Unchanged
<1>3. on_settings_received(s, f) \in {t, Enqueue(t, "ob_urgent", SettingsAck)}
  BY DEF on_settings_received, SessionType
<1> HIDE DEF change, w, m
<1>4. \A id \in StreamIds : S[id] \in StreamType /\ SameLife(s.streams[id], S[id])
  <2> SUFFICES ASSUME NEW id \in StreamIds
               PROVE  S[id] \in StreamType /\ SameLife(s.streams[id], S[id])
    OBVIOUS
  <2> DEFINE i == s.streams[id].remote_window_size + change
             d == s.streams[id].deferred /\ i <= 0
             a == [s.streams[id] EXCEPT !.remote_window_size = i, !.deferred = d]
  <2>1. i \in Int /\ d \in BOOLEAN
    BY <1>2, StreamTypes
  <2>2. S[id] = IF Active(s, id) THEN a ELSE s.streams[id]
    OBVIOUS
  <2> HIDE DEF S, i, d
  <2>3. a \in StreamType /\ SameLife(s.streams[id], a)
    BY <2>1, StreamTypes, WindowFields, WindowFieldsOnly
  <2>4. SameLife(s.streams[id], s.streams[id])
    BY DEF SameLife
  <2> HIDE DEF a
  <2> QED
    BY <2>2, <2>3, <2>4, StreamTypes
<1>5. u \in SessionType(srv) /\ Calm(s, u)
  <2>1. S \in [StreamIds -> StreamType]
    BY <1>4
  <2> HIDE DEF S
  <2> QED
    BY <1>4, <2>1, StreamsChanged DEF SameLife
<1> HIDE DEF S, u
<1>6. t \in SessionType(srv) /\ Calm(u, t)
  <2>1. t \in SessionType(srv)
    BY <1>2, <1>5 DEF SessionType
  <2>2. t.ob_reg = u.ob_reg /\ t.streams = u.streams /\ Fixed(u, t)
        /\ t.num_outgoing_streams = u.num_outgoing_streams
        /\ t.num_incoming_streams = u.num_incoming_streams
        /\ t.num_incoming_reserved_streams = u.num_incoming_reserved_streams
    BY <1>5 DEF SessionType, Fixed
  <2> QED
    BY <1>5, <2>1, <2>2, QueuesSelf, CalmOthers
<1> HIDE DEF t
<1>7. /\ Enqueue(t, "ob_urgent", SettingsAck) \in SessionType(srv)
      /\ Calm(t, Enqueue(t, "ob_urgent", SettingsAck))
  <2>1. SettingsAck \in Acks
    BY DEF SettingsAck, Acks
  <2> QED
    BY <1>6, <2>1, UrgentQueued
<1> QED
  BY <1>3, <1>5, <1>6, <1>7, CalmTwice

\* The numbers of ids below one of its members count a finite set of ids in
\* ascending order, so Ascending finds such an enumeration.
LEMMA AscendingType ==
    ASSUME NEW ids \in SUBSET StreamIds
    PROVE  /\ Ascending(ids) \in Seq(ids) /\ Len(Ascending(ids)) = Cardinality(ids)
           /\ \A i, j \in 1 .. Len(Ascending(ids)) :
                i < j => Ascending(ids)[i] < Ascending(ids)[j]
<1> DEFINE n == Cardinality(ids)
           below(id) == {j \in ids : j <= id}
           r == [id \in ids |-> Cardinality(below(id))]
<1>1. IsFiniteSet(ids) /\ n \in Nat
  <2>1. IsFiniteSet(StreamIds)
    BY SizeAssumption, FS_Interval DEF StreamIds
  <2> QED
    BY <2>1, FS_Subset, FS_CardinalityType
<1>2. ids \subseteq Int
  BY SizeAssumption DEF StreamIds
<1>3. r \in [ids -> 1 .. n]
  <2> SUFFICES ASSUME NEW id \in ids PROVE Cardinality(below(id)) \in 1 .. n
    OBVIOUS
  <2>1. below(id) \in SUBSET ids /\ id \in below(id)
    BY <1>2
  <2>2. IsFiniteSet(below(id)) /\ Cardinality(below(id)) <= n
    BY <1>1, <2>1, FS_Subset
  <2>3. Cardinality(below(id)) # 0
    BY <2>1, <2>2, FS_EmptySet
  <2> QED
    BY <1>1, <2>2, <2>3, FS_CardinalityType
<1>4. ASSUME NEW a \in ids, NEW b \in ids, a < b
      PROVE  r[a] < r[b]
  <2>1. a \in Int /\ b \in Int /\ \A j \in ids : j \in Int
    BY <1>2
  <2>2. below(a) \in SUBSET below(b) /\ b \in below(b) /\ b \notin below(a)
    <3>1. ASSUME NEW j \in ids, j <= a
          PROVE  j <= b
      BY <1>4, <2>1, <3>1
    <3>2. b <= b /\ ~(b <= a)
      BY <1>4, <2>1
    <3> QED
      BY <3>1, <3>2
  <2>3. IsFiniteSet(below(b))
    BY <1>1, FS_Subset
  <2>4. Cardinality(below(a)) <= Cardinality(below(b))
        /\ Cardinality(below(a)) # Cardinality(below(b))
    BY <2>2, <2>3, FS_Subset
  <2>5. r[a] = Cardinality(below(a)) /\ r[b] = Cardinality(below(b))
        /\ r[a] \in 1 .. n /\ r[b] \in 1 .. n
    BY <1>3
  <2> QED
    BY <1>1, <2>4, <2>5
<1> HIDE DEF r
<1>5. \A i \in 1 .. n : \E id \in ids : r[id] = i
  <2> SUFFICES ASSUME NEW i \in 1 .. n, \A id \in ids : r[id] # i
               PROVE  FALSE
    OBVIOUS
  <2> DEFINE T == (1 .. n) \ {i}
  <2>1. IsFiniteSet(1 .. n) /\ Cardinality(1 .. n) = n
    BY <1>1, FS_Interval
  <2>2. IsFiniteSet(T) /\ Cardinality(T) = n - 1
    BY <2>1, FS_RemoveElement
  <2>3. r \in [ids -> T]
    BY <1>3
  <2> HIDE DEF T, n
  <2>4. PICK x, y \in ids : x # y /\ r[x] = r[y]
    <3>1. Cardinality(T) < Cardinality(ids)
      BY <1>1, <2>2 DEF n
    <3> QED
      BY <1>1, <2>2, <2>3, <3>1, FS_PigeonHole
  <2>5. x < y \/ y < x
    BY <1>2, <2>4
  <2>6. r[x] \in Int /\ r[y] \in Int
    BY <1>1, <1>3
  <2> QED
    BY <1>4, <2>4, <2>5, <2>6
<1> DEFINE q == [i \in 1 .. n |-> CHOOSE id \in ids : r[id] = i]
<1>6. q \in [1 .. n -> ids] /\ \A i \in 1 .. n : q[i] \in ids /\ r[q[i]] = i
  BY <1>5
<1>7. \A i, j \in DOMAIN q : i < j => q[i] < q[j]
  <2> SUFFICES ASSUME NEW i \in 1 .. n, NEW j \in 1 .. n, i < j, ~(q[i] < q[j])
               PROVE  FALSE
    OBVIOUS
  <2>1. q[i] \in ids /\ q[j] \in ids /\ r[q[i]] = i /\ r[q[j]] = j
    BY <1>6
  <2> HIDE DEF q
  <2>2. q[i] \in Int /\ q[j] \in Int
    BY <1>2, <2>1
  <2>3. q[i] = q[j] \/ q[j] < q[i]
    BY <2>2
  <2> QED
    BY <1>1, <1>4, <2>1, <2>3
<1> HIDE DEF q
<1>8. /\ Ascending(ids) \in [1 .. n -> ids]
      /\ \A i, j \in DOMAIN Ascending(ids) :
           i < j => Ascending(ids)[i] < Ascending(ids)[j]
  <2>1. \E p \in [1 .. Cardinality(ids) -> ids] :
            \A i, j \in DOMAIN p : i < j => p[i] < p[j]
    BY <1>6, <1>7
  <2> QED
    BY <2>1 DEF Ascending
<1> HIDE DEF n
<1>9. /\ Ascending(ids) \in Seq(ids) /\ Len(Ascending(ids)) = n
      /\ DOMAIN Ascending(ids) = 1 .. n
  BY <1>1, <1>8
<1> QED
  BY <1>8, <1>9 DEF n

LEMMA ExtendsMany ==
    ASSUME NEW S, NEW q \in Seq(S), NEW r \in Seq(S),
           \A i \in 1 .. Len(r) : r[i].type \notin Beginning
    PROVE  q \o r \in Seq(S) /\ Extends(q, q \o r)
<1>1. /\ q \o r \in Seq(S) /\ Len(q \o r) = Len(q) + Len(r)
      /\ \A i \in 1 .. Len(q) : (q \o r)[i] = q[i]
      /\ \A i \in Len(q) + 1 .. Len(q) + Len(r) : (q \o r)[i] = r[i - Len(q)]
  OBVIOUS
<1>2. \A i \in Len(q) + 1 .. Len(q) + Len(r) : i - Len(q) \in 1 .. Len(r)
  OBVIOUS
<1> QED
  BY <1>1, <1>2 DEF Extends

LEMMA LocalSettings ==
    ASSUME NEW srv \in BOOLEAN, NEW s \in SessionType(srv), NEW f \in SettingsFrames
    PROVE  /\ update_local_settings(s, f) \in SessionType(srv)
           /\ Calm(s, update_local_settings(s, f))
<1> DEFINE change == IF f.window = Unchanged THEN 0 ELSE f.window - s.local_initial_window
           updates == {id \in ActiveStreams(s) :
                         /\ f.window # Unchanged
                         /\ ~s.streams[id].window_update_queued
                         /\ should_send_window_update(
                              s.streams[id].local_window_size + change,
                              s.streams[id].recv_window_size)}
           ids == Ascending(updates)
           moved(id) == [s.streams[id] EXCEPT
                           !.local_window_size = @ + change,
                           !.window_update_queued = @ \/ id \in updates,
                           !.recv_window_size = IF id \in updates THEN 0 ELSE @]
           S == [id \in StreamIds |-> IF Active(s, id) THEN moved(id) ELSE s.streams[id]]
           q == [i \in DOMAIN ids |-> WindowUpdate(ids[i], s.streams[ids[i]].recv_window_size)]
           r == s.ob_reg \o q
           w == s.local_initial_window + change
           m == IF f.max = Unchanged THEN s.local_max ELSE f.max
           u == [s EXCEPT !.streams = S]
           t == [u EXCEPT !.ob_reg = r, !.local_initial_window = w, !.local_max = m]
<1>1. change \in Int /\ w \in Int /\ m \in Int
  <2>1. f.window \in Int /\ f.max \in Int
    BY DEF SettingsFrames
  <2> QED
    BY <2>1, FieldTypes DEF Unchanged
<1>2. ids \in Seq(StreamIds)
  <2>1. updates \in SUBSET StreamIds
    BY DEF ActiveStreams
  <2> HIDE DEF updates
  <2>2. Ascending(updates) \in Seq(updates)
    BY <2>1, AscendingType
  <2> QED
    BY <2>1, <2>2
<1>3. update_local_settings(s, f) = t
  BY DEF update_local_settings, SessionType
<1>4. \A id \in StreamIds : S[id] \in StreamType /\ SameLife(s.streams[id], S[id])
  <2> SUFFICES ASSUME NEW id \in StreamIds
               PROVE  S[id] \in StreamType /\ SameLife(s.streams[id], S[id])
    OBVIOUS
  <2> DEFINE i == s.streams[id].local_window_size + change
             b == s.streams[id].window_update_queued \/ id \in updates
             n == IF id \in updates THEN 0 ELSE s.streams[id].recv_window_size
             a == [s.streams[id] EXCEPT !.local_window_size = i, !.window_update_queued = b,
                                        !.recv_window_size = n]
  <2>1. i \in Int /\ b \in BOOLEAN /\ n \in Nat
    <3> HIDE DEF change, updates
    <3> QED
      BY <1>1, StreamTypes
  <2>2. S[id] = IF Active(s, id) THEN a ELSE s.streams[id]
    OBVIOUS
  <2> HIDE DEF S, i, b, n
  <2>3. a \in StreamType /\ SameLife(s.streams[id], a)
    BY <2>1, StreamTypes, WindowFields, WindowFieldsOnly
  <2>4. SameLife(s.streams[id], s.streams[id])
    BY DEF SameLife
  <2> HIDE DEF a
  <2> QED
    BY <2>2, <2>3, <2>4, StreamTypes
<1>5. u \in SessionType(srv) /\ Calm(s, u)
  <2>1. S \in [StreamIds -> StreamType]
    BY <1>4
  <2> HIDE DEF S
  <2> QED
    BY <1>4, <2>1, StreamsChanged DEF SameLife
<1>6. /\ r \in Seq(Regular(srv)) /\ Extends(s.ob_reg, r)
      /\ \A i \in Len(s.ob_reg) + 1 .. Len(r) : r[i].type # "GOAWAY"
  <2> HIDE DEF ids
  <2>1. q \in Seq(Updates)
    <3>1. \A i \in DOMAIN ids : ids[i] \in StreamIds
      BY <1>2
    <3>2. \A i \in DOMAIN ids : q[i] \in Updates
      BY <3>1, StreamTypes DEF WindowUpdate, Updates
    <3>3. DOMAIN q = 1 .. Len(ids) /\ DOMAIN ids = 1 .. Len(ids) /\ Len(ids) \in Nat
      BY <1>2
    <3>4. q = [i \in 1 .. Len(ids) |-> q[i]]
      BY <3>3
    <3> HIDE DEF q
    <3>5. q \in [1 .. Len(ids) -> Updates]
      BY <3>2, <3>3, <3>4
    <3> QED
      BY <3>3, <3>5
  <2> HIDE DEF q
  <2>2. q \in Seq(Regular(srv)) /\ Len(q) \in Nat
        /\ \A i \in 1 .. Len(q) : q[i].type = "WINDOW_UPDATE"
    <3>1. \A i \in 1 .. Len(q) : q[i] \in Updates
      BY <2>1
    <3>2. Updates \subseteq Regular(srv)
      BY DEF Regular
    <3>3. \A g \in Updates : g.type = "WINDOW_UPDATE"
      BY DEF Updates
    <3>4. Seq(Updates) \subseteq Seq(Regular(srv))
      BY <3>2
    <3> QED
      BY <2>1, <3>1, <3>3, <3>4
  <2>3. r \in Seq(Regular(srv)) /\ Extends(s.ob_reg, r)
    BY <2>2, FieldTypes, ExtendsMany DEF Beginning
  <2>4. \A i \in Len(s.ob_reg) + 1 .. Len(r) : r[i] = q[i - Len(s.ob_reg)]
                                              /\ i - Len(s.ob_reg) \in 1 .. Len(q)
    BY <2>2, FieldTypes
  <2> QED
    BY <2>2, <2>3, <2>4
<1> HIDE DEF change, updates, ids, S, q, r, w, m, u
<1>7. t \in SessionType(srv) /\ Calm(u, t)
  <2>1. t \in SessionType(srv)
    BY <1>1, <1>5, <1>6 DEF SessionType
  <2>2. t.ob_reg = r /\ t.streams = u.streams /\ Fixed(u, t)
        /\ t.num_outgoing_streams = u.num_outgoing_streams
        /\ t.num_incoming_streams = u.num_incoming_streams
        /\ t.num_incoming_reserved_streams = u.num_incoming_reserved_streams
    BY <1>5 DEF SessionType, Fixed
  <2>3. u.ob_reg = s.ob_reg
    BY DEF SessionType, u
  <2>4. Queues(u, t)
    BY <1>6, <2>2, <2>3 DEF Queues, NewGoaways
  <2> QED
    BY <1>5, <2>1, <2>2, <2>4, CalmOthers
<1> QED
  BY <1>3, <1>5, <1>7, CalmTwice

LEMMA SettingsAcked ==
    ASSUME NEW srv \in BOOLEAN, NEW s \in SessionType(srv)
    PROVE  /\ on_settings_ack_received(s) \in SessionType(srv)
           /\ Calm(s, on_settings_ack_received(s))
<1>1. CASE s.inflight_settings = <<>>
  BY <1>1, Terminate DEF on_settings_ack_received
<1>2. CASE s.inflight_settings # <<>>
  <2> DEFINE u == update_local_settings(s, Head(s.inflight_settings))
             q == Tail(u.inflight_settings)
             t == [u EXCEPT !.inflight_settings = q]
  <2>1. Head(s.inflight_settings) \in SettingsFrames
    BY <1>2, FieldTypes
  <2>2. u \in SessionType(srv) /\ Calm(s, u)
    BY <2>1, LocalSettings
  <2>3. u.inflight_settings = s.inflight_settings
    BY DEF update_local_settings, SessionType
  <2>4. on_settings_ack_received(s) = t
    BY <1>2 DEF on_settings_ack_received
  <2> HIDE DEF u
  <2>5. q \in Seq(SettingsFrames)
    BY <1>2, <2>3, FieldTypes
  <2> HIDE DEF q
  <2>6. t \in SessionType(srv)
    BY <2>2, <2>5 DEF SessionType
  <2>7. t.ob_reg = u.ob_reg /\ t.streams = u.streams /\ Fixed(u, t)
        /\ t.num_outgoing_streams = u.num_outgoing_streams
        /\ t.num_incoming_streams = u.num_incoming_streams
        /\ t.num_incoming_reserved_streams = u.num_incoming_reserved_streams
    BY <2>2 DEF SessionType, Fixed
  <2>8. Calm(u, t)
    BY <2>2, <2>6, <2>7, QueuesSelf, CalmOthers
  <2> QED
    BY <2>2, <2>4, <2>6, <2>8, CalmTwice
<1> QED
  BY <1>1, <1>2

LEMMA SubmitSettings ==
    ASSUME NEW srv \in BOOLEAN, NEW s \in SessionType(srv), NEW f \in SettingsFrames
    PROVE  /\ submit_settings(s, f) \in SessionType(srv)
           /\ Calm(s, submit_settings(s, f))
<1> DEFINE u == Enqueue(s, "ob_urgent", f)
           q == Append(u.inflight_settings, f)
           m == IF f.max = Unchanged THEN u.pending_local_max ELSE f.max
           t == [u EXCEPT !.inflight_settings = q, !.pending_local_max = m]
<1>1. u \in SessionType(srv) /\ Calm(s, u)
  BY UrgentQueued
<1>2. submit_settings(s, f) = t
  BY DEF submit_settings
<1> HIDE DEF u
<1>3. q \in Seq(SettingsFrames) /\ m \in Int
  BY <1>1, FieldTypes DEF SettingsFrames
<1> HIDE DEF q, m
<1>4. t \in SessionType(srv)
  BY <1>1, <1>3 DEF SessionType
<1>5. t.ob_reg = u.ob_reg /\ t.streams = u.streams /\ Fixed(u, t)
      /\ t.num_outgoing_streams = u.num_outgoing_streams
      /\ t.num_incoming_streams = u.num_incoming_streams
      /\ t.num_incoming_reserved_streams = u.num_incoming_reserved_streams
  BY <1>1 DEF SessionType, Fixed
<1> HIDE DEF t
<1>6. Calm(u, t)
  BY <1>1, <1>4, <1>5, QueuesSelf, CalmOthers
<1> QED
  BY <1>1, <1>2, <1>4, <1>6, CalmTwice

-----------------------------------------------------------------------------
(***************************************************************************)
(* The counters.                                                           *)
(***************************************************************************)
Mine(srv, id) == IF srv THEN id % 2 = 0 ELSE id % 2 = 1

LEMMA MineIs ==
    ASSUME NEW srv \in BOOLEAN, NEW s \in SessionType(srv), NEW id \in Nat
    PROVE  is_my_stream_id(s, id) <=> Mine(srv, id)
<1>1. s.server = srv
  BY FieldTypes
<1>2. id % 2 \in {0, 1}
  OBVIOUS
<1>3. CASE srv = TRUE
  BY <1>1, <1>3 DEF Mine, is_my_stream_id
<1>4. CASE srv = FALSE
  BY <1>1, <1>2, <1>4 DEF Mine, is_my_stream_id
<1> QED
  BY <1>3, <1>4

\* A promise counts as reserved until its response: only a reserved stream, or
\* one being reset, has the push flag; its receiver never sends on it; and the
\* client promises nothing.
PushOK(srv, s) ==
    \A id \in StreamIds : Active(s, id) =>
        /\ s.streams[id].state = "RESERVED" => s.streams[id].push
        /\ s.streams[id].push => /\ s.streams[id].state \in {"RESERVED", "CLOSING"}
                                 /\ ~Mine(srv, id) => "WR" \in s.streams[id].shut
                                 /\ ~srv => ~Mine(srv, id)

Sound(srv, s) == s \in SessionType(srv) /\ PushOK(srv, s) /\ CountersMatch(s)

\* No stream begins, and none that is closed or being reset comes back.
Advances(s, t) ==
    /\ Fixed(s, t)
    /\ Queues(s, t)
    /\ \A id \in StreamIds :
         /\ t.streams[id].state = "IDLE" <=> s.streams[id].state = "IDLE"
         /\ s.streams[id].state = "CLOSED" => t.streams[id].state = "CLOSED"
         /\ s.streams[id].state = "CLOSING" => t.streams[id].state \in {"CLOSING", "CLOSED"}

LEMMA AdvancesTwice ==
    ASSUME NEW srv \in BOOLEAN, NEW s \in SessionType(srv), NEW t \in SessionType(srv),
           NEW u \in SessionType(srv), Advances(s, t), Advances(t, u)
    PROVE  Advances(s, u)
<1>1. Queues(s, u)
  BY QueuesTwice DEF Advances
<1>2. Fixed(s, u)
  BY FieldTypes DEF Advances, Fixed
<1> QED
  BY <1>1, <1>2 DEF Advances

LEMMA CalmSound ==
    ASSUME NEW srv \in BOOLEAN, NEW s, Sound(srv, s), NEW t \in SessionType(srv), Calm(s, t)
    PROVE  Sound(srv, t) /\ Advances(s, t)
<1> USE DEF Sound
<1>1. \A id \in StreamIds : /\ Active(t, id) <=> Active(s, id)
                            /\ t.streams[id].push = s.streams[id].push
  BY DEF Calm, Active
<1>2. PushOK(srv, t)
  BY <1>1 DEF Calm, PushOK, Active
<1>3. \A id \in StreamIds : is_my_stream_id(t, id) <=> is_my_stream_id(s, id)
  BY SizeAssumption, MineIs DEF StreamIds
<1>4. /\ {id \in StreamIds : Outgoing(t, id)} = {id \in StreamIds : Outgoing(s, id)}
      /\ {id \in StreamIds : Incoming(t, id)} = {id \in StreamIds : Incoming(s, id)}
      /\ {id \in StreamIds : ReservedRemote(t, id)} = {id \in StreamIds : ReservedRemote(s, id)}
  BY <1>1, <1>3 DEF Outgoing, Incoming, ReservedRemote
<1>5. CountersMatch(t)
  BY <1>4 DEF CountersMatch, Calm
<1>6. Advances(s, t)
  BY DEF Calm, Advances, Active
<1> QED
  BY <1>2, <1>5, <1>6

LEMMA IdsFinite == IsFiniteSet(StreamIds) /\ StreamIds \subseteq Nat
BY SizeAssumption, FS_Interval DEF StreamIds

LEMMA NumberOf ==
    ASSUME NEW X \in SUBSET StreamIds
    PROVE  IsFiniteSet(X) /\ Cardinality(X) \in Nat
BY IdsFinite, FS_Subset, FS_CardinalityType

LEMMA NoStreamType ==
    /\ NoStream \in StreamType /\ NoStream.state = "IDLE" /\ NoStream.shut = {}
    /\ ClosedStream \in StreamType /\ ClosedStream.state = "CLOSED"
<1>1. NoStream \in StreamType /\ NoStream.state = "IDLE" /\ NoStream.shut = {}
  BY DEF NoStream, StreamType, NoItem
<1> QED
  BY <1>1 DEF ClosedStream, StreamType

LEMMA LessOf ==
    ASSUME NEW X \in SUBSET StreamIds, NEW Y \in SUBSET X
    PROVE  Cardinality(X \ Y) = Cardinality(X) - Cardinality(Y)
<1>1. IsFiniteSet(X)
  BY IdsFinite, FS_Subset
<1>2. X \cap Y = Y
  OBVIOUS
<1> QED
  BY <1>1, <1>2, FS_Difference

LEMMA OneMore ==
    ASSUME NEW X \in SUBSET StreamIds, NEW id, id \notin X
    PROVE  Cardinality(X \cup {id}) = Cardinality(X) + 1
BY NumberOf, FS_AddElement

LEMMA OneLess ==
    ASSUME NEW X \in SUBSET StreamIds, NEW id \in X
    PROVE  Cardinality(X \ {id}) = Cardinality(X) - 1
BY NumberOf, FS_RemoveElement

LEMMA CloseStreams ==
    ASSUME NEW srv \in BOOLEAN, NEW s, Sound(srv, s), NEW ids \in SUBSET StreamIds
    PROVE  /\ Sound(srv, close_streams(s, ids)) /\ Advances(s, close_streams(s, ids))
           /\ \A id \in ids : ~Active(close_streams(s, ids), id)
<1> USE DEF Sound
<1> DEFINE S == [id \in StreamIds |-> IF id \in ids /\ Active(s, id)
                                      THEN ClosedStream ELSE s.streams[id]]
           p == Cardinality({id \in ids : ReservedRemote(s, id)})
           o == Cardinality({id \in ids : Outgoing(s, id)})
           i == Cardinality({id \in ids : Incoming(s, id)})
           t == [s EXCEPT !.streams = S,
                          !.num_incoming_reserved_streams = @ - p,
                          !.num_outgoing_streams = @ - o,
                          !.num_incoming_streams = @ - i]
<1>1. close_streams(s, ids) = t
  BY DEF close_streams, SessionType
<1>2. p \in Int /\ o \in Int /\ i \in Int
  <2>1. /\ {id \in ids : ReservedRemote(s, id)} \in SUBSET StreamIds
        /\ {id \in ids : Outgoing(s, id)} \in SUBSET StreamIds
        /\ {id \in ids : Incoming(s, id)} \in SUBSET StreamIds
    OBVIOUS
  <2> QED
    BY <2>1, NumberOf
<1>3. /\ S \in [StreamIds -> StreamType]
      /\ \A id \in StreamIds :
            IF id \in ids /\ Active(s, id) THEN S[id].state = "CLOSED"
                                           ELSE S[id] = s.streams[id]
  <2> QED
    BY NoStreamType, FieldTypes
<1>4. /\ {id \in ids : ReservedRemote(s, id)} \in SUBSET {id \in StreamIds : ReservedRemote(s, id)}
      /\ {id \in ids : Outgoing(s, id)} \in SUBSET {id \in StreamIds : Outgoing(s, id)}
      /\ {id \in ids : Incoming(s, id)} \in SUBSET {id \in StreamIds : Incoming(s, id)}
  OBVIOUS
<1> DEFINE np == s.num_incoming_reserved_streams - p
           no == s.num_outgoing_streams - o
           ni == s.num_incoming_streams - i
<1>5. np \in Int /\ no \in Int /\ ni \in Int
  BY <1>2, FieldTypes
<1>6. /\ np = Cardinality({id \in StreamIds : ReservedRemote(s, id)} \ {id \in ids : ReservedRemote(s, id)})
      /\ no = Cardinality({id \in StreamIds : Outgoing(s, id)} \ {id \in ids : Outgoing(s, id)})
      /\ ni = Cardinality({id \in StreamIds : Incoming(s, id)} \ {id \in ids : Incoming(s, id)})
  BY <1>4, LessOf DEF CountersMatch
<1>7. t = [s EXCEPT !.streams = S, !.num_incoming_reserved_streams = np,
                    !.num_outgoing_streams = no, !.num_incoming_streams = ni]
  OBVIOUS
<1> HIDE DEF S, p, o, i, t, np, no, ni
<1>8. t \in SessionType(srv)
  BY <1>3, <1>5, <1>7 DEF SessionType
<1>9. /\ t.streams = S /\ t.num_incoming_reserved_streams = np
      /\ t.num_outgoing_streams = no /\ t.num_incoming_streams = ni
      /\ t.ob_reg = s.ob_reg /\ Fixed(s, t)
  BY <1>7 DEF SessionType, Fixed
<1>10. \A id \in StreamIds :
          /\ Active(t, id) <=> Active(s, id) /\ id \notin ids
          /\ Active(t, id) => t.streams[id] = s.streams[id]
          /\ is_my_stream_id(t, id) <=> is_my_stream_id(s, id)
  BY <1>3, <1>8, <1>9, IdsFinite, MineIs DEF Active
<1>11. PushOK(srv, t)
  BY <1>10 DEF PushOK
<1>12. /\ {id \in StreamIds : ReservedRemote(t, id)}
             = {id \in StreamIds : ReservedRemote(s, id)} \ {id \in ids : ReservedRemote(s, id)}
       /\ {id \in StreamIds : Outgoing(t, id)}
             = {id \in StreamIds : Outgoing(s, id)} \ {id \in ids : Outgoing(s, id)}
       /\ {id \in StreamIds : Incoming(t, id)}
             = {id \in StreamIds : Incoming(s, id)} \ {id \in ids : Incoming(s, id)}
  BY <1>10 DEF Outgoing, Incoming, ReservedRemote
<1>13. CountersMatch(t)
  BY <1>6, <1>9, <1>12 DEF CountersMatch
<1>14. Queues(s, t)
  BY <1>9, QueuesSelf
<1>15. Advances(s, t)
  BY <1>3, <1>9, <1>14 DEF Advances, Active
<1> QED
  BY <1>1, <1>8, <1>10, <1>11, <1>13, <1>15

LEMMA CloseStream ==
    ASSUME NEW srv \in BOOLEAN, NEW s, Sound(srv, s), NEW id \in StreamIds
    PROVE  /\ Sound(srv, close_stream(s, id)) /\ Advances(s, close_stream(s, id))
           /\ ~Active(close_stream(s, id), id)
BY CloseStreams DEF close_stream

LEMMA Shutdown ==
    ASSUME NEW srv \in BOOLEAN, NEW s, Sound(srv, s), NEW id \in StreamIds,
           NEW dir \in {"RD", "WR"}
    PROVE  /\ Sound(srv, shutdown(s, id, dir)) /\ Advances(s, shutdown(s, id, dir))
<1> USE DEF Sound
<1> DEFINE a == [s.streams[id] EXCEPT !.shut = @ \cup {dir}]
           t == [s EXCEPT !.streams[id].shut = @ \cup {dir}]
<1>1. /\ a \in StreamType /\ a.push = s.streams[id].push
      /\ a.state = s.streams[id].state
      /\ s.streams[id].shut \subseteq a.shut
  BY StreamTypes DEF StreamType
<1>2. t = [s EXCEPT !.streams[id] = a]
  OBVIOUS
<1>3. shutdown(s, id, dir) \in {t, close_stream(t, id)}
  BY DEF shutdown, close_stream_if_shut_rdwr
<1> HIDE DEF a, t
<1>4. t \in SessionType(srv) /\ Calm(s, t)
  BY <1>1, <1>2, StreamChanged
<1>5. Sound(srv, t) /\ Advances(s, t)
  BY <1>4, CalmSound
<1>6. Sound(srv, close_stream(t, id)) /\ Advances(s, close_stream(t, id))
  BY <1>5, CloseStream, AdvancesTwice
<1> QED
  BY <1>3, <1>5, <1>6

\* A stream goes on to another state without changing its counter.
LEMMA StateChanged ==
    ASSUME NEW srv \in BOOLEAN, NEW s, Sound(srv, s), NEW id \in StreamIds,
           Active(s, id), s.streams[id].state # "CLOSING", s.streams[id].push = FALSE,
           NEW a \in StreamType, a.push = FALSE, a.state \in {"OPENING", "OPENED"},
           NEW last \in Nat, srv => last = s.last_sent_stream_id
    PROVE  LET t == [s EXCEPT !.streams[id] = a, !.last_sent_stream_id = last] IN
           Sound(srv, t) /\ Advances(s, t)
<1> USE DEF Sound
<1> DEFINE S == [s.streams EXCEPT ![id] = a]
           t == [s EXCEPT !.streams = S, !.last_sent_stream_id = last]
<1>1. S \in [StreamIds -> StreamType] /\ S[id] = a
      /\ \A j \in StreamIds : j # id => S[j] = s.streams[j]
  BY FieldTypes
<1>2. t = [s EXCEPT !.streams[id] = a, !.last_sent_stream_id = last]
  OBVIOUS
<1> HIDE DEF S
<1>3. t \in SessionType(srv)
  BY <1>1 DEF SessionType
<1>4. t.ob_reg = s.ob_reg /\ t.streams = S /\ Fixed(s, t)
      /\ t.num_outgoing_streams = s.num_outgoing_streams
      /\ t.num_incoming_streams = s.num_incoming_streams
      /\ t.num_incoming_reserved_streams = s.num_incoming_reserved_streams
  BY DEF SessionType, Fixed
<1> HIDE DEF t
<1>5. \A j \in StreamIds : /\ Active(t, j) <=> Active(s, j)
                           /\ t.streams[j].push = s.streams[j].push
                           /\ is_my_stream_id(t, j) <=> is_my_stream_id(s, j)
  BY <1>1, <1>3, <1>4, IdsFinite, MineIs DEF Active
<1>6. PushOK(srv, t)
  BY <1>1, <1>4, <1>5 DEF PushOK
<1>7. /\ {j \in StreamIds : Outgoing(t, j)} = {j \in StreamIds : Outgoing(s, j)}
      /\ {j \in StreamIds : Incoming(t, j)} = {j \in StreamIds : Incoming(s, j)}
      /\ {j \in StreamIds : ReservedRemote(t, j)} = {j \in StreamIds : ReservedRemote(s, j)}
  BY <1>5 DEF Outgoing, Incoming, ReservedRemote
<1>8. CountersMatch(t)
  BY <1>4, <1>7 DEF CountersMatch
<1>9. Advances(s, t)
  BY <1>1, <1>4, QueuesSelf DEF Advances, Active
<1> QED
  BY <1>2, <1>3, <1>6, <1>8, <1>9

\* The response of a promise is sent: the stream counts as outgoing.
LEMMA PromiseSent ==
    ASSUME NEW srv \in BOOLEAN, NEW s, Sound(srv, s), NEW id \in StreamIds,
           Active(s, id), Mine(srv, id), s.streams[id].push = TRUE,
           s.streams[id].state # "CLOSING",
           NEW a \in StreamType, a.push = FALSE, a.state = "OPENED",
           NEW n, n = s.num_outgoing_streams + 1
    PROVE  LET t == [s EXCEPT !.streams[id] = a, !.num_outgoing_streams = n] IN
           Sound(srv, t) /\ Advances(s, t)
<1> USE DEF Sound
<1> DEFINE S == [s.streams EXCEPT ![id] = a]
           t == [s EXCEPT !.streams = S, !.num_outgoing_streams = n]
<1>1. S \in [StreamIds -> StreamType] /\ S[id] = a
      /\ \A j \in StreamIds : j # id => S[j] = s.streams[j]
  BY FieldTypes
<1>2. t = [s EXCEPT !.streams[id] = a, !.num_outgoing_streams = n]
  OBVIOUS
<1> HIDE DEF S
<1>3. t \in SessionType(srv)
  <2>1. n \in Int
    BY FieldTypes
  <2> QED
    BY <1>1, <2>1 DEF SessionType
<1>4. t.ob_reg = s.ob_reg /\ t.streams = S /\ Fixed(s, t)
      /\ t.num_outgoing_streams = n
      /\ t.num_incoming_streams = s.num_incoming_streams
      /\ t.num_incoming_reserved_streams = s.num_incoming_reserved_streams
  BY DEF SessionType, Fixed
<1> HIDE DEF t
<1>5. \A j \in StreamIds : /\ Active(t, j) <=> Active(s, j)
                           /\ j # id => t.streams[j].push = s.streams[j].push
                           /\ is_my_stream_id(t, j) <=> Mine(srv, j)
                           /\ is_my_stream_id(s, j) <=> Mine(srv, j)
  BY <1>1, <1>3, <1>4, IdsFinite, MineIs DEF Active
<1>6. PushOK(srv, t)
  BY <1>1, <1>4, <1>5 DEF PushOK
<1>7. /\ {j \in StreamIds : Outgoing(t, j)} = {j \in StreamIds : Outgoing(s, j)} \cup {id}
      /\ id \notin {j \in StreamIds : Outgoing(s, j)}
      /\ {j \in StreamIds : Incoming(t, j)} = {j \in StreamIds : Incoming(s, j)}
      /\ {j \in StreamIds : ReservedRemote(t, j)} = {j \in StreamIds : ReservedRemote(s, j)}
  BY <1>1, <1>4, <1>5 DEF Outgoing, Incoming, ReservedRemote
<1>8. CountersMatch(t)
  <2>1. {j \in StreamIds : Outgoing(s, j)} \in SUBSET StreamIds
    OBVIOUS
  <2>2. Cardinality({j \in StreamIds : Outgoing(s, j)} \cup {id}) = n
    BY <1>7, <2>1, OneMore DEF CountersMatch
  <2> QED
    BY <1>4, <1>7, <2>2 DEF CountersMatch
<1>9. Advances(s, t)
  BY <1>1, <1>4, QueuesSelf DEF Advances, Active
<1> QED
  BY <1>2, <1>3, <1>6, <1>8, <1>9

\* The response of a promise is received: the stream moves from the counter of
\* promises to that of incoming streams.
LEMMA PromiseReceived ==
    ASSUME NEW srv \in BOOLEAN, NEW s, Sound(srv, s), NEW id \in StreamIds,
           s.streams[id].state = "RESERVED", ~Mine(srv, id),
           NEW a \in StreamType, a.push = FALSE, a.state = "OPENED",
           NEW n, n = s.num_incoming_streams + 1,
           NEW m, m = s.num_incoming_reserved_streams - 1
    PROVE  LET t == [s EXCEPT !.streams[id] = a, !.num_incoming_reserved_streams = m,
                              !.num_incoming_streams = n] IN
           Sound(srv, t) /\ Advances(s, t)
<1> USE DEF Sound
<1> DEFINE S == [s.streams EXCEPT ![id] = a]
           t == [s EXCEPT !.streams = S, !.num_incoming_reserved_streams = m,
                          !.num_incoming_streams = n]
<1>0. Active(s, id) /\ s.streams[id].push = TRUE
  BY StreamTypes DEF Active, PushOK
<1>1. S \in [StreamIds -> StreamType] /\ S[id] = a
      /\ \A j \in StreamIds : j # id => S[j] = s.streams[j]
  BY FieldTypes
<1>2. t = [s EXCEPT !.streams[id] = a, !.num_incoming_reserved_streams = m,
                    !.num_incoming_streams = n]
  OBVIOUS
<1> HIDE DEF S
<1>3. t \in SessionType(srv)
  <2>1. n \in Int /\ m \in Int
    BY FieldTypes
  <2> QED
    BY <1>1, <2>1 DEF SessionType
<1>4. t.ob_reg = s.ob_reg /\ t.streams = S /\ Fixed(s, t)
      /\ t.num_outgoing_streams = s.num_outgoing_streams
      /\ t.num_incoming_streams = n
      /\ t.num_incoming_reserved_streams = m
  BY DEF SessionType, Fixed
<1> HIDE DEF t
<1>5. \A j \in StreamIds : /\ Active(t, j) <=> Active(s, j)
                           /\ j # id => t.streams[j].push = s.streams[j].push
                           /\ is_my_stream_id(t, j) <=> Mine(srv, j)
                           /\ is_my_stream_id(s, j) <=> Mine(srv, j)
  BY <1>0, <1>1, <1>3, <1>4, IdsFinite, MineIs DEF Active
<1>6. PushOK(srv, t)
  BY <1>1, <1>4, <1>5 DEF PushOK
<1>7. /\ {j \in StreamIds : Outgoing(t, j)} = {j \in StreamIds : Outgoing(s, j)}
      /\ {j \in StreamIds : Incoming(t, j)} = {j \in StreamIds : Incoming(s, j)} \cup {id}
      /\ {j \in StreamIds : ReservedRemote(t, j)} = {j \in StreamIds : ReservedRemote(s, j)} \ {id}
      /\ id \notin {j \in StreamIds : Incoming(s, j)}
      /\ id \in {j \in StreamIds : ReservedRemote(s, j)}
  BY <1>0, <1>1, <1>4, <1>5 DEF Outgoing, Incoming, ReservedRemote
<1>8. CountersMatch(t)
  <2>1. /\ {j \in StreamIds : Incoming(s, j)} \in SUBSET StreamIds
        /\ {j \in StreamIds : ReservedRemote(s, j)} \in SUBSET StreamIds
    OBVIOUS
  <2>2. Cardinality({j \in StreamIds : Incoming(s, j)} \cup {id}) = n
    BY <1>7, <2>1, OneMore DEF CountersMatch
  <2>3. Cardinality({j \in StreamIds : ReservedRemote(s, j)} \ {id}) = m
    BY <1>7, <2>1, OneLess DEF CountersMatch
  <2> QED
    BY <1>4, <1>7, <2>2, <2>3 DEF CountersMatch
<1>9. Advances(s, t)
  BY <1>0, <1>1, <1>4, QueuesSelf DEF Advances, Active
<1> QED
  BY <1>2, <1>3, <1>6, <1>8, <1>9

\* A stream opens that there was none of.
LEMMA OpenStream ==
    ASSUME NEW srv \in BOOLEAN, NEW s, Sound(srv, s), NEW id \in StreamIds,
           s.streams[id].state = "IDLE",
           NEW state \in {"INITIAL", "OPENING", "RESERVED"},
           state = "RESERVED" /\ ~srv => ~Mine(srv, id)
    PROVE  LET t == open_stream(s, id, state) IN
           /\ Sound(srv, t) /\ Fixed(s, t) /\ t.ob_reg = s.ob_reg
           /\ t.goaway_flags = s.goaway_flags
           /\ t.streams[id].state = state
           /\ t.streams[id].push <=> state = "RESERVED"
           /\ \A j \in StreamIds : j # id => t.streams[j] = s.streams[j]
<1> USE DEF Sound
<1> DEFINE reserved == state = "RESERVED"
           mine == is_my_stream_id(s, id)
           one(b) == IF b THEN 1 ELSE 0
           a == [NoStream EXCEPT
                   !.state = state,
                   !.push = reserved,
                   !.shut = IF ~reserved THEN {} ELSE IF mine THEN {"RD"} ELSE {"WR"},
                   !.remote_window_size = s.remote_initial_window,
                   !.local_window_size = s.local_initial_window]
           S == [s.streams EXCEPT ![id] = a]
           p == s.num_incoming_reserved_streams + one(reserved /\ ~mine)
           o == s.num_outgoing_streams + one(~reserved /\ mine)
           i == s.num_incoming_streams + one(~reserved /\ ~mine)
           t == [s EXCEPT !.streams = S, !.num_incoming_reserved_streams = p,
                          !.num_outgoing_streams = o, !.num_incoming_streams = i]
<1>1. a \in StreamType /\ a.state = state /\ (a.push <=> reserved)
      /\ (reserved /\ ~mine => "WR" \in a.shut)
  BY FieldTypes, NoStreamType, ZenonT(40) DEF StreamType
<1>2. open_stream(s, id, state) = t
  BY DEF open_stream
<1>3. S \in [StreamIds -> StreamType] /\ S[id] = a
      /\ \A j \in StreamIds : j # id => S[j] = s.streams[j]
  <2> HIDE DEF a
  <2> QED
    BY <1>1, FieldTypes
<1>4. p \in Int /\ o \in Int /\ i \in Int
  BY FieldTypes
<1> HIDE DEF a, S, p, o, i
<1>5. t \in SessionType(srv)
  BY <1>3, <1>4 DEF SessionType
<1>6. t.ob_reg = s.ob_reg /\ t.streams = S /\ Fixed(s, t)
      /\ t.goaway_flags = s.goaway_flags
      /\ t.num_outgoing_streams = o
      /\ t.num_incoming_streams = i
      /\ t.num_incoming_reserved_streams = p
  BY DEF SessionType, Fixed
<1> HIDE DEF t
<1>7. /\ \A j \in StreamIds : /\ j # id => (Active(t, j) <=> Active(s, j))
                              /\ j # id => t.streams[j] = s.streams[j]
                              /\ is_my_stream_id(t, j) <=> Mine(srv, j)
                              /\ is_my_stream_id(s, j) <=> Mine(srv, j)
      /\ Active(t, id) /\ ~Active(s, id)
  BY <1>1, <1>3, <1>5, <1>6, IdsFinite, MineIs DEF Active
<1>8. PushOK(srv, t)
  BY <1>1, <1>3, <1>6, <1>7 DEF PushOK
<1> DEFINE X == {j \in StreamIds : Outgoing(s, j)}
           Y == {j \in StreamIds : Incoming(s, j)}
           Z == {j \in StreamIds : ReservedRemote(s, j)}
<1>9. /\ {j \in StreamIds : Outgoing(t, j)} = IF ~reserved /\ mine THEN X \cup {id} ELSE X
      /\ {j \in StreamIds : Incoming(t, j)} = IF ~reserved /\ ~mine THEN Y \cup {id} ELSE Y
      /\ {j \in StreamIds : ReservedRemote(t, j)} = IF reserved /\ ~mine THEN Z \cup {id} ELSE Z
      /\ id \notin X /\ id \notin Y /\ id \notin Z
  BY <1>1, <1>3, <1>6, <1>7 DEF Outgoing, Incoming, ReservedRemote
<1>10. CountersMatch(t)
  <2>1. X \in SUBSET StreamIds /\ Y \in SUBSET StreamIds /\ Z \in SUBSET StreamIds
    OBVIOUS
  <2>2. Cardinality(X) = s.num_outgoing_streams /\ Cardinality(Y) = s.num_incoming_streams
        /\ Cardinality(Z) = s.num_incoming_reserved_streams
    BY DEF CountersMatch
  <2> HIDE DEF X, Y, Z
  <2>3. /\ Cardinality(X \cup {id}) = s.num_outgoing_streams + 1
        /\ Cardinality(Y \cup {id}) = s.num_incoming_streams + 1
        /\ Cardinality(Z \cup {id}) = s.num_incoming_reserved_streams + 1
    BY <1>9, <2>1, <2>2, OneMore
  <2> HIDE DEF mine, reserved
  <2>4. /\ o = IF ~reserved /\ mine THEN s.num_outgoing_streams + 1 ELSE s.num_outgoing_streams
        /\ i = IF ~reserved /\ ~mine THEN s.num_incoming_streams + 1 ELSE s.num_incoming_streams
        /\ p = IF reserved /\ ~mine THEN s.num_incoming_reserved_streams + 1
                                    ELSE s.num_incoming_reserved_streams
    BY FieldTypes DEF p, o, i
  <2>5. /\ o = Cardinality({j \in StreamIds : Outgoing(t, j)})
        /\ i = Cardinality({j \in StreamIds : Incoming(t, j)})
        /\ p = Cardinality({j \in StreamIds : ReservedRemote(t, j)})
    BY <1>9, <2>2, <2>3, <2>4
  <2> QED
    BY <1>6, <2>5 DEF CountersMatch
<1> QED
  BY <1>1, <1>2, <1>3, <1>5, <1>6, <1>7, <1>8, <1>10

-----------------------------------------------------------------------------
(***************************************************************************)
(* What a session knows of stream ids.                                     *)
(***************************************************************************)
\* The promises of a queue are in the order of their ids, above the last one
\* that was sent and below the next to be given out.
InOrder(q, last, next) ==
    /\ last < next
    /\ \A i \in 1 .. Len(q) : q[i].type = "PUSH_PROMISE" =>
         /\ last < q[i].promised
         /\ q[i].promised < next
         /\ \A j \in i + 1 .. Len(q) :
              q[j].type = "PUSH_PROMISE" => q[i].promised < q[j].promised

\* Ids not yet given out, or not yet seen from the peer, have no stream; nor
\* have the requests that are still queued, each of which has an id of its own.
Fresh(srv, s) ==
    /\ Mine(srv, s.next_stream_id)
    /\ \A id \in StreamIds :
         /\ Mine(srv, id) /\ s.next_stream_id <= id => s.streams[id].state = "IDLE"
         /\ ~Mine(srv, id) /\ s.last_recv_stream_id < id => s.streams[id].state = "IDLE"
    /\ ~srv => \A i \in 1 .. Len(s.ob_reg) : s.ob_reg[i].type = "HEADERS" =>
         /\ s.ob_reg[i].id < s.next_stream_id
         /\ s.streams[s.ob_reg[i].id].state = "IDLE"
         /\ \A j \in i + 1 .. Len(s.ob_reg) :
              s.ob_reg[j].type = "HEADERS" => s.ob_reg[j].id # s.ob_reg[i].id
    /\ srv => InOrder(s.ob_reg, s.last_sent_stream_id, s.next_stream_id)

\* What a GOAWAY frame of a session says, and when it may be under way.
GoawayOK(s, f) ==
    f.type = "GOAWAY" => /\ s.last_proc_stream_id <= f.last
                         /\ "TERM_ON_SEND" \in s.goaway_flags

\* The streams the application has seen are up to last_proc_stream_id, which
\* no GOAWAY falls short of.
Covered(srv, s) ==
    /\ \A id \in StreamIds :
         ~Mine(srv, id) /\ s.streams[id].state # "IDLE" => id <= s.last_proc_stream_id
    /\ s.last_proc_stream_id <= s.last_recv_stream_id
    /\ s.last_proc_stream_id <= MaxStreamId
    /\ "TERM_ON_SEND" \notin s.goaway_flags => s.local_last_stream_id = Unlimited
    /\ \A i \in 1 .. Len(s.ob_reg) : GoawayOK(s, s.ob_reg[i])

SessionInv(srv, s) == Sound(srv, s) /\ Fresh(srv, s) /\ Covered(srv, s)

\* A step of a session: what has ended stays ended, and once a GOAWAY may be
\* under way nothing more is processed.
Later(s, t) ==
    /\ \A id \in StreamIds :
         /\ s.streams[id].state = "CLOSED" => t.streams[id].state = "CLOSED"
         /\ s.streams[id].state = "CLOSING" => t.streams[id].state \in {"CLOSING", "CLOSED"}
    /\ s.goaway_flags \subseteq t.goaway_flags
    /\ "TERM_ON_SEND" \in s.goaway_flags => t.last_proc_stream_id = s.last_proc_stream_id
    /\ s.server => t.server /\ s.last_sent_stream_id <= t.last_sent_stream_id

LEMMA PromiseIds ==
    ASSUME NEW srv \in BOOLEAN, NEW q \in Seq(Regular(srv)), NEW i \in 1 .. Len(q),
           q[i].type = "PUSH_PROMISE"
    PROVE  q[i].promised \in Nat
<1>1. q[i] \in Regular(srv)
  OBVIOUS
<1>2. q[i] \in Promises
  BY <1>1 DEF Regular, Responses, Requests, Updates, Goaways
<1> QED
  BY <1>2, IdsFinite DEF Promises

LEMMA InOrderExtends ==
    ASSUME NEW q, NEW r, Len(q) \in Nat, Len(r) \in Nat, Extends(q, r),
           NEW l, NEW n, InOrder(q, l, n)
    PROVE  InOrder(r, l, n)
<1>1. \A i \in 1 .. Len(r) : r[i].type = "PUSH_PROMISE" => i \in 1 .. Len(q) /\ r[i] = q[i]
  BY DEF Extends, Beginning
<1>2. ASSUME NEW i \in 1 .. Len(r), r[i].type = "PUSH_PROMISE",
             NEW j \in i + 1 .. Len(r), r[j].type = "PUSH_PROMISE"
      PROVE  r[i].promised < r[j].promised
  <2>1. j \in 1 .. Len(r)
    OBVIOUS
  <2>2. i \in 1 .. Len(q) /\ r[i] = q[i] /\ j \in 1 .. Len(q) /\ r[j] = q[j]
    BY <1>1, <1>2, <2>1
  <2>3. j \in i + 1 .. Len(q)
    BY <2>2
  <2> QED
    BY <1>2, <2>2, <2>3 DEF InOrder
<1> QED
  BY <1>1, <1>2 DEF InOrder

\* One frame is queued: nothing that begins a stream of this side, or the next
\* promise.
LEMMA InOrderAppend ==
    ASSUME NEW srv \in BOOLEAN, NEW q \in Seq(Regular(srv)), NEW f \in Regular(srv),
           NEW l, NEW n \in Nat, NEW m \in Nat, n <= m, InOrder(q, l, n), l \in Nat,
           f.type = "PUSH_PROMISE" => f.promised = n /\ n < m
    PROVE  InOrder(Append(q, f), l, m)
<1> DEFINE r == Append(q, f)
<1>1. /\ Len(r) = Len(q) + 1 /\ Len(q) \in Nat /\ r[Len(q) + 1] = f
      /\ \A i \in 1 .. Len(q) : r[i] = q[i]
  OBVIOUS
<1> HIDE DEF r
<1>2. l < m
  BY DEF InOrder
<1>3. ASSUME NEW i \in 1 .. Len(r), r[i].type = "PUSH_PROMISE"
      PROVE  l < r[i].promised /\ r[i].promised < m
  <2>1. CASE i \in 1 .. Len(q)
    <3>1. l < q[i].promised /\ q[i].promised < n /\ q[i].promised \in Nat
      BY <1>1, <1>3, <2>1, PromiseIds DEF InOrder
    <3> QED
      BY <1>1, <2>1, <3>1
  <2>2. CASE i = Len(q) + 1
    BY <1>1, <1>3, <2>2 DEF InOrder
  <2> QED
    BY <1>1, <2>1, <2>2
<1>4. ASSUME NEW i \in 1 .. Len(r), r[i].type = "PUSH_PROMISE",
             NEW j \in i + 1 .. Len(r), r[j].type = "PUSH_PROMISE"
      PROVE  r[i].promised < r[j].promised
  <2>1. i \in 1 .. Len(q)
    BY <1>1
  <2>2. CASE j \in i + 1 .. Len(q)
    <3>1. j \in 1 .. Len(q)
      BY <2>1, <2>2
    <3> QED
      BY <1>1, <1>4, <2>1, <2>2, <3>1 DEF InOrder
  <2>3. CASE j = Len(q) + 1
    BY <1>1, <1>4, <2>1, <2>3 DEF InOrder
  <2> QED
    BY <1>1, <2>1, <2>2, <2>3
<1> QED
  BY <1>2, <1>3, <1>4 DEF InOrder, r

LEMMA InOrderUpTo ==
    ASSUME NEW srv \in BOOLEAN, NEW q \in Seq(Regular(srv)), NEW l \in Nat, NEW n \in Nat,
           NEW m \in Nat, n <= m, InOrder(q, l, n)
    PROVE  InOrder(q, l, m)
<1>1. l < m
  BY DEF InOrder
<1>2. ASSUME NEW i \in 1 .. Len(q), q[i].type = "PUSH_PROMISE" PROVE q[i].promised < m
  <2>1. q[i].promised < n /\ q[i].promised \in Nat
    BY <1>2, PromiseIds DEF InOrder
  <2> QED
    BY <2>1
<1> QED
  BY <1>1, <1>2 DEF InOrder

LEMMA InOrderTail ==
    ASSUME NEW srv \in BOOLEAN, NEW q \in Seq(Regular(srv)), q # <<>>,
           NEW l, NEW n, InOrder(q, l, n)
    PROVE  /\ InOrder(Tail(q), l, n)
           /\ Head(q).type = "PUSH_PROMISE" =>
                l < Head(q).promised /\ InOrder(Tail(q), Head(q).promised, n)
<1> DEFINE r == Tail(q)
           f == Head(q)
<1>1. /\ Len(r) = Len(q) - 1 /\ Len(q) \in Nat \ {0} /\ f = q[1]
      /\ \A i \in 1 .. Len(r) : r[i] = q[i + 1]
  OBVIOUS
<1> HIDE DEF r, f
<1>2. \A i \in 1 .. Len(r) : i + 1 \in 1 .. Len(q) /\ i + 1 \in 1 + 1 .. Len(q)
  BY <1>1
<1>3. ASSUME NEW i \in 1 .. Len(r), r[i].type = "PUSH_PROMISE",
             NEW j \in i + 1 .. Len(r), r[j].type = "PUSH_PROMISE"
      PROVE  r[i].promised < r[j].promised
  <2>1. j \in 1 .. Len(r) /\ j + 1 \in (i + 1) + 1 .. Len(q)
    BY <1>1
  <2> QED
    BY <1>1, <1>2, <1>3, <2>1 DEF InOrder
<1>4. InOrder(r, l, n)
  BY <1>1, <1>2, <1>3 DEF InOrder
<1>5. ASSUME f.type = "PUSH_PROMISE" PROVE l < f.promised /\ InOrder(r, f.promised, n)
  <2>1. 1 \in 1 .. Len(q)
    BY <1>1
  <2>2. l < f.promised /\ f.promised < n
    BY <1>1, <1>5, <2>1 DEF InOrder
  <2>3. ASSUME NEW i \in 1 .. Len(r), r[i].type = "PUSH_PROMISE" PROVE f.promised < r[i].promised
    BY <1>1, <1>2, <1>5, <2>1, <2>3 DEF InOrder
  <2> QED
    BY <1>4, <2>2, <2>3 DEF InOrder
<1> QED
  BY <1>4, <1>5 DEF r, f

LEMMA AdvancesInv ==
    ASSUME NEW srv \in BOOLEAN, NEW s, SessionInv(srv, s), NEW t, Sound(srv, t),
           Advances(s, t)
    PROVE  SessionInv(srv, t) /\ Later(s, t)
<1>0. s \in SessionType(srv) /\ t \in SessionType(srv)
  BY DEF SessionInv, Sound
<1>1. Len(s.ob_reg) \in Nat /\ Len(t.ob_reg) \in Nat
  BY <1>0, FieldTypes
<1>2. Later(s, t)
  <2>1. s.last_sent_stream_id \in Nat /\ t.server = s.server
    BY <1>0, FieldTypes
  <2> QED
    BY <2>1 DEF Advances, Fixed, Later
<1>3. \A i \in 1 .. Len(t.ob_reg) :
        \/ i \in 1 .. Len(s.ob_reg) /\ t.ob_reg[i] = s.ob_reg[i]
        \/ i \in Len(s.ob_reg) + 1 .. Len(t.ob_reg) /\ t.ob_reg[i].type # "HEADERS"
  BY <1>1 DEF Advances, Queues, Extends, Beginning
<1>4. Fresh(srv, t)
  <2>1. /\ Mine(srv, t.next_stream_id)
        /\ \A id \in StreamIds :
             /\ Mine(srv, id) /\ t.next_stream_id <= id => t.streams[id].state = "IDLE"
             /\ ~Mine(srv, id) /\ t.last_recv_stream_id < id => t.streams[id].state = "IDLE"
    BY DEF SessionInv, Fresh, Advances, Fixed
  <2>2. ASSUME ~srv, NEW i \in 1 .. Len(t.ob_reg), t.ob_reg[i].type = "HEADERS"
        PROVE  /\ t.ob_reg[i].id < t.next_stream_id
               /\ t.streams[t.ob_reg[i].id].state = "IDLE"
               /\ \A j \in i + 1 .. Len(t.ob_reg) :
                    t.ob_reg[j].type = "HEADERS" => t.ob_reg[j].id # t.ob_reg[i].id
    <3>1. i \in 1 .. Len(s.ob_reg) /\ t.ob_reg[i] = s.ob_reg[i]
      BY <1>3, <2>2
    <3>2. t.ob_reg[i] \in Requests
      <4>1. t.ob_reg[i] \in Regular(srv)
        BY <1>0, <1>1, FieldTypes
      <4> QED
        BY <2>2, <4>1 DEF Regular, Updates, Goaways
    <3>3. \A j \in i + 1 .. Len(t.ob_reg) : t.ob_reg[j].type = "HEADERS" =>
             j \in i + 1 .. Len(s.ob_reg) /\ t.ob_reg[j] = s.ob_reg[j]
      BY <1>1, <1>3
    <3> QED
      BY <2>2, <3>1, <3>2, <3>3 DEF SessionInv, Fresh, Advances, Fixed, Requests
  <2>3. ASSUME srv PROVE InOrder(t.ob_reg, t.last_sent_stream_id, t.next_stream_id)
    <3>1. InOrder(s.ob_reg, s.last_sent_stream_id, s.next_stream_id)
      BY <2>3 DEF SessionInv, Fresh
    <3>2. InOrder(t.ob_reg, s.last_sent_stream_id, s.next_stream_id)
      BY <1>1, <3>1, InOrderExtends DEF Advances, Queues
    <3>3. s.server = srv
      BY <1>0, FieldTypes
    <3> QED
      BY <2>3, <3>2, <3>3 DEF Advances, Fixed
  <2> QED
    BY <2>1, <2>2, <2>3 DEF Fresh
<1>5. Covered(srv, t)
  <2>1. ASSUME NEW i \in 1 .. Len(t.ob_reg) PROVE GoawayOK(t, t.ob_reg[i])
    <3>1. CASE i \in 1 .. Len(s.ob_reg) /\ t.ob_reg[i] = s.ob_reg[i]
      BY <3>1 DEF SessionInv, Covered, GoawayOK, Advances, Fixed
    <3>2. CASE i \in Len(s.ob_reg) + 1 .. Len(t.ob_reg) /\ t.ob_reg[i].type = "GOAWAY"
      <4>1. /\ t.ob_reg[i].last = Min2(s.last_proc_stream_id, s.local_last_stream_id)
            /\ "TERM_ON_SEND" \in t.goaway_flags \ s.goaway_flags
        BY <3>2 DEF Advances, Queues, NewGoaways
      <4>2. /\ s.local_last_stream_id = MaxStreamId + 1
            /\ s.last_proc_stream_id <= MaxStreamId
            /\ t.last_proc_stream_id = s.last_proc_stream_id
        BY <4>1 DEF SessionInv, Covered, Unlimited, Advances, Fixed
      <4>3. s.last_proc_stream_id \in Nat
        BY <1>0, FieldTypes
      <4> QED
        BY <4>1, <4>2, <4>3, SizeAssumption DEF Min2, GoawayOK
    <3> QED
      BY <1>3, <3>1, <3>2 DEF GoawayOK
  <2> QED
    BY <2>1 DEF SessionInv, Covered, Advances, Fixed
<1> QED
  BY <1>2, <1>4, <1>5 DEF SessionInv

LEMMA CalmInv ==
    ASSUME NEW srv \in BOOLEAN, NEW s, SessionInv(srv, s), NEW t \in SessionType(srv),
           Calm(s, t)
    PROVE  SessionInv(srv, t) /\ Later(s, t)
BY CalmSound, AdvancesInv DEF SessionInv

LEMMA LaterTwice ==
    ASSUME NEW srv \in BOOLEAN, NEW s \in SessionType(srv), NEW t \in SessionType(srv),
           NEW u \in SessionType(srv), Later(s, t), Later(t, u)
    PROVE  Later(s, u)
<1>1. s.last_sent_stream_id \in Nat /\ t.last_sent_stream_id \in Nat
      /\ u.last_sent_stream_id \in Nat
  BY FieldTypes
<1> QED
  BY <1>1 DEF Later

-----------------------------------------------------------------------------
(***************************************************************************)
(* Receiving.                                                              *)
(***************************************************************************)
\* A stream of the peer begins, the last one processed so far.
LEMMA PeerStream ==
    ASSUME NEW srv \in BOOLEAN, NEW s, SessionInv(srv, s), NEW id \in StreamIds,
           ~Mine(srv, id), s.last_recv_stream_id < id, allow_incoming_new_stream(s),
           NEW state \in {"OPENING", "RESERVED"}
    PROVE  LET t == [open_stream([s EXCEPT !.last_recv_stream_id = id], id, state)
                       EXCEPT !.last_proc_stream_id = id] IN
           SessionInv(srv, t) /\ Later(s, t)
<1> DEFINE r == [s EXCEPT !.last_recv_stream_id = id]
           u == open_stream(r, id, state)
           t == [u EXCEPT !.last_proc_stream_id = id]
<1>1. id \in Nat /\ id <= MaxStreamId /\ s \in SessionType(srv)
  BY IdsFinite, SizeAssumption DEF StreamIds, SessionInv, Sound
<1>2. r \in SessionType(srv)
  BY <1>1 DEF SessionType
<1>3. /\ r.streams = s.streams /\ r.ob_reg = s.ob_reg /\ r.goaway_flags = s.goaway_flags
      /\ r.next_stream_id = s.next_stream_id /\ r.last_recv_stream_id = id
      /\ r.last_sent_stream_id = s.last_sent_stream_id
      /\ r.local_last_stream_id = s.local_last_stream_id
      /\ r.num_outgoing_streams = s.num_outgoing_streams
      /\ r.num_incoming_streams = s.num_incoming_streams
      /\ r.num_incoming_reserved_streams = s.num_incoming_reserved_streams
      /\ r.server = s.server
  BY <1>1 DEF SessionType
<1> HIDE DEF r
<1>4. Sound(srv, r)
  <2>1. \A j \in StreamIds : /\ Active(r, j) <=> Active(s, j)
                             /\ is_my_stream_id(r, j) <=> is_my_stream_id(s, j)
    BY <1>3 DEF Active, is_my_stream_id
  <2>2. PushOK(srv, r)
    BY <1>3, <2>1 DEF PushOK, SessionInv, Sound
  <2>3. /\ {j \in StreamIds : Outgoing(r, j)} = {j \in StreamIds : Outgoing(s, j)}
        /\ {j \in StreamIds : Incoming(r, j)} = {j \in StreamIds : Incoming(s, j)}
        /\ {j \in StreamIds : ReservedRemote(r, j)} = {j \in StreamIds : ReservedRemote(s, j)}
    BY <1>3, <2>1 DEF Outgoing, Incoming, ReservedRemote
  <2> QED
    BY <1>2, <1>3, <2>2, <2>3 DEF CountersMatch, SessionInv, Sound
<1>5. s.streams[id].state = "IDLE"
  BY DEF SessionInv, Fresh
<1>6. /\ Sound(srv, u) /\ Fixed(r, u) /\ u.ob_reg = r.ob_reg
      /\ u.goaway_flags = r.goaway_flags
      /\ \A j \in StreamIds : j # id => u.streams[j] = r.streams[j]
      /\ u.streams[id].state = state
  BY <1>3, <1>4, <1>5, OpenStream
<1> HIDE DEF u
<1>7. t \in SessionType(srv)
  BY <1>1, <1>6 DEF Sound, SessionType
<1>8. /\ t.streams = u.streams /\ t.ob_reg = s.ob_reg /\ t.goaway_flags = s.goaway_flags
      /\ t.next_stream_id = s.next_stream_id /\ t.last_recv_stream_id = id
      /\ t.last_proc_stream_id = id
      /\ s.server => t.last_sent_stream_id = s.last_sent_stream_id
      /\ t.local_last_stream_id = s.local_last_stream_id
      /\ t.num_outgoing_streams = u.num_outgoing_streams
      /\ t.num_incoming_streams = u.num_incoming_streams
      /\ t.num_incoming_reserved_streams = u.num_incoming_reserved_streams
      /\ t.server = u.server
  BY <1>3, <1>6 DEF Sound, SessionType, Fixed
<1> HIDE DEF t
<1>9. Sound(srv, t)
  <2>1. \A j \in StreamIds : /\ Active(t, j) <=> Active(u, j)
                             /\ is_my_stream_id(t, j) <=> is_my_stream_id(u, j)
    BY <1>8 DEF Active, is_my_stream_id
  <2>2. PushOK(srv, t)
    BY <1>6, <1>8, <2>1 DEF PushOK, Sound
  <2>3. /\ {j \in StreamIds : Outgoing(t, j)} = {j \in StreamIds : Outgoing(u, j)}
        /\ {j \in StreamIds : Incoming(t, j)} = {j \in StreamIds : Incoming(u, j)}
        /\ {j \in StreamIds : ReservedRemote(t, j)} = {j \in StreamIds : ReservedRemote(u, j)}
    BY <1>8, <2>1 DEF Outgoing, Incoming, ReservedRemote
  <2> QED
    BY <1>6, <1>7, <1>8, <2>2, <2>3 DEF CountersMatch, Sound
<1>10. \A j \in StreamIds : j # id => t.streams[j] = s.streams[j]
  BY <1>3, <1>6, <1>8
<1>11. "TERM_ON_SEND" \notin s.goaway_flags
  BY DEF allow_incoming_new_stream
<1>12. Later(s, t)
  <2>1. s.last_sent_stream_id \in Nat /\ t.server = s.server
    BY <1>1, <1>7, FieldTypes DEF t
  <2> QED
    BY <1>5, <1>8, <1>10, <1>11, <2>1 DEF Later
<1>13. Fresh(srv, t)
  <2>1. ASSUME NEW i \in 1 .. Len(s.ob_reg), ~srv, s.ob_reg[i].type = "HEADERS"
        PROVE  s.ob_reg[i].id \in StreamIds \ {id}
    <3>1. s.ob_reg[i] \in Regular(srv)
      BY <1>1, FieldTypes
    <3>2. s.ob_reg[i].id \in StreamIds /\ s.ob_reg[i].id % 2 = 1
      BY <2>1, <3>1 DEF Regular, Requests, Updates, Goaways
    <3> QED
      BY <2>1, <3>2 DEF Mine
  <2>2. s.last_recv_stream_id \in Nat /\ StreamIds \subseteq Nat
    BY <1>1, FieldTypes, IdsFinite
  <2>3. Mine(srv, t.next_stream_id)
    BY <1>8 DEF Fresh, SessionInv
  <2>4. ASSUME NEW j \in StreamIds, Mine(srv, j), t.next_stream_id <= j
        PROVE  t.streams[j].state = "IDLE"
    <3>1. j # id
      BY <2>4
    <3> QED
      BY <1>8, <1>10, <2>4, <3>1 DEF Fresh, SessionInv
  <2>5. ASSUME NEW j \in StreamIds, ~Mine(srv, j), t.last_recv_stream_id < j
        PROVE  t.streams[j].state = "IDLE"
    <3>1. j # id /\ s.last_recv_stream_id < j
      BY <1>1, <1>8, <2>2, <2>5
    <3> QED
      BY <1>10, <2>5, <3>1 DEF Fresh, SessionInv
  <2>6. ASSUME ~srv, NEW i \in 1 .. Len(s.ob_reg), s.ob_reg[i].type = "HEADERS"
        PROVE  t.streams[s.ob_reg[i].id].state = "IDLE"
    BY <1>10, <2>1, <2>6 DEF Fresh, SessionInv
  <2>7. t.ob_reg = s.ob_reg /\ t.next_stream_id = s.next_stream_id
    BY <1>8
  <2>8. srv => InOrder(t.ob_reg, t.last_sent_stream_id, t.next_stream_id)
    BY <1>1, <1>8, FieldTypes DEF Fresh, SessionInv
  <2> QED
    BY <2>3, <2>4, <2>5, <2>6, <2>7, <2>8 DEF Fresh, SessionInv
<1>14. Covered(srv, t)
  <2>1. s.last_proc_stream_id \in Nat /\ s.last_recv_stream_id \in Nat
        /\ StreamIds \subseteq Nat
    BY <1>1, FieldTypes, IdsFinite
  <2>2. \A i \in 1 .. Len(s.ob_reg) : s.ob_reg[i].type # "GOAWAY"
    BY <1>11 DEF SessionInv, Covered, GoawayOK
  <2>3. ASSUME NEW j \in StreamIds, ~Mine(srv, j), t.streams[j].state # "IDLE"
        PROVE  j <= id
    BY <1>1, <1>10, <2>1, <2>3 DEF SessionInv, Covered
  <2> QED
    BY <1>1, <1>8, <2>1, <2>2, <2>3 DEF SessionInv, Covered, GoawayOK
<1>15. SessionInv(srv, t)
  BY <1>9, <1>13, <1>14 DEF SessionInv
<1> QED
  BY <1>12, <1>15 DEF t, u, r

\* A stream of the peer is seen and refused, or not looked at.
LEMMA PeerStreamSeen ==
    ASSUME NEW srv \in BOOLEAN, NEW s, SessionInv(srv, s), NEW id \in StreamIds,
           s.last_recv_stream_id < id
    PROVE  LET t == [s EXCEPT !.last_recv_stream_id = id] IN
           SessionInv(srv, t) /\ Later(s, t)
<1> DEFINE t == [s EXCEPT !.last_recv_stream_id = id]
<1>1. id \in Nat /\ s \in SessionType(srv) /\ StreamIds \subseteq Nat
  BY IdsFinite DEF SessionInv, Sound
<1>2. t \in SessionType(srv)
  BY <1>1 DEF SessionType
<1>3. /\ t.streams = s.streams /\ t.ob_reg = s.ob_reg /\ t.goaway_flags = s.goaway_flags
      /\ t.next_stream_id = s.next_stream_id /\ t.last_recv_stream_id = id
      /\ t.last_sent_stream_id = s.last_sent_stream_id
      /\ t.last_proc_stream_id = s.last_proc_stream_id
      /\ t.local_last_stream_id = s.local_last_stream_id
      /\ t.num_outgoing_streams = s.num_outgoing_streams
      /\ t.num_incoming_streams = s.num_incoming_streams
      /\ t.num_incoming_reserved_streams = s.num_incoming_reserved_streams
      /\ t.server = s.server
  BY <1>1 DEF SessionType
<1> HIDE DEF t
<1>4. Sound(srv, t)
  <2>1. \A j \in StreamIds : /\ Active(t, j) <=> Active(s, j)
                             /\ is_my_stream_id(t, j) <=> is_my_stream_id(s, j)
    BY <1>3 DEF Active, is_my_stream_id
  <2>2. PushOK(srv, t)
    BY <1>3, <2>1 DEF PushOK, SessionInv, Sound
  <2>3. /\ {j \in StreamIds : Outgoing(t, j)} = {j \in StreamIds : Outgoing(s, j)}
        /\ {j \in StreamIds : Incoming(t, j)} = {j \in StreamIds : Incoming(s, j)}
        /\ {j \in StreamIds : ReservedRemote(t, j)} = {j \in StreamIds : ReservedRemote(s, j)}
    BY <1>3, <2>1 DEF Outgoing, Incoming, ReservedRemote
  <2> QED
    BY <1>2, <1>3, <2>2, <2>3 DEF CountersMatch, SessionInv, Sound
<1>5. s.last_proc_stream_id \in Nat /\ s.last_recv_stream_id \in Nat
  BY <1>1, FieldTypes
<1>6. Fresh(srv, t)
  BY <1>1, <1>3, <1>5 DEF SessionInv, Fresh
<1>7. Covered(srv, t)
  <2>1. s.last_proc_stream_id <= s.last_recv_stream_id
    BY DEF SessionInv, Covered
  <2>2. t.last_proc_stream_id <= t.last_recv_stream_id
    BY <1>1, <1>3, <1>5, <2>1
  <2>3. \A i \in 1 .. Len(t.ob_reg) : GoawayOK(t, t.ob_reg[i])
    BY <1>3 DEF SessionInv, Covered, GoawayOK
  <2> QED
    BY <1>3, <2>2, <2>3 DEF SessionInv, Covered
<1>8. Later(s, t)
  BY <1>1, <1>3, FieldTypes DEF Later
<1>9. SessionInv(srv, t)
  BY <1>4, <1>6, <1>7 DEF SessionInv
<1> QED
  BY <1>8, <1>9 DEF t

\* A step of a session that keeps its invariant.
Moves(srv, s, t) == SessionInv(srv, t) /\ Later(s, t)

LEMMA MovesTwice ==
    ASSUME NEW srv \in BOOLEAN, NEW s, SessionInv(srv, s), NEW t, Moves(srv, s, t),
           NEW u, Moves(srv, t, u)
    PROVE  Moves(srv, s, u)
BY LaterTwice DEF Moves, SessionInv, Sound

LEMMA MovesSelf ==
    ASSUME NEW srv \in BOOLEAN, NEW s, SessionInv(srv, s)
    PROVE  Moves(srv, s, s)
BY FieldTypes DEF Moves, Later, SessionInv, Sound

LEMMA CalmMoves ==
    ASSUME NEW srv \in BOOLEAN, NEW s, SessionInv(srv, s), NEW t \in SessionType(srv),
           Calm(s, t)
    PROVE  Moves(srv, s, t)
BY CalmInv DEF Moves

LEMMA AdvancesMoves ==
    ASSUME NEW srv \in BOOLEAN, NEW s, SessionInv(srv, s), NEW t, Sound(srv, t),
           Advances(s, t)
    PROVE  Moves(srv, s, t)
BY AdvancesInv DEF Moves

\* What several handlers end with.
LEMMA EndsMove ==
    ASSUME NEW srv \in BOOLEAN, NEW s, SessionInv(srv, s), NEW id \in StreamIds,
           NEW dir \in {"RD", "WR"}
    PROVE  /\ Moves(srv, s, terminate_session(s))
           /\ Moves(srv, s, add_rst_stream(s, id))
           /\ Moves(srv, s, close_stream(s, id))
           /\ Moves(srv, s, shutdown(s, id, dir))
<1>1. s \in SessionType(srv) /\ Sound(srv, s)
  BY DEF SessionInv, Sound
<1>2. Moves(srv, s, terminate_session(s))
  BY <1>1, Terminate, CalmMoves
<1>3. Moves(srv, s, add_rst_stream(s, id))
  BY <1>1, AddRst, CalmMoves
<1>4. Moves(srv, s, close_stream(s, id))
  BY <1>1, CloseStream, AdvancesMoves
<1>5. Moves(srv, s, shutdown(s, id, dir))
  BY <1>1, Shutdown, AdvancesMoves
<1> QED
  BY <1>2, <1>3, <1>4, <1>5

LEMMA RequestReceived ==
    ASSUME NEW srv \in BOOLEAN, NEW s, SessionInv(srv, s), NEW f, f.id \in StreamIds,
           srv => ~Mine(srv, f.id)
    PROVE  Moves(srv, s, on_request_headers_received(s, f))
<1> DEFINE id == f.id
           t == [s EXCEPT !.last_recv_stream_id = id]
           u == [open_stream(t, id, "OPENING") EXCEPT !.last_proc_stream_id = id]
<1>1. s.server = srv /\ s.last_recv_stream_id \in Nat /\ id \in Nat
  BY FieldTypes, IdsFinite DEF SessionInv, Sound
<1>2. CASE ~srv
  BY <1>1, <1>2, EndsMove, MovesSelf DEF on_request_headers_received
<1>3. CASE srv /\ ~is_new_peer_stream_id(s, id)
  BY <1>1, <1>3, EndsMove, MovesSelf DEF on_request_headers_received
<1>4. CASE srv /\ is_new_peer_stream_id(s, id)
  <2>0. s.last_recv_stream_id < id
    BY <1>4 DEF is_new_peer_stream_id
  <2>1. Moves(srv, s, t)
    BY <1>4, <2>0, PeerStreamSeen DEF Moves
  <2>2. SessionInv(srv, t)
    BY <2>1 DEF Moves
  <2>3. /\ Moves(srv, s, terminate_session(t))
        /\ Moves(srv, s, add_rst_stream(t, id))
    <3> HIDE DEF t
    <3>1. Moves(srv, t, terminate_session(t)) /\ Moves(srv, t, add_rst_stream(t, id))
      BY <2>2, EndsMove
    <3> QED
      BY <2>1, <3>1, MovesTwice
  <2>4. ASSUME allow_incoming_new_stream(s)
        PROVE  Moves(srv, s, shutdown(u, id, "RD"))
    <3>1. Moves(srv, s, u)
      BY <1>4, <2>0, <2>4, PeerStream DEF Moves
    <3> HIDE DEF u
    <3>2. Moves(srv, u, shutdown(u, id, "RD"))
      BY <3>1, EndsMove DEF Moves
    <3> QED
      BY <3>1, <3>2, MovesTwice
  <2>5. \/ on_request_headers_received(s, f) = terminate_session(t)
        \/ on_request_headers_received(s, f) = t
        \/ on_request_headers_received(s, f) = add_rst_stream(t, id)
        \/ /\ allow_incoming_new_stream(s)
           /\ on_request_headers_received(s, f) = shutdown(u, id, "RD")
    BY <1>1, <1>4 DEF on_request_headers_received
  <2> QED
    BY <2>1, <2>3, <2>4, <2>5
<1> QED
  BY <1>1, <1>2, <1>3, <1>4

LEMMA HeadersEnd ==
    ASSUME NEW srv \in BOOLEAN, NEW s, SessionInv(srv, s), NEW f, f.id \in StreamIds
    PROVE  Moves(srv, s, end_stream_headers(s, f))
BY EndsMove, MovesSelf DEF end_stream_headers

LEMMA ResponseReceived ==
    ASSUME NEW srv \in BOOLEAN, NEW s, SessionInv(srv, s), NEW f, f.id \in StreamIds,
           s.streams[f.id].state = "OPENING"
    PROVE  Moves(srv, s, on_response_headers_received(s, f))
<1> DEFINE a == [s.streams[f.id] EXCEPT !.state = "OPENED"]
           t == [s EXCEPT !.streams[f.id] = a]
           u == [s EXCEPT !.streams[f.id] = a, !.last_sent_stream_id = s.last_sent_stream_id]
<1>1. s \in SessionType(srv) /\ Sound(srv, s) /\ s.last_sent_stream_id \in Nat
  BY FieldTypes DEF SessionInv, Sound
<1>2. Active(s, f.id) /\ s.streams[f.id].push = FALSE
  BY <1>1, StreamTypes DEF Active, Sound, PushOK
<1>3. a \in StreamType /\ a.state = "OPENED" /\ a.push = FALSE
  BY <1>1, <1>2, StreamTypes DEF StreamType
<1>4. t = u
  BY <1>1 DEF SessionType
<1>5. Moves(srv, s, u)
  <2> HIDE DEF a
  <2>1. Sound(srv, u) /\ Advances(s, u)
    BY <1>1, <1>2, <1>3, StateChanged
  <2> QED
    BY <2>1, AdvancesMoves
<1>6. \/ on_response_headers_received(s, f) = terminate_session(s)
      \/ on_response_headers_received(s, f) = end_stream_headers(t, f)
  BY DEF on_response_headers_received
<1> HIDE DEF t, u
<1>7. Moves(srv, s, end_stream_headers(t, f))
  BY <1>4, <1>5, HeadersEnd, MovesTwice DEF Moves
<1> QED
  BY <1>6, <1>7, EndsMove

LEMMA PushResponseReceived ==
    ASSUME NEW srv \in BOOLEAN, NEW s, SessionInv(srv, s), NEW f, f.id \in StreamIds,
           s.streams[f.id].state = "RESERVED"
    PROVE  Moves(srv, s, on_push_response_headers_received(s, f))
<1> DEFINE a == [s.streams[f.id] EXCEPT !.state = "OPENED", !.push = FALSE]
           n == s.num_incoming_streams + 1
           m == s.num_incoming_reserved_streams - 1
           t == [s EXCEPT !.streams[f.id] = a, !.num_incoming_reserved_streams = m,
                          !.num_incoming_streams = n]
<1>1. s \in SessionType(srv) /\ Sound(srv, s) /\ s.server = srv
  BY FieldTypes DEF SessionInv, Sound
<1>2. ~srv => ~Mine(srv, f.id)
  BY DEF Active, Sound, PushOK, SessionInv
<1>3. a \in StreamType /\ a.state = "OPENED" /\ a.push = FALSE
  <2>1. s.streams[f.id] \in StreamType
    BY <1>1, StreamTypes
  <2> QED
    BY <2>1 DEF StreamType
<1>4. ASSUME ~srv PROVE Moves(srv, s, end_stream_headers(t, f))
  <2>1. Moves(srv, s, t)
    <3> HIDE DEF a
    <3>1. Sound(srv, t) /\ Advances(s, t)
      BY <1>1, <1>2, <1>3, <1>4, PromiseReceived
    <3> HIDE DEF t
    <3> QED
      BY <3>1, AdvancesMoves
  <2> HIDE DEF t
  <2> QED
    BY <2>1, HeadersEnd, MovesTwice DEF Moves
<1>5. \/ on_push_response_headers_received(s, f) = terminate_session(s)
      \/ on_push_response_headers_received(s, f) = s
      \/ on_push_response_headers_received(s, f) = add_rst_stream(s, f.id)
      \/ ~srv /\ on_push_response_headers_received(s, f) = end_stream_headers(t, f)
  <2>1. t = [s EXCEPT !.streams[f.id].state = "OPENED", !.streams[f.id].push = FALSE,
                      !.num_incoming_reserved_streams = @ - 1,
                      !.num_incoming_streams = @ + 1]
    BY <1>1, FieldTypes, ZenonT(40) DEF SessionType
  <2> HIDE DEF t
  <2> QED
    BY <1>1, <2>1 DEF on_push_response_headers_received
<1> HIDE DEF t
<1> QED
  BY <1>4, <1>5, EndsMove, MovesSelf

LEMMA HeadersReceived ==
    ASSUME NEW srv \in BOOLEAN, NEW s, SessionInv(srv, s), NEW f, f.id \in StreamIds,
           srv => ~Mine(srv, f.id)
    PROVE  Moves(srv, s, process_headers_frame(s, f))
BY RequestReceived, ResponseReceived, PushResponseReceived, EndsMove, MovesSelf
   DEF process_headers_frame

LEMMA PushPromiseReceived ==
    ASSUME NEW srv \in BOOLEAN, NEW s, SessionInv(srv, s), NEW f \in Promises
    PROVE  Moves(srv, s, on_push_promise_received(s, f))
<1> DEFINE id == f.promised
           t == [s EXCEPT !.last_recv_stream_id = id]
           u == [open_stream(t, id, "RESERVED") EXCEPT !.last_proc_stream_id = id]
<1>1. s.server = srv /\ s.last_recv_stream_id \in Nat
  BY FieldTypes DEF SessionInv, Sound
<1>2. id \in StreamIds /\ id \in Nat /\ (~srv => ~Mine(srv, id))
  BY IdsFinite DEF Promises, Mine, StreamIds
<1>3. ASSUME ~srv, s.last_recv_stream_id < id
      PROVE  /\ Moves(srv, s, terminate_session(t))
             /\ Moves(srv, s, add_rst_stream(t, id))
  <2>1. Moves(srv, s, t)
    BY <1>2, <1>3, PeerStreamSeen DEF Moves
  <2> HIDE DEF t
  <2>2. Moves(srv, t, terminate_session(t)) /\ Moves(srv, t, add_rst_stream(t, id))
    BY <1>2, <2>1, EndsMove DEF Moves
  <2> QED
    BY <2>1, <2>2, MovesTwice
<1>4. ASSUME ~srv, s.last_recv_stream_id < id, allow_incoming_new_stream(s)
      PROVE  Moves(srv, s, u)
  BY <1>2, <1>4, PeerStream DEF Moves
<1>5. \/ on_push_promise_received(s, f) = terminate_session(s)
      \/ on_push_promise_received(s, f) = s
      \/ /\ ~srv /\ s.last_recv_stream_id < id /\ allow_incoming_new_stream(s)
         /\ \/ on_push_promise_received(s, f) = add_rst_stream(t, id)
            \/ on_push_promise_received(s, f) = terminate_session(t)
            \/ on_push_promise_received(s, f) = u
  BY <1>1, <1>2 DEF on_push_promise_received, is_new_peer_stream_id, enable_push
<1> HIDE DEF t, u
<1> QED
  BY <1>2, <1>3, <1>4, <1>5, EndsMove, MovesSelf

LEMMA DataReceived ==
    ASSUME NEW srv \in BOOLEAN, NEW s, SessionInv(srv, s), NEW f \in DataFrames
    PROVE  Moves(srv, s, on_data_received(s, f))
<1>1. f.id \in StreamIds /\ f.length \in Nat /\ f.end \in BOOLEAN
  BY DEF DataFrames
<1>2. ASSUME NEW t, SessionInv(srv, t)
      PROVE  Moves(srv, t, update_recv_connection_window_size(t, f.length))
  BY <1>1, <1>2, UpdateConnection, CalmMoves DEF SessionInv, Sound
<1>3. ASSUME NEW t, SessionInv(srv, t)
      PROVE  Moves(srv, t, update_recv_stream_window_size(t, f.id, f.length, ~f.end))
  <2>1. (~f.end) \in BOOLEAN
    BY <1>1
  <2> QED
    BY <1>1, <1>3, <2>1, UpdateStream, CalmMoves DEF SessionInv, Sound
<1> DEFINE t == terminate_session(s)
           c == update_recv_connection_window_size(s, f.length)
           u == update_recv_stream_window_size(c, f.id, f.length, ~f.end)
<1>4. Moves(srv, s, ignore_data(t, f))
  <2>1. Moves(srv, s, t)
    BY <1>1, EndsMove
  <2> HIDE DEF t
  <2> QED
    BY <1>2, <2>1, MovesTwice DEF ignore_data, Moves
<1>5. Moves(srv, s, c)
  BY <1>2
<1>6. Moves(srv, s, u)
  <2> HIDE DEF c
  <2>1. Moves(srv, c, u)
    BY <1>3, <1>5 DEF Moves
  <2> HIDE DEF u
  <2> QED
    BY <1>5, <2>1, MovesTwice
<1>7. Moves(srv, s, shutdown(u, f.id, "RD"))
  <2> HIDE DEF u
  <2> QED
    BY <1>1, <1>6, EndsMove, MovesTwice DEF Moves
<1>8. \/ on_data_received(s, f) = ignore_data(t, f)
      \/ on_data_received(s, f) = c
      \/ on_data_received(s, f) = u
      \/ on_data_received(s, f) = shutdown(u, f.id, "RD")
  BY DEF on_data_received, ignore_data
<1> HIDE DEF t, c, u
<1> QED
  BY <1>4, <1>5, <1>6, <1>7, <1>8

LEMMA GoawayReceived ==
    ASSUME NEW srv \in BOOLEAN, NEW s, SessionInv(srv, s), NEW f \in Goaways
    PROVE  Moves(srv, s, on_goaway_received(s, f))
<1> DEFINE t == [s EXCEPT !.goaway_flags = s.goaway_flags \cup {"RECV"},
                          !.remote_last_stream_id = f.last]
           ids == {id \in StreamIds : id > f.last /\ is_my_stream_id(t, id) = ~FALSE}
<1>1. s \in SessionType(srv)
  BY DEF SessionInv, Sound
<1>2. Moves(srv, s, t)
  <2>1. t \in SessionType(srv)
    BY <1>1 DEF SessionType, Goaways
  <2>2. /\ t.streams = s.streams /\ t.ob_reg = s.ob_reg /\ Fixed(s, t)
        /\ t.num_outgoing_streams = s.num_outgoing_streams
        /\ t.num_incoming_streams = s.num_incoming_streams
        /\ t.num_incoming_reserved_streams = s.num_incoming_reserved_streams
    BY <1>1 DEF SessionType, Fixed
  <2> HIDE DEF t
  <2>3. Calm(s, t)
    BY <1>1, <2>1, <2>2, QueuesSelf, CalmOthers
  <2> QED
    BY <2>1, <2>3, CalmMoves
<1>3. \/ on_goaway_received(s, f) = terminate_session(s)
      \/ on_goaway_received(s, f) = close_streams(t, ids)
  BY DEF on_goaway_received, close_stream_on_goaway
<1> HIDE DEF t
<1>4. ids \in SUBSET StreamIds
  OBVIOUS
<1> HIDE DEF ids
<1>5. Moves(srv, t, close_streams(t, ids))
  BY <1>2, <1>4, CloseStreams, AdvancesMoves DEF Moves, SessionInv
<1>6. Moves(srv, s, terminate_session(s))
  BY <1>1, Terminate, CalmMoves
<1> QED
  BY <1>2, <1>3, <1>5, <1>6, MovesTwice

LEMMA FrameReceived ==
    ASSUME NEW srv \in BOOLEAN, NEW s, SessionInv(srv, s), NEW f \in Frames(~srv)
    PROVE  Moves(srv, s, receive(s, f))
<1>1. s \in SessionType(srv)
  BY DEF SessionInv, Sound
<1>2. CASE f \in Requests /\ srv
  <2>1. f.type = "HEADERS" /\ f.id \in StreamIds /\ ~Mine(srv, f.id)
    BY <1>2, IdsFinite DEF Requests, Mine
  <2> QED
    BY <2>1, HeadersReceived DEF receive
<1>3. CASE f \in Responses /\ ~srv
  BY <1>3, HeadersReceived DEF receive, Responses
<1>4. CASE f \in Promises
  BY <1>4, PushPromiseReceived DEF receive, Promises
<1>5. CASE f \in Resets
  <2>1. f.type = "RST_STREAM" /\ f.id \in StreamIds
    BY <1>5 DEF Resets
  <2> QED
    BY <2>1, EndsMove DEF receive, on_rst_stream_received
<1>6. CASE f \in DataFrames
  BY <1>6, DataReceived DEF receive, DataFrames
<1>7. CASE f \in Updates
  BY <1>1, <1>7, WindowUpdateReceived, CalmMoves DEF receive, Updates
<1>8. CASE f \in SettingsFrames
  BY <1>1, <1>8, SettingsReceived, CalmMoves DEF receive, SettingsFrames
<1>9. CASE f \in Acks
  BY <1>1, <1>9, SettingsAcked, CalmMoves DEF receive, Acks
<1>10. CASE f \in Goaways
  BY <1>10, GoawayReceived DEF receive, Goaways
<1> QED
  BY <1>2, <1>3, <1>4, <1>5, <1>6, <1>7, <1>8, <1>9, <1>10 DEF Frames, Regular

-----------------------------------------------------------------------------
(***************************************************************************)
(* Sending.                                                                *)
(***************************************************************************)
\* A GOAWAY stays true after its sender has moved on.
LEMMA GoawayStaysOK ==
    ASSUME NEW s, NEW t, Later(s, t), NEW f, GoawayOK(s, f)
    PROVE  GoawayOK(t, f)
BY DEF Later, GoawayOK

\* Fields that no part of the invariant speaks of, but for its types.
LEMMA SameCore ==
    ASSUME NEW srv \in BOOLEAN, NEW s, SessionInv(srv, s), NEW t \in SessionType(srv),
           t.streams = s.streams, t.ob_reg = s.ob_reg, Fixed(s, t),
           t.num_outgoing_streams = s.num_outgoing_streams,
           t.num_incoming_streams = s.num_incoming_streams,
           t.num_incoming_reserved_streams = s.num_incoming_reserved_streams
    PROVE  Moves(srv, s, t)
BY QueuesSelf, CalmOthers, CalmMoves DEF SessionInv, Sound

LEMMA UrgentTaken ==
    ASSUME NEW srv \in BOOLEAN, NEW s, SessionInv(srv, s), s.ob_urgent # <<>>
    PROVE  LET t == [s EXCEPT !.ob_urgent = Tail(s.ob_urgent)] IN
           Moves(srv, s, t) /\ Head(s.ob_urgent) \in SettingsFrames \cup Acks
<1> DEFINE q == Tail(s.ob_urgent)
           t == [s EXCEPT !.ob_urgent = q]
<1>1. s \in SessionType(srv) /\ s.ob_urgent \in Seq(SettingsFrames \cup Acks)
  BY FieldTypes DEF SessionInv, Sound
<1>2. q \in Seq(SettingsFrames \cup Acks) /\ Head(s.ob_urgent) \in SettingsFrames \cup Acks
  BY <1>1
<1> HIDE DEF q
<1>3. t \in SessionType(srv)
  BY <1>1, <1>2 DEF SessionType
<1>4. /\ t.streams = s.streams /\ t.ob_reg = s.ob_reg /\ Fixed(s, t)
      /\ t.num_outgoing_streams = s.num_outgoing_streams
      /\ t.num_incoming_streams = s.num_incoming_streams
      /\ t.num_incoming_reserved_streams = s.num_incoming_reserved_streams
  BY <1>1 DEF SessionType, Fixed
<1> HIDE DEF t
<1>5. Moves(srv, s, t)
  BY <1>3, <1>4, SameCore
<1> QED
  BY <1>2, <1>5 DEF t, q

LEMMA SynTaken ==
    ASSUME NEW srv \in BOOLEAN, NEW s, SessionInv(srv, s), s.ob_syn # <<>>
    PROVE  LET t == [s EXCEPT !.ob_syn = Tail(s.ob_syn)] IN
           Moves(srv, s, t) /\ Head(s.ob_syn) \in Resets
<1> DEFINE q == Tail(s.ob_syn)
           t == [s EXCEPT !.ob_syn = q]
<1>1. s \in SessionType(srv) /\ s.ob_syn \in Seq(Resets)
  BY FieldTypes DEF SessionInv, Sound
<1>2. q \in Seq(Resets) /\ Head(s.ob_syn) \in Resets
  BY <1>1
<1> HIDE DEF q
<1>3. t \in SessionType(srv)
  BY <1>1, <1>2 DEF SessionType
<1>4. /\ t.streams = s.streams /\ t.ob_reg = s.ob_reg /\ Fixed(s, t)
      /\ t.num_outgoing_streams = s.num_outgoing_streams
      /\ t.num_incoming_streams = s.num_incoming_streams
      /\ t.num_incoming_reserved_streams = s.num_incoming_reserved_streams
  BY <1>1 DEF SessionType, Fixed
<1> HIDE DEF t
<1>5. Moves(srv, s, t)
  BY <1>3, <1>4, SameCore
<1> QED
  BY <1>2, <1>5 DEF t, q

\* A session with other queued frames, which fulfil the same conditions.
LEMMA RegularReplaced ==
    ASSUME NEW srv \in BOOLEAN, NEW s, SessionInv(srv, s), NEW q \in Seq(Regular(srv)),
           NEW n \in Nat, s.next_stream_id <= n, Mine(srv, n),
           \A i \in 1 .. Len(q) : GoawayOK(s, q[i]),
           ~srv => \A i \in 1 .. Len(q) : q[i].type = "HEADERS" =>
                     /\ q[i].id < n
                     /\ s.streams[q[i].id].state = "IDLE"
                     /\ \A j \in i + 1 .. Len(q) :
                          q[j].type = "HEADERS" => q[j].id # q[i].id,
           srv => InOrder(q, s.last_sent_stream_id, n)
    PROVE  Moves(srv, s, [s EXCEPT !.ob_reg = q, !.next_stream_id = n])
<1> DEFINE t == [s EXCEPT !.ob_reg = q, !.next_stream_id = n]
<1>1. s \in SessionType(srv) /\ s.next_stream_id \in Nat /\ StreamIds \subseteq Nat
  BY FieldTypes, IdsFinite DEF SessionInv, Sound
<1>2. t \in SessionType(srv)
  BY <1>1 DEF SessionType
<1>3. /\ t.streams = s.streams /\ t.ob_reg = q /\ t.goaway_flags = s.goaway_flags
      /\ t.next_stream_id = n /\ t.last_recv_stream_id = s.last_recv_stream_id
      /\ t.last_sent_stream_id = s.last_sent_stream_id
      /\ t.last_proc_stream_id = s.last_proc_stream_id
      /\ t.local_last_stream_id = s.local_last_stream_id
      /\ t.num_outgoing_streams = s.num_outgoing_streams
      /\ t.num_incoming_streams = s.num_incoming_streams
      /\ t.num_incoming_reserved_streams = s.num_incoming_reserved_streams
      /\ t.server = s.server
  BY <1>1 DEF SessionType
<1> HIDE DEF t
<1>4. Sound(srv, t)
  <2>1. \A j \in StreamIds : /\ Active(t, j) <=> Active(s, j)
                             /\ is_my_stream_id(t, j) <=> is_my_stream_id(s, j)
    BY <1>3 DEF Active, is_my_stream_id
  <2>2. PushOK(srv, t)
    BY <1>3, <2>1 DEF PushOK, SessionInv, Sound
  <2>3. /\ {j \in StreamIds : Outgoing(t, j)} = {j \in StreamIds : Outgoing(s, j)}
        /\ {j \in StreamIds : Incoming(t, j)} = {j \in StreamIds : Incoming(s, j)}
        /\ {j \in StreamIds : ReservedRemote(t, j)} = {j \in StreamIds : ReservedRemote(s, j)}
    BY <1>3, <2>1 DEF Outgoing, Incoming, ReservedRemote
  <2> QED
    BY <1>2, <1>3, <2>2, <2>3 DEF CountersMatch, SessionInv, Sound
<1>5. Fresh(srv, t)
  <2>1. ASSUME NEW id \in StreamIds, Mine(srv, id), n <= id
        PROVE  s.streams[id].state = "IDLE"
    <3>1. s.next_stream_id <= id
      BY <1>1, <2>1
    <3> QED
      BY <2>1, <3>1 DEF SessionInv, Fresh
  <2>2. \A id \in StreamIds :
          ~Mine(srv, id) /\ s.last_recv_stream_id < id => s.streams[id].state = "IDLE"
    BY DEF SessionInv, Fresh
  <2> QED
    BY <1>3, <2>1, <2>2 DEF Fresh
<1>6. Covered(srv, t)
  BY <1>3 DEF SessionInv, Covered, GoawayOK
<1>7. Later(s, t)
  BY <1>1, <1>3, FieldTypes DEF Later
<1>8. SessionInv(srv, t)
  BY <1>4, <1>5, <1>6 DEF SessionInv
<1> QED
  BY <1>7, <1>8 DEF t, Moves

LEMMA RegularTaken ==
    ASSUME NEW srv \in BOOLEAN, NEW s, SessionInv(srv, s), s.ob_reg # <<>>
    PROVE  LET t == [s EXCEPT !.ob_reg = Tail(s.ob_reg)]
               f == Head(s.ob_reg) IN
           /\ Moves(srv, s, t)
           /\ f \in Regular(srv)
           /\ GoawayOK(t, f)
           /\ ~srv /\ f.type = "HEADERS" =>
                /\ f.id < t.next_stream_id
                /\ t.streams[f.id].state = "IDLE"
                /\ \A i \in 1 .. Len(t.ob_reg) :
                     t.ob_reg[i].type = "HEADERS" => t.ob_reg[i].id # f.id
           /\ srv /\ f.type = "PUSH_PROMISE" =>
                /\ t.last_sent_stream_id < f.promised
                /\ InOrder(t.ob_reg, f.promised, t.next_stream_id)
<1> DEFINE q == Tail(s.ob_reg)
           f == Head(s.ob_reg)
           t == [s EXCEPT !.ob_reg = q]
           u == [s EXCEPT !.ob_reg = q, !.next_stream_id = s.next_stream_id]
<1>1. /\ s \in SessionType(srv) /\ s.ob_reg \in Seq(Regular(srv)) /\ s.next_stream_id \in Nat
      /\ Mine(srv, s.next_stream_id)
  BY FieldTypes DEF SessionInv, Sound, Fresh
<1>2. /\ q \in Seq(Regular(srv)) /\ Len(q) = Len(s.ob_reg) - 1 /\ Len(s.ob_reg) \in Nat
      /\ \A i \in 1 .. Len(q) : q[i] = s.ob_reg[i + 1]
      /\ f = s.ob_reg[1] /\ f \in Regular(srv) /\ 1 \in 1 .. Len(s.ob_reg)
  BY <1>1
<1>3. t = u
  BY <1>1 DEF SessionType
<1>4. t.ob_reg = q /\ t.streams = s.streams /\ t.next_stream_id = s.next_stream_id
      /\ t.last_proc_stream_id = s.last_proc_stream_id /\ t.goaway_flags = s.goaway_flags
      /\ t.last_sent_stream_id = s.last_sent_stream_id
  BY <1>1 DEF SessionType
<1>12. srv => /\ InOrder(q, s.last_sent_stream_id, s.next_stream_id)
              /\ f.type = "PUSH_PROMISE" =>
                   /\ s.last_sent_stream_id < f.promised
                   /\ InOrder(q, f.promised, s.next_stream_id)
  BY <1>1, InOrderTail DEF SessionInv, Fresh
<1> HIDE DEF q, f
<1>5. \A i \in 1 .. Len(q) : i + 1 \in 1 .. Len(s.ob_reg)
  BY <1>2
<1>6. Moves(srv, s, u)
  <2>1. \A i \in 1 .. Len(q) : GoawayOK(s, q[i])
    BY <1>2, <1>5 DEF SessionInv, Covered
  <2>2. ASSUME ~srv, NEW i \in 1 .. Len(q), q[i].type = "HEADERS"
        PROVE  /\ q[i].id < s.next_stream_id
               /\ s.streams[q[i].id].state = "IDLE"
               /\ \A j \in i + 1 .. Len(q) : q[j].type = "HEADERS" => q[j].id # q[i].id
    <3>1. i + 1 \in 1 .. Len(s.ob_reg) /\ q[i] = s.ob_reg[i + 1]
      BY <1>2, <1>5
    <3>2. ASSUME NEW j \in i + 1 .. Len(q)
          PROVE  j + 1 \in (i + 1) + 1 .. Len(s.ob_reg) /\ q[j] = s.ob_reg[j + 1]
      BY <1>2
    <3> QED
      BY <2>2, <3>1, <3>2 DEF SessionInv, Fresh
  <2>3. s.next_stream_id <= s.next_stream_id
    BY <1>1
  <2> HIDE DEF u
  <2> QED
    BY <1>1, <1>2, <1>12, <2>1, <2>2, <2>3, RegularReplaced DEF u
<1>7. GoawayOK(t, f)
  BY <1>2, <1>4 DEF SessionInv, Covered, GoawayOK
<1>8. ASSUME ~srv, f.type = "HEADERS"
      PROVE  /\ f.id < s.next_stream_id
             /\ s.streams[f.id].state = "IDLE"
             /\ \A i \in 1 .. Len(q) : q[i].type = "HEADERS" => q[i].id # f.id
  <2>1. \A i \in 1 .. Len(q) : i + 1 \in 1 + 1 .. Len(s.ob_reg)
    BY <1>2
  <2> QED
    BY <1>2, <1>8, <2>1 DEF SessionInv, Fresh
<1> HIDE DEF t, u
<1>9. /\ Moves(srv, s, t)
      /\ f \in Regular(srv)
      /\ GoawayOK(t, f)
      /\ ~srv /\ f.type = "HEADERS" =>
           /\ f.id < t.next_stream_id
           /\ t.streams[f.id].state = "IDLE"
           /\ \A i \in 1 .. Len(t.ob_reg) :
                t.ob_reg[i].type = "HEADERS" => t.ob_reg[i].id # f.id
      /\ srv /\ f.type = "PUSH_PROMISE" =>
           /\ t.last_sent_stream_id < f.promised
           /\ InOrder(t.ob_reg, f.promised, t.next_stream_id)
  BY <1>2, <1>3, <1>4, <1>6, <1>7, <1>8, <1>12
<1> QED
  BY <1>9 DEF t, f, q

\* The stream of a request is opened when the request is prepared, and no
\* other request of the queue is for it.
LEMMA RequestPrepared ==
    ASSUME NEW srv \in BOOLEAN, NEW s, SessionInv(srv, s), NEW id \in StreamIds, Mine(srv, id),
           id < s.next_stream_id, s.streams[id].state = "IDLE",
           \A i \in 1 .. Len(s.ob_reg) : s.ob_reg[i].type = "HEADERS" => s.ob_reg[i].id # id
    PROVE  LET t == open_stream(s, id, "INITIAL") IN
           /\ Moves(srv, s, t)
           /\ t.streams[id].state = "INITIAL" /\ t.streams[id].push = FALSE
<1> DEFINE t == open_stream(s, id, "INITIAL")
<1>1. s \in SessionType(srv) /\ id \in Nat /\ s.next_stream_id \in Nat
      /\ StreamIds \subseteq Nat
  BY FieldTypes, IdsFinite DEF SessionInv, Sound
<1>2. /\ Sound(srv, t) /\ Fixed(s, t) /\ t.ob_reg = s.ob_reg
      /\ t.goaway_flags = s.goaway_flags
      /\ t.streams[id].state = "INITIAL"
      /\ t.streams[id].push <=> "INITIAL" = "RESERVED"
      /\ \A j \in StreamIds : j # id => t.streams[j] = s.streams[j]
  BY OpenStream DEF SessionInv
<1> HIDE DEF t
<1>3. t.streams[id].push = FALSE
  BY <1>2, StreamTypes DEF Sound
<1>4. Fresh(srv, t)
  <2>1. ASSUME NEW j \in StreamIds, Mine(srv, j), t.next_stream_id <= j
        PROVE  t.streams[j].state = "IDLE"
    <3>1. j # id /\ s.next_stream_id <= j
      BY <1>1, <1>2, <2>1 DEF Fixed
    <3> QED
      BY <1>2, <2>1, <3>1 DEF SessionInv, Fresh
  <2>2. ASSUME NEW j \in StreamIds, ~Mine(srv, j), t.last_recv_stream_id < j
        PROVE  t.streams[j].state = "IDLE"
    <3>1. j # id /\ s.last_recv_stream_id < j
      BY <1>2, <2>2 DEF Fixed
    <3> QED
      BY <1>2, <2>2, <3>1 DEF SessionInv, Fresh
  <2>3. ASSUME ~srv, NEW i \in 1 .. Len(s.ob_reg), s.ob_reg[i].type = "HEADERS"
        PROVE  t.streams[s.ob_reg[i].id].state = "IDLE"
    <3>1. s.ob_reg[i] \in Regular(srv)
      BY <1>1, FieldTypes
    <3>2. s.ob_reg[i].id \in StreamIds
      BY <2>3, <3>1 DEF Regular, Requests, Updates, Goaways
    <3> QED
      BY <1>2, <2>3, <3>2 DEF SessionInv, Fresh
  <2>4. srv => InOrder(t.ob_reg, t.last_sent_stream_id, t.next_stream_id)
    BY <1>1, <1>2, FieldTypes DEF SessionInv, Fresh, Fixed
  <2> QED
    BY <1>2, <2>1, <2>2, <2>3, <2>4 DEF SessionInv, Fresh, Fixed
<1>5. Covered(srv, t)
  <2>1. \A j \in StreamIds : ~Mine(srv, j) => t.streams[j] = s.streams[j]
    BY <1>2
  <2> QED
    BY <1>2, <2>1 DEF SessionInv, Covered, GoawayOK, Fixed
<1>6. Later(s, t)
  <2>1. s.last_sent_stream_id \in Nat /\ t.server = s.server
    BY <1>1, <1>2, FieldTypes DEF Sound
  <2> QED
    BY <1>2, <2>1 DEF Later, Fixed
<1> QED
  BY <1>2, <1>3, <1>4, <1>5, <1>6 DEF SessionInv, Moves, t

\* The HEADERS of a request or of a response are sent: the stream goes on, or
\* begins to count.
LEMMA HeadersGo ==
    ASSUME NEW srv \in BOOLEAN, NEW s, SessionInv(srv, s), NEW f, f.id \in StreamIds,
           f.id \in Nat, f.size \in Nat, NEW t, Moves(srv, s, t)
    PROVE  Moves(srv, s, IF f.size = 0 THEN shutdown(t, f.id, "WR")
                         ELSE [t EXCEPT !.streams[f.id].item = f.size])
<1>1. SessionInv(srv, t) /\ t \in SessionType(srv)
  BY DEF Moves, SessionInv, Sound
<1>2. Moves(srv, t, shutdown(t, f.id, "WR"))
  BY <1>1, EndsMove
<1> DEFINE a == [t.streams[f.id] EXCEPT !.item = f.size]
           u == [t EXCEPT !.streams[f.id] = a]
<1>3. a \in StreamType /\ SameLife(t.streams[f.id], a)
  BY <1>1, StreamTypes, WindowFields, WindowFieldsOnly
<1>4. Moves(srv, t, u)
  <2> HIDE DEF a
  <2>1. u \in SessionType(srv) /\ Calm(t, u)
    BY <1>1, <1>3, StreamLives
  <2> HIDE DEF u
  <2> QED
    BY <1>1, <2>1, CalmMoves
<1> HIDE DEF a
<1>5. Moves(srv, s, shutdown(t, f.id, "WR")) /\ Moves(srv, s, u)
  <2> HIDE DEF u
  <2> QED
    BY <1>2, <1>4, MovesTwice
<1> QED
  BY <1>5 DEF a

LEMMA RequestSent ==
    ASSUME NEW srv \in BOOLEAN, ~srv, NEW s, SessionInv(srv, s), NEW f \in Requests,
           s.streams[f.id].state = "INITIAL", s.streams[f.id].push = FALSE
    PROVE  Moves(srv, s, headers_sent(s, f))
<1> DEFINE a == [s.streams[f.id] EXCEPT !.state = "OPENING", !.push = FALSE]
           t == [s EXCEPT !.streams[f.id] = a, !.last_sent_stream_id = f.id]
<1>1. s \in SessionType(srv) /\ Sound(srv, s)
  BY DEF SessionInv, Sound
<1>2. f.id \in StreamIds /\ f.id \in Nat /\ f.size = 0 /\ f.cat = "REQUEST"
  <2>1. f.id \in StreamIds /\ f.size = 0 /\ f.cat = "REQUEST"
    BY DEF Requests
  <2> QED
    BY <2>1, IdsFinite
<1>3. Active(s, f.id)
  BY DEF Active
<1>4. a \in StreamType /\ a.state = "OPENING" /\ a.push = FALSE
  <2>1. s.streams[f.id] \in StreamType
    BY <1>1, <1>2, StreamTypes
  <2> QED
    BY <2>1 DEF StreamType
<1>5. Moves(srv, s, t)
  <2> HIDE DEF a
  <2>1. Sound(srv, t) /\ Advances(s, t)
    BY <1>1, <1>2, <1>3, <1>4, StateChanged
  <2> HIDE DEF t
  <2> QED
    BY <2>1, AdvancesMoves
<1>6. t = [s EXCEPT !.streams[f.id].state = "OPENING", !.streams[f.id].push = FALSE,
                    !.num_outgoing_streams = s.num_outgoing_streams,
                    !.last_sent_stream_id = f.id]
  <2>1. [s EXCEPT !.streams[f.id] = a, !.num_outgoing_streams = s.num_outgoing_streams,
                  !.last_sent_stream_id = f.id]
          = [s EXCEPT !.streams[f.id].state = "OPENING", !.streams[f.id].push = FALSE,
                      !.num_outgoing_streams = s.num_outgoing_streams,
                      !.last_sent_stream_id = f.id]
    BY <1>1, <1>2, FieldTypes, ZenonT(40) DEF SessionType
  <2> HIDE DEF a
  <2> QED
    BY <1>1, <2>1 DEF SessionType
<1>7. headers_sent(s, f) = shutdown(t, f.id, "WR")
  <2> HIDE DEF t
  <2> QED
    BY <1>2, <1>6 DEF headers_sent
<1> HIDE DEF t
<1> QED
  BY <1>2, <1>5, <1>7, EndsMove, MovesTwice DEF Moves

LEMMA ResponseSent ==
    ASSUME NEW srv \in BOOLEAN, NEW s, SessionInv(srv, s), NEW f \in Responses, MaySend(s, f)
    PROVE  Moves(srv, s, headers_sent(s, f))
<1>1. s \in SessionType(srv) /\ Sound(srv, s)
  BY DEF SessionInv, Sound
<1>2. /\ f.id \in StreamIds /\ f.id \in Nat /\ f.size \in Nat
      /\ f.cat = "HEADERS" /\ f.type = "HEADERS"
  BY IdsFinite DEF Responses
<1>3. /\ Active(s, f.id) /\ "WR" \notin s.streams[f.id].shut
      /\ s.streams[f.id].state \in {"RESERVED", "OPENING", "OPENED"}
  BY <1>2 DEF MaySend, predicate_for_stream_send
<1> DEFINE push == s.streams[f.id].push
           a == [s.streams[f.id] EXCEPT !.state = "OPENED", !.push = FALSE]
           n == IF push THEN s.num_outgoing_streams + 1 ELSE s.num_outgoing_streams
           t == [s EXCEPT !.streams[f.id].state = "OPENED",
                          !.streams[f.id].push = FALSE,
                          !.num_outgoing_streams = n,
                          !.last_sent_stream_id = s.last_sent_stream_id]
<1>4. a \in StreamType /\ a.state = "OPENED" /\ a.push = FALSE
  <2>1. s.streams[f.id] \in StreamType
    BY <1>1, <1>2, StreamTypes
  <2> QED
    BY <2>1 DEF StreamType
<1>5. push \in BOOLEAN /\ (push => Mine(srv, f.id))
  BY <1>1, <1>2, <1>3, StreamTypes DEF Sound, PushOK
<1>6. ASSUME push = TRUE PROVE Moves(srv, s, t)
  <2> DEFINE u == [s EXCEPT !.streams[f.id] = a,
                            !.num_outgoing_streams = s.num_outgoing_streams + 1]
  <2>1. u = t
    <3>1. [s EXCEPT !.streams[f.id] = a, !.num_outgoing_streams = n,
                    !.last_sent_stream_id = s.last_sent_stream_id] = t
      BY <1>1, <1>2, FieldTypes, ZenonT(40) DEF SessionType
    <3>2. n = s.num_outgoing_streams + 1
      BY <1>6
    <3> HIDE DEF a, n, t
    <3> QED
      BY <1>1, <3>1, <3>2 DEF SessionType
  <2>2. Sound(srv, u) /\ Advances(s, u)
    <3> HIDE DEF a
    <3> QED
      BY <1>1, <1>2, <1>3, <1>4, <1>5, <1>6, PromiseSent
  <2> HIDE DEF t, u
  <2> QED
    BY <2>1, <2>2, AdvancesMoves
<1>7. ASSUME push = FALSE PROVE Moves(srv, s, t)
  <2> DEFINE u == [s EXCEPT !.streams[f.id] = a, !.last_sent_stream_id = s.last_sent_stream_id]
  <2>1. u = t
    <3>1. [s EXCEPT !.streams[f.id] = a, !.num_outgoing_streams = n,
                    !.last_sent_stream_id = s.last_sent_stream_id] = t
      BY <1>1, <1>2, FieldTypes, ZenonT(40) DEF SessionType
    <3>2. n = s.num_outgoing_streams
      BY <1>7
    <3> HIDE DEF a, n, t
    <3> QED
      BY <1>1, <3>1, <3>2 DEF SessionType
  <2>2. Sound(srv, u) /\ Advances(s, u)
    <3> HIDE DEF a
    <3> QED
      BY <1>1, <1>2, <1>3, <1>4, <1>7, StateChanged, FieldTypes
  <2> HIDE DEF t, u
  <2> QED
    BY <2>1, <2>2, AdvancesMoves
<1>8. headers_sent(s, f) = IF f.size = 0 THEN shutdown(t, f.id, "WR")
                           ELSE [t EXCEPT !.streams[f.id].item = f.size]
  BY <1>2 DEF headers_sent
<1>9. Moves(srv, s, t)
  BY <1>5, <1>6, <1>7
<1> HIDE DEF t
<1> QED
  BY <1>2, <1>8, <1>9, HeadersGo

LEMMA GoawaySent ==
    ASSUME NEW srv \in BOOLEAN, NEW s, SessionInv(srv, s), NEW f \in Goaways, GoawayOK(s, f)
    PROVE  Moves(srv, s, goaway_sent(s, f))
<1> DEFINE t == [s EXCEPT !.goaway_flags = s.goaway_flags \cup {"TERM_SENT", "SENT"},
                          !.local_last_stream_id = f.last]
           ids == {id \in StreamIds : id > f.last /\ is_my_stream_id(t, id) = ~TRUE}
<1>1. s \in SessionType(srv) /\ f.last \in Nat /\ "TERM_ON_SEND" \in s.goaway_flags
  BY DEF SessionInv, Sound, Goaways, GoawayOK
<1>2. t \in SessionType(srv)
  <2>1. s.goaway_flags \cup {"TERM_SENT", "SENT"}
          \in SUBSET {"TERM_ON_SEND", "TERM_SENT", "SENT", "RECV"}
    BY <1>1, FieldTypes
  <2> QED
    BY <1>1, <2>1 DEF SessionType
<1>3. /\ t.streams = s.streams /\ t.ob_reg = s.ob_reg
      /\ t.goaway_flags = s.goaway_flags \cup {"TERM_SENT", "SENT"}
      /\ t.next_stream_id = s.next_stream_id /\ t.last_recv_stream_id = s.last_recv_stream_id
      /\ t.last_sent_stream_id = s.last_sent_stream_id
      /\ t.last_proc_stream_id = s.last_proc_stream_id
      /\ t.num_outgoing_streams = s.num_outgoing_streams
      /\ t.num_incoming_streams = s.num_incoming_streams
      /\ t.num_incoming_reserved_streams = s.num_incoming_reserved_streams
      /\ t.server = s.server
  BY <1>1 DEF SessionType
<1>4. goaway_sent(s, f) = close_streams(t, ids)
  BY DEF goaway_sent, close_stream_on_goaway
<1> HIDE DEF t
<1>5. Sound(srv, t)
  <2>1. \A j \in StreamIds : /\ Active(t, j) <=> Active(s, j)
                             /\ is_my_stream_id(t, j) <=> is_my_stream_id(s, j)
    BY <1>3 DEF Active, is_my_stream_id
  <2>2. PushOK(srv, t)
    BY <1>3, <2>1 DEF PushOK, SessionInv, Sound
  <2>3. /\ {j \in StreamIds : Outgoing(t, j)} = {j \in StreamIds : Outgoing(s, j)}
        /\ {j \in StreamIds : Incoming(t, j)} = {j \in StreamIds : Incoming(s, j)}
        /\ {j \in StreamIds : ReservedRemote(t, j)} = {j \in StreamIds : ReservedRemote(s, j)}
    BY <1>3, <2>1 DEF Outgoing, Incoming, ReservedRemote
  <2> QED
    BY <1>2, <1>3, <2>2, <2>3 DEF CountersMatch, SessionInv, Sound
<1>6. Fresh(srv, t)
  BY <1>3 DEF SessionInv, Fresh
<1>7. Covered(srv, t)
  BY <1>1, <1>3 DEF SessionInv, Covered, GoawayOK
<1>8. Moves(srv, s, t)
  <2>1. Later(s, t)
    BY <1>1, <1>3, FieldTypes DEF Later
  <2> QED
    BY <1>5, <1>6, <1>7, <2>1 DEF Moves, SessionInv
<1>9. ids \in SUBSET StreamIds
  OBVIOUS
<1> HIDE DEF ids
<1>10. Moves(srv, t, close_streams(t, ids))
  BY <1>5, <1>8, <1>9, CloseStreams, AdvancesMoves DEF Moves
<1> QED
  BY <1>4, <1>8, <1>10, MovesTwice

\* The next promise of the queue is sent.
PromiseIsNext(s, f) ==
    f.type = "PUSH_PROMISE" => /\ s.last_sent_stream_id < f.promised
                               /\ InOrder(s.ob_reg, f.promised, s.next_stream_id)

LEMMA PromiseGoes ==
    ASSUME NEW srv \in BOOLEAN, srv, NEW s, SessionInv(srv, s), NEW id \in StreamIds,
           s.last_sent_stream_id < id, InOrder(s.ob_reg, id, s.next_stream_id)
    PROVE  Moves(srv, s, [s EXCEPT !.last_sent_stream_id = id])
<1> DEFINE t == [s EXCEPT !.last_sent_stream_id = id]
<1>1. s \in SessionType(srv) /\ id \in Nat
  BY IdsFinite DEF SessionInv, Sound
<1>2. t \in SessionType(srv)
  BY <1>1 DEF SessionType
<1>3. /\ t.streams = s.streams /\ t.ob_reg = s.ob_reg /\ t.goaway_flags = s.goaway_flags
      /\ t.next_stream_id = s.next_stream_id /\ t.last_recv_stream_id = s.last_recv_stream_id
      /\ t.last_sent_stream_id = id
      /\ t.last_proc_stream_id = s.last_proc_stream_id
      /\ t.local_last_stream_id = s.local_last_stream_id
      /\ t.num_outgoing_streams = s.num_outgoing_streams
      /\ t.num_incoming_streams = s.num_incoming_streams
      /\ t.num_incoming_reserved_streams = s.num_incoming_reserved_streams
      /\ t.server = s.server
  BY <1>1 DEF SessionType
<1> HIDE DEF t
<1>4. Sound(srv, t)
  <2>1. \A j \in StreamIds : /\ Active(t, j) <=> Active(s, j)
                             /\ is_my_stream_id(t, j) <=> is_my_stream_id(s, j)
    BY <1>3 DEF Active, is_my_stream_id
  <2>2. PushOK(srv, t)
    BY <1>3, <2>1 DEF PushOK, SessionInv, Sound
  <2>3. /\ {j \in StreamIds : Outgoing(t, j)} = {j \in StreamIds : Outgoing(s, j)}
        /\ {j \in StreamIds : Incoming(t, j)} = {j \in StreamIds : Incoming(s, j)}
        /\ {j \in StreamIds : ReservedRemote(t, j)} = {j \in StreamIds : ReservedRemote(s, j)}
    BY <1>3, <2>1 DEF Outgoing, Incoming, ReservedRemote
  <2> QED
    BY <1>2, <1>3, <2>2, <2>3 DEF CountersMatch, SessionInv, Sound
<1>5. Fresh(srv, t)
  BY <1>3 DEF SessionInv, Fresh
<1>6. Covered(srv, t)
  BY <1>3 DEF SessionInv, Covered, GoawayOK
<1>7. Later(s, t)
  <2>1. s.last_sent_stream_id \in Nat
    BY <1>1, FieldTypes
  <2> QED
    BY <1>1, <1>3, <2>1 DEF Later
<1>8. Moves(srv, s, t)
  BY <1>4, <1>5, <1>6, <1>7 DEF Moves, SessionInv
<1> QED
  BY <1>8 DEF t

\* A prepared frame of any queue is sent or dropped.
LEMMA FrameSent ==
    ASSUME NEW srv \in BOOLEAN, NEW s, SessionInv(srv, s), NEW f \in Frames(srv) \ DataFrames,
           GoawayOK(s, f), PromiseIsNext(s, f),
           f \in Requests => /\ s.streams[f.id].state = "INITIAL"
                             /\ s.streams[f.id].push = FALSE
    PROVE  /\ MaySend(s, f) => Moves(srv, s, after_frame_sent(s, f))
           /\ ~MaySend(s, f) => Moves(srv, s, not_sent(s, f))
<1>1. s \in SessionType(srv)
  BY DEF SessionInv, Sound
<1>2. CASE f \in Requests
  <2>1. f.type = "HEADERS" /\ f.cat = "REQUEST" /\ f.id \in StreamIds
    BY <1>2 DEF Requests
  <2>2. ~srv
    BY <1>2 DEF Frames, Regular, Requests, Responses, Promises, Resets, Updates, Goaways,
                SettingsFrames, Acks, DataFrames
  <2> QED
    BY <1>2, <2>1, <2>2, RequestSent, EndsMove DEF after_frame_sent, not_sent
<1>3. CASE f \in Responses
  <2>1. f.type = "HEADERS" /\ f.cat # "REQUEST" /\ f.id \in StreamIds
    BY <1>3 DEF Responses
  <2> QED
    BY <1>3, <2>1, ResponseSent, EndsMove DEF after_frame_sent, not_sent
<1>4. CASE f \in Promises
  <2>1. f.type = "PUSH_PROMISE" /\ f.promised \in StreamIds
    BY <1>4 DEF Promises
  <2>2. srv
    BY <1>4 DEF Frames, Regular, Requests, Responses, Promises, Resets, Updates, Goaways,
                SettingsFrames, Acks, DataFrames
  <2> QED
    BY <2>1, <2>2, PromiseGoes, EndsMove DEF after_frame_sent, not_sent, PromiseIsNext
<1>5. CASE f \in Resets
  <2>1. f.type = "RST_STREAM" /\ f.id \in StreamIds
    BY <1>5 DEF Resets
  <2> QED
    BY <2>1, MovesSelf, EndsMove DEF after_frame_sent, not_sent
<1>6. CASE f \in Updates
  <2>1. f.type = "WINDOW_UPDATE"
    BY <1>6 DEF Updates
  <2>2. Moves(srv, s, window_update_sent(s, f))
    BY <1>1, <1>6, WindowUpdateSent, CalmMoves
  <2> QED
    BY <2>1, <2>2, MovesSelf DEF after_frame_sent, not_sent
<1>7. CASE f \in SettingsFrames
  <2>1. f.type = "SETTINGS"
    BY <1>7 DEF SettingsFrames
  <2> QED
    BY <2>1, MovesSelf DEF after_frame_sent, not_sent
<1>8. CASE f \in Acks
  <2>1. f.type = "ACK"
    BY <1>8 DEF Acks
  <2> QED
    BY <2>1, MovesSelf DEF after_frame_sent, not_sent
<1>9. CASE f \in Goaways
  <2>1. f.type = "GOAWAY"
    BY <1>9 DEF Goaways
  <2> QED
    BY <1>9, <2>1, GoawaySent, MovesSelf DEF after_frame_sent, not_sent
<1> QED
  BY <1>2, <1>3, <1>4, <1>5, <1>6, <1>7, <1>8, <1>9 DEF Frames, Regular

LEMMA DataSent ==
    ASSUME NEW srv \in BOOLEAN, NEW s, SessionInv(srv, s), NEW id \in StreamIds,
           NextData(s, id).length > 0
    PROVE  /\ NextData(s, id) \in DataFrames
           /\ Moves(srv, s, data_sent(s, NextData(s, id)))
<1> DEFINE stream == s.streams[id]
           f == NextData(s, id)
           n == f.length
           a == [stream EXCEPT !.remote_window_size = stream.remote_window_size - n,
                               !.item = stream.item - n]
           t == [s EXCEPT !.remote_window_size = s.remote_window_size - n,
                          !.streams[id] = a]
<1>1. s \in SessionType(srv) /\ stream \in StreamType /\ s.remote_window_size \in Int
      /\ stream.remote_window_size \in Int /\ stream.item \in Nat
  BY FieldTypes, StreamTypes DEF SessionInv, Sound
<1>2. f.id = id /\ f.type = "DATA" /\ n \in Nat /\ n <= stream.item /\ f \in DataFrames
  <2> DEFINE m == Min2(Min2(stream.item, MaxFrameSize),
                       Min2(stream.remote_window_size, s.remote_window_size))
  <2>1. f = [type |-> "DATA", id |-> id, length |-> m, end |-> m = stream.item]
    BY DEF NextData, Data
  <2>2. m \in Int /\ m <= stream.item
    BY <1>1, SizeAssumption DEF Min2
  <2>3. f.length > 0
    OBVIOUS
  <2> HIDE DEF m, f
  <2>4. f.length = m /\ f.id = id /\ f.type = "DATA" /\ (m = stream.item) \in BOOLEAN
    BY <2>1
  <2>5. m \in Nat
    BY <2>2, <2>3, <2>4
  <2>6. f \in DataFrames
    BY <2>1, <2>4, <2>5 DEF DataFrames
  <2> QED
    BY <2>2, <2>4, <2>5, <2>6
<1> HIDE DEF f
<1>3. stream.item - n \in Nat /\ stream.remote_window_size - n \in Int
      /\ s.remote_window_size - n \in Int
  BY <1>1, <1>2
<1>4. a \in StreamType /\ SameLife(stream, a)
  BY <1>1, <1>3, WindowFields, WindowFieldsOnly
<1>5. Moves(srv, s, t)
  <2> DEFINE u == [s EXCEPT !.streams[id] = a]
  <2>1. u \in SessionType(srv) /\ Calm(s, u)
    <3> HIDE DEF a
    <3> QED
      BY <1>1, <1>4, StreamLives
  <2>2. Moves(srv, s, u)
    <3> HIDE DEF u
    <3> QED
      BY <2>1, CalmMoves
  <2> DEFINE w == [u EXCEPT !.remote_window_size = s.remote_window_size - n]
  <2> HIDE DEF u
  <2>3. w \in SessionType(srv)
    BY <1>3, <2>1 DEF SessionType
  <2>4. /\ w.streams = u.streams /\ w.ob_reg = u.ob_reg /\ Fixed(u, w)
        /\ w.num_outgoing_streams = u.num_outgoing_streams
        /\ w.num_incoming_streams = u.num_incoming_streams
        /\ w.num_incoming_reserved_streams = u.num_incoming_reserved_streams
    BY <2>1 DEF SessionType, Fixed
  <2>5. t = w
    <3> HIDE DEF a
    <3> QED
      BY <1>1, <1>4, FieldTypes DEF SessionType, u
  <2> HIDE DEF w, t
  <2>6. Moves(srv, u, w)
    BY <2>2, <2>3, <2>4, SameCore DEF Moves
  <2> QED
    BY <2>2, <2>5, <2>6, MovesTwice
<1>6. data_sent(s, f) = IF f.end THEN shutdown(t, id, "WR") ELSE t
  <2>1. t = [s EXCEPT !.remote_window_size = @ - n,
                      !.streams[id].remote_window_size = @ - n,
                      !.streams[id].item = @ - n]
    <3> DEFINE b == [stream EXCEPT !.remote_window_size = @ - n, !.item = @ - n]
               v == [s EXCEPT !.remote_window_size = @ - n, !.streams[id] = b]
    <3>1. b = a
      BY <1>1 DEF StreamType
    <3>2. v = t
      <4> HIDE DEF a, b
      <4> QED
        BY <3>1
    <3>3. v = [s EXCEPT !.remote_window_size = @ - n,
                        !.streams[id].remote_window_size = @ - n,
                        !.streams[id].item = @ - n]
      BY <1>1, FieldTypes, ZenonT(40) DEF SessionType
    <3> QED
      BY <3>2, <3>3
  <2> HIDE DEF t
  <2> QED
    BY <1>2, <2>1 DEF data_sent
<1> HIDE DEF t
<1>7. Moves(srv, s, shutdown(t, id, "WR"))
  BY <1>5, EndsMove, MovesTwice DEF Moves
<1> QED
  BY <1>2, <1>5, <1>6, <1>7 DEF f

-----------------------------------------------------------------------------
(***************************************************************************)
(* The applications.                                                       *)
(***************************************************************************)
LEMMA RequestSubmitted ==
    ASSUME NEW srv \in BOOLEAN, ~srv, NEW s, SessionInv(srv, s),
           s.next_stream_id \in StreamIds
    PROVE  Moves(srv, s, submit_request(s))
<1> DEFINE k == s.next_stream_id
           f == Request(k)
           q == Append(s.ob_reg, f)
<1>1. s \in SessionType(srv) /\ s.ob_reg \in Seq(Regular(srv)) /\ k \in Nat /\ Mine(srv, k)
  BY FieldTypes, IdsFinite DEF SessionInv, Sound, Fresh
<1>2. f \in Requests /\ f.id = k /\ f.type = "HEADERS"
  BY <1>1 DEF Request, Requests, Mine
<1>3. f \in Regular(srv)
  BY <1>2 DEF Regular
<1> HIDE DEF f
<1>4. /\ q \in Seq(Regular(srv)) /\ Len(q) = Len(s.ob_reg) + 1 /\ Len(s.ob_reg) \in Nat
      /\ \A i \in 1 .. Len(s.ob_reg) : q[i] = s.ob_reg[i]
      /\ q[Len(s.ob_reg) + 1] = f
  BY <1>1, <1>3
<1> HIDE DEF q
<1>5. k + 2 \in Nat /\ s.next_stream_id <= k + 2 /\ Mine(srv, k + 2)
  BY <1>1 DEF Mine
<1>6. \A i \in 1 .. Len(q) : GoawayOK(s, q[i])
  BY <1>2, <1>4 DEF SessionInv, Covered, GoawayOK
<1>7. s.streams[k].state = "IDLE"
  BY <1>1 DEF SessionInv, Fresh
<1>8. ASSUME NEW i \in 1 .. Len(q), q[i].type = "HEADERS"
      PROVE  /\ q[i].id < k + 2
             /\ s.streams[q[i].id].state = "IDLE"
             /\ \A j \in i + 1 .. Len(q) : q[j].type = "HEADERS" => q[j].id # q[i].id
  <2>1. CASE i = Len(s.ob_reg) + 1
    BY <1>1, <1>2, <1>4, <1>7, <2>1
  <2>2. CASE i \in 1 .. Len(s.ob_reg)
    <3>1. q[i] = s.ob_reg[i] /\ s.ob_reg[i] \in Regular(srv)
      BY <1>1, <1>4, <2>2
    <3>2. s.ob_reg[i].id \in Nat
      BY <1>8, <3>1, IdsFinite DEF Regular, Requests, Updates, Goaways
    <3>3. /\ s.ob_reg[i].id < k
          /\ s.streams[s.ob_reg[i].id].state = "IDLE"
          /\ \A j \in i + 1 .. Len(s.ob_reg) :
               s.ob_reg[j].type = "HEADERS" => s.ob_reg[j].id # s.ob_reg[i].id
      BY <1>8, <2>2, <3>1 DEF SessionInv, Fresh
    <3>4. ASSUME NEW j \in i + 1 .. Len(q), q[j].type = "HEADERS"
          PROVE  q[j].id # q[i].id
      <4>1. CASE j \in i + 1 .. Len(s.ob_reg)
        <5>1. q[j] = s.ob_reg[j]
          BY <1>4, <2>2, <4>1
        <5> QED
          BY <3>1, <3>3, <3>4, <4>1, <5>1
      <4>2. CASE j = Len(s.ob_reg) + 1
        BY <1>1, <1>2, <1>4, <3>1, <3>2, <3>3, <4>2
      <4> QED
        BY <1>4, <3>4, <4>1, <4>2
    <3> QED
      BY <1>1, <3>1, <3>2, <3>3, <3>4
  <2> QED
    BY <1>4, <2>1, <2>2
<1>9. Moves(srv, s, [s EXCEPT !.ob_reg = q, !.next_stream_id = k + 2])
  <2> HIDE DEF k
  <2> QED
    BY <1>4, <1>5, <1>6, <1>8, RegularReplaced DEF k
<1>10. submit_request(s) = [s EXCEPT !.ob_reg = q, !.next_stream_id = k + 2]
  BY <1>1 DEF submit_request, Enqueue, SessionType, q, f
<1> QED
  BY <1>9, <1>10

LEMMA Appended ==
    ASSUME NEW S, NEW q \in Seq(S), NEW f \in S
    PROVE  /\ Append(q, f) \in Seq(S)
           /\ \A i \in 1 .. Len(Append(q, f)) :
                (i \in 1 .. Len(q) /\ Append(q, f)[i] = q[i]) \/ Append(q, f)[i] = f
OBVIOUS

LEMMA ResponseSubmitted ==
    ASSUME NEW srv \in BOOLEAN, srv, NEW s, SessionInv(srv, s), NEW id \in StreamIds,
           NEW n \in Nat
    PROVE  Moves(srv, s, submit_response(s, id, n))
<1> DEFINE f == Response(id, n)
           q == Append(s.ob_reg, f)
<1>1. /\ s \in SessionType(srv) /\ s.ob_reg \in Seq(Regular(srv)) /\ s.next_stream_id \in Nat
      /\ Mine(srv, s.next_stream_id)
  BY FieldTypes DEF SessionInv, Sound, Fresh
<1>2. f \in Regular(srv) /\ f.type = "HEADERS"
  BY DEF Response, Responses, Regular
<1> HIDE DEF f
<1>3. /\ q \in Seq(Regular(srv))
      /\ \A i \in 1 .. Len(q) : (i \in 1 .. Len(s.ob_reg) /\ q[i] = s.ob_reg[i]) \/ q[i] = f
  BY <1>1, <1>2, Appended, Zenon
<1> HIDE DEF q
<1>4. \A i \in 1 .. Len(q) : GoawayOK(s, q[i])
  BY <1>2, <1>3 DEF SessionInv, Covered, GoawayOK
<1>5. Moves(srv, s, [s EXCEPT !.ob_reg = q, !.next_stream_id = s.next_stream_id])
  <2>1. s.next_stream_id <= s.next_stream_id
    BY <1>1
  <2>2. InOrder(q, s.last_sent_stream_id, s.next_stream_id)
    <3>1. InOrder(s.ob_reg, s.last_sent_stream_id, s.next_stream_id)
          /\ s.last_sent_stream_id \in Nat
      BY <1>1, FieldTypes DEF SessionInv, Fresh
    <3> QED
      BY <1>1, <1>2, <2>1, <3>1, InOrderAppend DEF q
  <2> QED
    BY <1>1, <1>3, <1>4, <2>1, <2>2, RegularReplaced
<1>6. submit_response(s, id, n)
        = [s EXCEPT !.ob_reg = q, !.next_stream_id = s.next_stream_id]
  BY <1>1 DEF submit_response, Enqueue, SessionType, q, f
<1> QED
  BY <1>5, <1>6

LEMMA OpenReserved ==
    ASSUME NEW srv \in BOOLEAN, NEW s, Sound(srv, s), NEW id \in StreamIds,
           s.streams[id].state = "IDLE", srv \/ ~Mine(srv, id)
    PROVE  LET t == open_stream(s, id, "RESERVED") IN
           /\ Sound(srv, t) /\ Fixed(s, t) /\ t.ob_reg = s.ob_reg
           /\ t.goaway_flags = s.goaway_flags
           /\ \A j \in StreamIds : j # id => t.streams[j] = s.streams[j]
BY OpenStream

LEMMA PromiseSubmitted ==
    ASSUME NEW srv \in BOOLEAN, srv, NEW s, SessionInv(srv, s), NEW id \in StreamIds,
           s.next_stream_id \in StreamIds
    PROVE  Moves(srv, s, submit_push_promise(s, id))
<1> DEFINE k == s.next_stream_id
           t == [s EXCEPT !.next_stream_id = k + 2]
           u == open_stream(t, k, "RESERVED")
           f == PushPromise(id, k)
           v == [u EXCEPT !.ob_reg = Append(u.ob_reg, f)]
<1>1. /\ s \in SessionType(srv) /\ s.ob_reg \in Seq(Regular(srv)) /\ k \in Nat
      /\ Mine(srv, k) /\ StreamIds \subseteq Nat
  BY FieldTypes, IdsFinite DEF SessionInv, Sound, Fresh
<1>2. k + 2 \in Nat /\ s.next_stream_id <= k + 2 /\ Mine(srv, k + 2)
  BY <1>1 DEF Mine
<1>3. s.streams[k].state = "IDLE"
  <2>1. s.next_stream_id <= s.next_stream_id
    BY <1>1
  <2> QED
    BY <1>1, <2>1 DEF SessionInv, Fresh
<1>4. Moves(srv, s, t)
  <2>1. \A i \in 1 .. Len(s.ob_reg) : GoawayOK(s, s.ob_reg[i])
    BY DEF SessionInv, Covered
  <2>4. InOrder(s.ob_reg, s.last_sent_stream_id, k + 2)
    <3> DEFINE m == k + 2
    <3>1. InOrder(s.ob_reg, s.last_sent_stream_id, k) /\ s.last_sent_stream_id \in Nat
      BY <1>1, FieldTypes DEF SessionInv, Fresh
    <3>2. k \in Nat /\ m \in Nat /\ k <= m
      BY <1>1, <1>2
    <3> HIDE DEF k, m
    <3>3. InOrder(s.ob_reg, s.last_sent_stream_id, m)
      BY <1>1, <3>1, <3>2, InOrderUpTo
    <3> QED
      BY <3>3 DEF m
  <2>2. t = [s EXCEPT !.ob_reg = s.ob_reg, !.next_stream_id = k + 2]
    BY <1>1 DEF SessionType
  <2>3. Moves(srv, s, [s EXCEPT !.ob_reg = s.ob_reg, !.next_stream_id = k + 2])
    <3> HIDE DEF k
    <3> QED
      BY <1>1, <1>2, <2>1, <2>4, RegularReplaced DEF k
  <2> QED
    BY <2>2, <2>3
<1>5. t.streams = s.streams /\ t.next_stream_id = k + 2 /\ t.ob_reg = s.ob_reg
      /\ t.last_sent_stream_id = s.last_sent_stream_id /\ t \in SessionType(srv)
  <2>1. t \in SessionType(srv)
    BY <1>4 DEF Moves, SessionInv, Sound
  <2> QED
    BY <1>1, <2>1 DEF SessionType
<1>6. submit_push_promise(s, id) = IF ~Active(s, id) THEN t ELSE v
  BY DEF submit_push_promise, Enqueue
<1> HIDE DEF t
<1>7. /\ Sound(srv, u) /\ Fixed(t, u) /\ u.ob_reg = t.ob_reg
      /\ u.goaway_flags = t.goaway_flags
      /\ \A j \in StreamIds : j # k => u.streams[j] = t.streams[j]
  <2>1. Sound(srv, t) /\ t.streams[k].state = "IDLE" /\ k \in StreamIds
    BY <1>3, <1>4, <1>5 DEF Moves, SessionInv
  <2> HIDE DEF k
  <2> QED
    BY <2>1, OpenReserved, Zenon
<1> HIDE DEF u
<1>8. Fresh(srv, u)
  <2>1. ASSUME NEW j \in StreamIds, Mine(srv, j), u.next_stream_id <= j
        PROVE  u.streams[j].state = "IDLE"
    <3>1. j # k /\ t.next_stream_id <= j
      BY <1>1, <1>5, <1>7, <2>1 DEF Fixed
    <3> QED
      BY <1>4, <1>7, <2>1, <3>1 DEF Moves, SessionInv, Fresh
  <2>2. ASSUME NEW j \in StreamIds, ~Mine(srv, j), u.last_recv_stream_id < j
        PROVE  u.streams[j].state = "IDLE"
    <3>1. j # k /\ t.last_recv_stream_id < j
      BY <1>1, <1>7, <2>2 DEF Fixed
    <3> QED
      BY <1>4, <1>7, <2>2, <3>1 DEF Moves, SessionInv, Fresh
  <2>3. Mine(srv, u.next_stream_id)
    BY <1>2, <1>5, <1>7 DEF Fixed
  <2>4. InOrder(u.ob_reg, u.last_sent_stream_id, u.next_stream_id)
    BY <1>4, <1>5, <1>7, FieldTypes DEF Fixed, Moves, SessionInv, Fresh
  <2> QED
    BY <2>1, <2>2, <2>3, <2>4 DEF Fresh
<1>9. Covered(srv, u)
  <2>1. \A j \in StreamIds : ~Mine(srv, j) => u.streams[j] = t.streams[j]
    BY <1>1, <1>7
  <2> QED
    BY <1>4, <1>7, <2>1 DEF Moves, SessionInv, Covered, GoawayOK, Fixed
<1>10. Moves(srv, t, u)
  <2>1. t.last_sent_stream_id \in Nat /\ t.server = srv /\ u.server = srv
    BY <1>5, <1>7, FieldTypes DEF Sound
  <2>2. Later(t, u)
    BY <1>3, <1>5, <1>7, <2>1 DEF Later, Fixed
  <2> QED
    BY <1>7, <1>8, <1>9, <2>2 DEF Moves, SessionInv
<1>11. Moves(srv, u, v)
  <2> DEFINE q == Append(u.ob_reg, f)
             m == k + 2
  <2>1. f \in Regular(srv) /\ f.type = "PUSH_PROMISE" /\ f.promised = k
    BY <1>1 DEF PushPromise, Promises, Regular, Mine
  <2>2. /\ u \in SessionType(srv) /\ u.ob_reg \in Seq(Regular(srv)) /\ SessionInv(srv, u)
        /\ u.next_stream_id = m /\ u.ob_reg = s.ob_reg
        /\ u.last_sent_stream_id = s.last_sent_stream_id /\ m \in Nat /\ k < m
    <3>1. u \in SessionType(srv) /\ SessionInv(srv, u)
      BY <1>7, <1>10 DEF Sound, Moves
    <3>2. u.ob_reg \in Seq(Regular(srv)) /\ t.server
      BY <1>5, <3>1, FieldTypes
    <3>3. /\ u.next_stream_id = m /\ u.ob_reg = s.ob_reg
          /\ u.last_sent_stream_id = s.last_sent_stream_id
      BY <1>5, <1>7, <3>2 DEF Fixed
    <3>4. k < m
      <4> HIDE DEF k
      <4> QED
        BY <1>1
    <3> QED
      BY <1>2, <3>1, <3>2, <3>3, <3>4
  <2> HIDE DEF f
  <2>3. /\ q \in Seq(Regular(srv))
        /\ \A i \in 1 .. Len(q) : (i \in 1 .. Len(u.ob_reg) /\ q[i] = u.ob_reg[i]) \/ q[i] = f
    <3> HIDE DEF k, m
    <3>1. f \in Regular(srv) /\ u.ob_reg \in Seq(Regular(srv))
      BY <2>1, <2>2
    <3> QED
      BY <3>1, Appended, Zenon
  <2>4. InOrder(q, u.last_sent_stream_id, m)
    <3>1. InOrder(u.ob_reg, u.last_sent_stream_id, k) /\ u.last_sent_stream_id \in Nat
      BY <2>2, FieldTypes DEF SessionInv, Fresh
    <3>2. k <= m
      BY <1>1, <2>2
    <3> HIDE DEF k, m
    <3> QED
      BY <1>1, <2>1, <2>2, <3>1, <3>2, InOrderAppend DEF q
  <2>5. \A i \in 1 .. Len(q) : GoawayOK(u, q[i])
    <3>1. GoawayOK(u, f)
      BY <2>1 DEF GoawayOK
    <3>2. \A i \in 1 .. Len(u.ob_reg) : GoawayOK(u, u.ob_reg[i])
      BY <2>2 DEF SessionInv, Covered
    <3> QED
      BY <2>3, <3>1, <3>2
  <2>6. u.next_stream_id <= m /\ Mine(srv, m)
    <3>1. Mine(srv, m)
      BY <1>2
    <3>2. u.next_stream_id = m /\ m \in Nat
      BY <2>2
    <3> HIDE DEF m
    <3>3. m <= m
      BY <3>2
    <3> QED
      BY <3>1, <3>2, <3>3
  <2> HIDE DEF q, m
  <2>7. Moves(srv, u, [u EXCEPT !.ob_reg = q, !.next_stream_id = m])
    BY <2>2, <2>3, <2>4, <2>5, <2>6, RegularReplaced
  <2>8. v = [u EXCEPT !.ob_reg = q, !.next_stream_id = m]
    BY <2>2 DEF SessionType, q
  <2> QED
    BY <2>7, <2>8
<1> HIDE DEF v
<1>12. Moves(srv, s, v)
  BY <1>4, <1>10, <1>11, MovesTwice DEF Moves
<1> QED
  BY <1>4, <1>6, <1>12

LEMMA ReadFailed ==
    ASSUME NEW srv \in BOOLEAN, NEW s, SessionInv(srv, s), NEW id \in StreamIds
    PROVE  /\ Moves(srv, s, detach_item(s, id))
           /\ Moves(srv, s, defer_item(s, id))
           /\ Moves(srv, s, add_rst_stream(detach_item(s, id), id))
<1>1. Moves(srv, s, detach_item(s, id)) /\ Moves(srv, s, defer_item(s, id))
  BY ItemDetached, CalmMoves DEF SessionInv, Sound
<1>2. Moves(srv, detach_item(s, id), add_rst_stream(detach_item(s, id), id))
  BY <1>1, EndsMove DEF Moves
<1> QED
  BY <1>1, <1>2, MovesTwice DEF Moves

LEMMA SettingsSubmitted ==
    ASSUME NEW srv \in BOOLEAN, NEW s, SessionInv(srv, s), NEW f \in SettingsFrames
    PROVE  Moves(srv, s, submit_settings(s, f))
BY SubmitSettings, CalmMoves DEF SessionInv, Sound

LEMMA NewSession ==
    ASSUME NEW srv \in BOOLEAN, NEW max \in Int
    PROVE  SessionInv(srv, session_new(srv, max))
<1> DEFINE s == session_new(srv, max)
<1>1. s \in SessionType(srv)
  <2>1. [id \in StreamIds |-> NoStream] \in [StreamIds -> StreamType]
    BY NoStreamType
  <2>2. <<>> \in Seq(SettingsFrames \cup Acks) /\ <<>> \in Seq(Regular(srv))
        /\ <<>> \in Seq(Resets) /\ <<>> \in Seq(SettingsFrames)
    OBVIOUS
  <2>3. InitialWindow \in Nat /\ Unlimited \in Nat
    BY SizeAssumption DEF Unlimited
  <2> QED
    BY <2>1, <2>2, <2>3 DEF session_new, SessionType
<1>2. /\ s.server = srv /\ s.ob_reg = <<>> /\ s.goaway_flags = {}
      /\ s.next_stream_id = IF srv THEN 2 ELSE 1
      /\ s.last_sent_stream_id = 0
      /\ s.last_recv_stream_id = 0 /\ s.last_proc_stream_id = 0
      /\ s.local_last_stream_id = Unlimited
      /\ s.num_outgoing_streams = 0 /\ s.num_incoming_streams = 0
      /\ s.num_incoming_reserved_streams = 0
      /\ \A id \in StreamIds : s.streams[id].state = "IDLE"
  BY NoStreamType DEF session_new
<1> HIDE DEF s
<1>3. \A id \in StreamIds : ~Active(s, id)
  BY <1>2 DEF Active
<1>4. Sound(srv, s)
  <2>1. /\ {id \in StreamIds : Outgoing(s, id)} = {}
        /\ {id \in StreamIds : Incoming(s, id)} = {}
        /\ {id \in StreamIds : ReservedRemote(s, id)} = {}
    BY <1>3 DEF Outgoing, Incoming, ReservedRemote
  <2>2. Cardinality({}) = 0
    BY FS_EmptySet
  <2> QED
    BY <1>1, <1>2, <1>3, <2>1, <2>2 DEF Sound, PushOK, CountersMatch
<1>5. Len(s.ob_reg) = 0
  BY <1>2
<1>6. Fresh(srv, s)
  <2>1. Mine(srv, s.next_stream_id)
    BY <1>2 DEF Mine
  <2>2. srv => InOrder(s.ob_reg, s.last_sent_stream_id, s.next_stream_id)
    BY <1>2, <1>5 DEF InOrder
  <2> QED
    BY <1>2, <1>5, <2>1, <2>2 DEF Fresh
<1>7. Covered(srv, s)
  BY <1>2, <1>5, SizeAssumption DEF Covered
<1> QED
  BY <1>4, <1>6, <1>7 DEF SessionInv, s

-----------------------------------------------------------------------------
(***************************************************************************)
(* The inductive invariant: both sessions, and the frames between them.    *)
(***************************************************************************)
Srv(e) == e = "server"

SessionsOK ==
    /\ DOMAIN session = Ends
    /\ \A e \in Ends : SessionInv(Srv(e), session[e])

WireOK ==
    /\ DOMAIN wire = Ends
    /\ \A e \in Ends :
         /\ wire[e] \in Seq(Frames(Srv(e)))
         /\ \A i \in 1 .. Len(wire[e]) : GoawayOK(session[e], wire[e][i])

OthersOK ==
    /\ alive \in [Ends -> BOOLEAN]
    /\ settings_timer \in BOOLEAN /\ tightened \in BOOLEAN
    /\ resets \in 0 .. MaxResets /\ failures \in 0 .. MaxFailures

ConnectionInv == SessionsOK /\ WireOK /\ OthersOK

\* What one step leaves of both sessions.
Onward == \A e \in Ends : Later(session[e], session'[e])

LEMMA Sides ==
    /\ \A e \in Ends : /\ Srv(e) \in BOOLEAN /\ Peer(e) \in Ends
                       /\ Srv(Peer(e)) = ~Srv(e) /\ Srv(e) = ~Srv(Peer(e))
    /\ ~Srv("client") /\ Srv("server") /\ "client" \in Ends /\ "server" \in Ends
BY DEF Srv, Ends, Peer

LEMMA SessionsMove ==
    ASSUME SessionsOK, NEW e \in Ends, NEW t, Moves(Srv(e), session[e], t), Becomes(e, t)
    PROVE  SessionsOK' /\ Onward /\ session'[e] = t
<1>1. session' = [session EXCEPT ![e] = t] /\ DOMAIN session = Ends
  BY DEF SessionsOK, Becomes
<1>2. DOMAIN session' = Ends /\ session'[e] = t
      /\ \A d \in Ends : d # e => session'[d] = session[d]
  BY <1>1
<1>3. ASSUME NEW d \in Ends PROVE SessionInv(Srv(d), session'[d])
  BY <1>2 DEF SessionsOK, Moves
<1>4. ASSUME NEW d \in Ends PROVE Later(session[d], session'[d])
  <2>1. Moves(Srv(d), session[d], session[d])
    BY Sides, MovesSelf DEF SessionsOK
  <2> QED
    BY <1>2, <2>1 DEF Moves
<1> QED
  BY <1>2, <1>3, <1>4 DEF SessionsOK, Onward

LEMMA SessionsStay ==
    ASSUME SessionsOK, UNCHANGED session
    PROVE  SessionsOK' /\ Onward
<1>1. ASSUME NEW d \in Ends PROVE Later(session[d], session'[d])
  <2>1. Moves(Srv(d), session[d], session[d])
    BY Sides, MovesSelf DEF SessionsOK
  <2> QED
    BY <2>1 DEF Moves
<1> QED
  BY <1>1 DEF SessionsOK, Onward

LEMMA WireChanges ==
    ASSUME WireOK, Onward, NEW e \in Ends, NEW q \in Seq(Frames(Srv(e))),
           \A i \in 1 .. Len(q) : GoawayOK(session'[e], q[i]),
           wire' = [wire EXCEPT ![e] = q]
    PROVE  WireOK'
<1>1. DOMAIN wire' = Ends /\ wire'[e] = q /\ \A d \in Ends : d # e => wire'[d] = wire[d]
  BY DEF WireOK
<1>2. ASSUME NEW d \in Ends, NEW i \in 1 .. Len(wire[d])
      PROVE  GoawayOK(session'[d], wire[d][i])
  BY GoawayStaysOK DEF WireOK, Onward
<1> QED
  BY <1>1, <1>2 DEF WireOK

LEMMA WireStays ==
    ASSUME WireOK, Onward, UNCHANGED wire
    PROVE  WireOK'
<1>1. ASSUME NEW d \in Ends, NEW i \in 1 .. Len(wire[d])
      PROVE  GoawayOK(session'[d], wire[d][i])
  BY GoawayStaysOK DEF WireOK, Onward
<1> QED
  BY <1>1 DEF WireOK

LEMMA WireGrows ==
    ASSUME WireOK, Onward, NEW e \in Ends, NEW f \in Frames(Srv(e)),
           GoawayOK(session'[e], f), Put(e, f)
    PROVE  WireOK'
<1> DEFINE q == Append(wire[e], f)
<1>1. /\ q \in Seq(Frames(Srv(e)))
      /\ \A i \in 1 .. Len(q) :
           (i \in 1 .. Len(wire[e]) /\ q[i] = wire[e][i]) \/ q[i] = f
  BY Appended, Zenon DEF WireOK
<1>2. wire' = wire \/ wire' = [wire EXCEPT ![e] = q]
  BY DEF Put
<1> HIDE DEF q
<1>3. \A i \in 1 .. Len(q) : GoawayOK(session'[e], q[i])
  BY <1>1, GoawayStaysOK DEF WireOK, Onward
<1> QED
  BY <1>1, <1>2, <1>3, WireChanges, WireStays

\* A prepared frame is sent or dropped.
LEMMA SentOrDropped ==
    ASSUME SessionsOK, WireOK, NEW e \in Ends, NEW s, Moves(Srv(e), session[e], s),
           NEW f \in Frames(Srv(e)) \ DataFrames, GoawayOK(s, f), PromiseIsNext(s, f),
           f \in Requests => /\ s.streams[f.id].state = "INITIAL"
                             /\ s.streams[f.id].push = FALSE,
           IF MaySend(s, f) THEN Becomes(e, after_frame_sent(s, f)) /\ Put(e, f)
                            ELSE Becomes(e, not_sent(s, f)) /\ UNCHANGED wire
    PROVE  SessionsOK' /\ WireOK' /\ Onward
<1>1. Srv(e) \in BOOLEAN /\ SessionInv(Srv(e), s) /\ SessionInv(Srv(e), session[e])
  BY Sides DEF SessionsOK, Moves
<1>2. /\ MaySend(s, f) => Moves(Srv(e), s, after_frame_sent(s, f))
      /\ ~MaySend(s, f) => Moves(Srv(e), s, not_sent(s, f))
  BY <1>1, FrameSent
<1>3. CASE MaySend(s, f)
  <2>1. Moves(Srv(e), s, after_frame_sent(s, f))
    BY <1>2, <1>3
  <2>2. Moves(Srv(e), session[e], after_frame_sent(s, f))
    BY <1>1, <2>1, MovesTwice
  <2>3. SessionsOK' /\ Onward /\ session'[e] = after_frame_sent(s, f)
    BY <1>3, <2>2, SessionsMove
  <2>4. GoawayOK(session'[e], f)
    BY <2>1, <2>3, GoawayStaysOK DEF Moves
  <2> QED
    BY <1>3, <2>3, <2>4, WireGrows
<1>4. CASE ~MaySend(s, f)
  <2>1. Moves(Srv(e), s, not_sent(s, f))
    BY <1>2, <1>4
  <2>2. Moves(Srv(e), session[e], not_sent(s, f))
    BY <1>1, <2>1, MovesTwice
  <2>3. SessionsOK' /\ Onward
    BY <1>4, <2>2, SessionsMove
  <2> QED
    BY <1>4, <2>3, WireStays
<1> QED
  BY <1>3, <1>4

LEMMA UrgentStep ==
    ASSUME ConnectionInv, NEW e \in Ends, SendUrgent(e)
    PROVE  SessionsOK' /\ WireOK' /\ Onward
<1> DEFINE t == [session[e] EXCEPT !.ob_urgent = Tail(session[e].ob_urgent)]
           f == Head(session[e].ob_urgent)
<1>1. Srv(e) \in BOOLEAN /\ SessionInv(Srv(e), session[e]) /\ session[e].ob_urgent # <<>>
      /\ SessionsOK /\ WireOK
  BY Sides DEF ConnectionInv, SessionsOK, SendUrgent
<1>2. Moves(Srv(e), session[e], t) /\ f \in SettingsFrames \cup Acks
  BY <1>1, UrgentTaken
<1>3. f.type \in {"SETTINGS", "ACK"}
  BY <1>2 DEF SettingsFrames, Acks
<1>4. IF MaySend(t, f) THEN Becomes(e, after_frame_sent(t, f)) /\ Put(e, f)
                       ELSE Becomes(e, not_sent(t, f)) /\ UNCHANGED wire
  <2>1. prepare(t, f) = t
    BY <1>3 DEF prepare
  <2> HIDE DEF f
  <2> QED
    BY <2>1 DEF SendUrgent, SendFrom, f
<1> HIDE DEF t, f
<1>5. f \in Frames(Srv(e)) \ DataFrames /\ f \notin Requests /\ GoawayOK(t, f)
      /\ PromiseIsNext(t, f)
  BY <1>2, <1>3 DEF Frames, DataFrames, Requests, GoawayOK, PromiseIsNext
<1> QED
  BY <1>1, <1>2, <1>4, <1>5, SentOrDropped

LEMMA SynStep ==
    ASSUME ConnectionInv, NEW e \in Ends, SendSyn(e)
    PROVE  SessionsOK' /\ WireOK' /\ Onward
<1> DEFINE t == [session[e] EXCEPT !.ob_syn = Tail(session[e].ob_syn)]
           f == Head(session[e].ob_syn)
<1>1. Srv(e) \in BOOLEAN /\ SessionInv(Srv(e), session[e]) /\ session[e].ob_syn # <<>>
      /\ SessionsOK /\ WireOK
  BY Sides DEF ConnectionInv, SessionsOK, SendSyn
<1>2. Moves(Srv(e), session[e], t) /\ f \in Resets
  BY <1>1, SynTaken
<1>3. f.type = "RST_STREAM"
  BY <1>2 DEF Resets
<1>4. IF MaySend(t, f) THEN Becomes(e, after_frame_sent(t, f)) /\ Put(e, f)
                       ELSE Becomes(e, not_sent(t, f)) /\ UNCHANGED wire
  <2>1. prepare(t, f) = t
    BY <1>3 DEF prepare
  <2> HIDE DEF f
  <2> QED
    BY <2>1 DEF SendSyn, SendFrom, f
<1> HIDE DEF t, f
<1>5. f \in Frames(Srv(e)) \ DataFrames /\ f \notin Requests /\ GoawayOK(t, f)
      /\ PromiseIsNext(t, f)
  BY <1>2, <1>3 DEF Frames, DataFrames, Requests, GoawayOK, PromiseIsNext
<1> QED
  BY <1>1, <1>2, <1>4, <1>5, SentOrDropped

LEMMA RegularStep ==
    ASSUME ConnectionInv, NEW e \in Ends, SendRegular(e)
    PROVE  SessionsOK' /\ WireOK' /\ Onward
<1> DEFINE t == [session[e] EXCEPT !.ob_reg = Tail(session[e].ob_reg)]
           f == Head(session[e].ob_reg)
           s == prepare(t, f)
<1>1. Srv(e) \in BOOLEAN /\ SessionInv(Srv(e), session[e]) /\ session[e].ob_reg # <<>>
      /\ SessionsOK /\ WireOK
  BY Sides DEF ConnectionInv, SessionsOK, SendRegular
<1>2. /\ Moves(Srv(e), session[e], t)
      /\ f \in Regular(Srv(e))
      /\ GoawayOK(t, f)
      /\ ~Srv(e) /\ f.type = "HEADERS" =>
           /\ f.id < t.next_stream_id
           /\ t.streams[f.id].state = "IDLE"
           /\ \A i \in 1 .. Len(t.ob_reg) :
                t.ob_reg[i].type = "HEADERS" => t.ob_reg[i].id # f.id
      /\ Srv(e) /\ f.type = "PUSH_PROMISE" => PromiseIsNext(t, f)
  BY <1>1, RegularTaken DEF PromiseIsNext
<1>3. IF MaySend(s, f) THEN Becomes(e, after_frame_sent(s, f)) /\ Put(e, f)
                       ELSE Becomes(e, not_sent(s, f)) /\ UNCHANGED wire
  BY DEF SendRegular, SendFrom
<1> HIDE DEF t, f
<1>4. f \in Frames(Srv(e)) \ DataFrames
  BY <1>2 DEF Frames, DataFrames, Regular, Requests, Responses, Promises, Updates, Goaways
<1>7. PromiseIsNext(t, f)
  <2>1. f.type = "PUSH_PROMISE" => Srv(e)
    BY <1>1, <1>2 DEF Regular, Requests, Updates, Goaways
  <2> QED
    BY <1>2, <2>1 DEF PromiseIsNext
<1>5. CASE f \in Requests
  <2>1. /\ f.id \in StreamIds /\ Mine(Srv(e), f.id) /\ ~Srv(e)
        /\ f.type = "HEADERS" /\ f.cat = "REQUEST"
    BY <1>1, <1>2, <1>5
       DEF Requests, Mine, Regular, Responses, Promises, Updates, Goaways
  <2>2. s = open_stream(t, f.id, "INITIAL")
    BY <2>1 DEF prepare
  <2>3. /\ Moves(Srv(e), t, s)
        /\ s.streams[f.id].state = "INITIAL" /\ s.streams[f.id].push = FALSE
    <3>1. /\ SessionInv(Srv(e), t) /\ f.id < t.next_stream_id
          /\ t.streams[f.id].state = "IDLE"
          /\ \A i \in 1 .. Len(t.ob_reg) :
               t.ob_reg[i].type = "HEADERS" => t.ob_reg[i].id # f.id
      BY <1>2, <2>1 DEF Moves
    <3> DEFINE w == open_stream(t, f.id, "INITIAL")
    <3>2. /\ Moves(Srv(e), t, w)
          /\ w.streams[f.id].state = "INITIAL" /\ w.streams[f.id].push = FALSE
      BY <1>1, <2>1, <3>1, RequestPrepared
    <3> HIDE DEF s
    <3> QED
      BY <2>2, <3>2
  <2> HIDE DEF s
  <2>4. Moves(Srv(e), session[e], s) /\ GoawayOK(s, f)
    BY <1>1, <1>2, <2>3, MovesTwice, GoawayStaysOK DEF Moves
  <2>5. PromiseIsNext(s, f)
    BY <2>1 DEF PromiseIsNext
  <2> QED
    BY <1>1, <1>3, <1>4, <2>3, <2>4, <2>5, SentOrDropped
<1>6. CASE f \notin Requests
  <2>1. ~(f.type = "HEADERS" /\ f.cat = "REQUEST")
    BY <1>1, <1>2, <1>6 DEF Regular, Responses, Promises, Updates, Goaways
  <2>2. s = t
    BY <2>1 DEF prepare
  <2> HIDE DEF s
  <2> QED
    BY <1>1, <1>2, <1>3, <1>4, <1>6, <1>7, <2>2, SentOrDropped
<1> QED
  BY <1>5, <1>6

LEMMA DataStep ==
    ASSUME ConnectionInv, NEW e \in Ends, NEW id \in StreamIds, SendData(e, id)
    PROVE  SessionsOK' /\ WireOK' /\ Onward
<1> DEFINE s == session[e]
           f == NextData(s, id)
<1>1. Srv(e) \in BOOLEAN /\ SessionInv(Srv(e), s) /\ SessionsOK /\ WireOK
  BY Sides DEF ConnectionInv, SessionsOK
<1>2. Moves(Srv(e), s, detach_item(s, id)) /\ Moves(Srv(e), s, defer_item(s, id))
  BY <1>1, ReadFailed
<1>3. CASE /\ Becomes(e, detach_item(s, id)) \/ Becomes(e, defer_item(s, id))
           /\ UNCHANGED wire
  BY <1>1, <1>2, <1>3, SessionsMove, WireStays
<1>4. CASE f.length > 0 /\ Becomes(e, data_sent(s, f)) /\ Put(e, f)
  <2>1. f \in DataFrames /\ Moves(Srv(e), s, data_sent(s, f))
    BY <1>1, <1>4, DataSent
  <2> HIDE DEF f
  <2>2. f \in Frames(Srv(e)) /\ f.type = "DATA"
    BY <2>1 DEF Frames, DataFrames
  <2>3. SessionsOK' /\ Onward
    BY <1>1, <1>4, <2>1, SessionsMove
  <2>4. GoawayOK(session'[e], f)
    BY <2>2 DEF GoawayOK
  <2> QED
    BY <1>1, <1>4, <2>2, <2>3, <2>4, WireGrows
<1>5. f.length \in Int
  <2>1. s.streams[id].item \in Nat /\ s.streams[id].remote_window_size \in Int
        /\ s.remote_window_size \in Int
    BY <1>1, FieldTypes, StreamTypes DEF SessionInv, Sound
  <2> QED
    BY <2>1, SizeAssumption DEF NextData, Data, Min2
<1> QED
  BY <1>3, <1>4, <1>5 DEF SendData

LEMMA Taken ==
    ASSUME NEW S, NEW q \in Seq(S), q # <<>>
    PROVE  /\ Head(q) \in S /\ Tail(q) \in Seq(S)
           /\ \A i \in 1 .. Len(Tail(q)) : i + 1 \in 1 .. Len(q) /\ Tail(q)[i] = q[i + 1]
OBVIOUS

LEMMA ReceiveStep ==
    ASSUME ConnectionInv, NEW e \in Ends, Receive(e)
    PROVE  SessionsOK' /\ WireOK' /\ Onward
<1> DEFINE p == Peer(e)
           f == Head(wire[p])
           q == Tail(wire[p])
<1>1. /\ Srv(e) \in BOOLEAN /\ SessionInv(Srv(e), session[e]) /\ SessionsOK /\ WireOK
      /\ p \in Ends /\ Srv(p) = ~Srv(e)
  BY Sides DEF ConnectionInv, SessionsOK
<1>2. wire[p] \in Seq(Frames(Srv(p))) /\ wire[p] # <<>>
  BY <1>1 DEF WireOK, Receive
<1>3. /\ f \in Frames(~Srv(e)) /\ q \in Seq(Frames(Srv(p)))
      /\ \A i \in 1 .. Len(q) : i + 1 \in 1 .. Len(wire[p]) /\ q[i] = wire[p][i + 1]
  <2>1. /\ f \in Frames(Srv(p)) /\ q \in Seq(Frames(Srv(p)))
        /\ \A i \in 1 .. Len(q) : i + 1 \in 1 .. Len(wire[p]) /\ q[i] = wire[p][i + 1]
    BY <1>2, Taken, Zenon
  <2> HIDE DEF p, f, q
  <2> QED
    BY <1>1, <2>1
<1>4. Moves(Srv(e), session[e], receive(session[e], f))
  BY <1>1, <1>3, FrameReceived
<1>5. Becomes(e, receive(session[e], f)) /\ wire' = [wire EXCEPT ![p] = q]
  BY DEF Receive
<1> HIDE DEF f, q, p
<1>6. SessionsOK' /\ Onward
  BY <1>1, <1>4, <1>5, SessionsMove
<1>7. \A i \in 1 .. Len(q) : GoawayOK(session'[p], q[i])
  BY <1>1, <1>3, <1>6, GoawayStaysOK DEF WireOK, Onward
<1> QED
  BY <1>1, <1>3, <1>5, <1>6, <1>7, WireChanges

LEMMA DropStep ==
    ASSUME ConnectionInv, NEW e \in Ends, Drop(e) \/ EndOfFile(e)
    PROVE  SessionsOK' /\ WireOK' /\ Onward
<1>1. SessionsOK /\ WireOK /\ Peer(e) \in Ends /\ UNCHANGED session
  BY Sides DEF ConnectionInv, Drop, EndOfFile
<1>2. SessionsOK' /\ Onward
  BY <1>1, SessionsStay
<1>3. CASE Drop(e)
  <2>1. <<>> \in Seq(Frames(Srv(Peer(e)))) /\ Len(<<>>) = 0
    OBVIOUS
  <2>2. wire' = [wire EXCEPT ![Peer(e)] = <<>>]
    BY <1>3 DEF Drop
  <2>3. \A i \in 1 .. Len(<<>>) : GoawayOK(session'[Peer(e)], <<>>[i])
    BY <2>1
  <2> QED
    BY <1>1, <1>2, <2>1, <2>2, <2>3, WireChanges
<1>4. CASE EndOfFile(e)
  BY <1>1, <1>2, <1>4, WireStays DEF EndOfFile
<1> QED
  BY <1>3, <1>4

\* The steps of the applications change one session, and nothing on the wire.
LEMMA ClientStep ==
    ASSUME ConnectionInv, ClientApp
    PROVE  SessionsOK' /\ WireOK' /\ Onward
<1>1. /\ SessionsOK /\ WireOK /\ "client" \in Ends /\ Srv("client") \in BOOLEAN
      /\ ~Srv("client") /\ SessionInv(Srv("client"), client)
  BY Sides DEF ConnectionInv, SessionsOK, client
<1>2. ASSUME NEW t, Moves(Srv("client"), client, t), Becomes("client", t), UNCHANGED wire
      PROVE  SessionsOK' /\ WireOK' /\ Onward
  BY <1>1, <1>2, SessionsMove, WireStays DEF client
<1>3. CASE SendRequest
  <2>1. Moves(Srv("client"), client, submit_request(client))
    BY <1>1, <1>3, RequestSubmitted DEF SendRequest
  <2> QED
    BY <1>2, <1>3, <2>1 DEF SendRequest
<1>4. ASSUME NEW id \in StreamIds, ResetStream(id) PROVE SessionsOK' /\ WireOK' /\ Onward
  <2>1. Moves(Srv("client"), client, add_rst_stream(client, id))
    BY <1>1, EndsMove
  <2> QED
    BY <1>2, <1>4, <2>1 DEF ResetStream
<1>5. CASE TightenLimit
  <2>1. Settings(1, Unchanged) \in SettingsFrames
    BY DEF Settings, SettingsFrames, Unchanged
  <2>2. Moves(Srv("client"), client, submit_settings(client, Settings(1, Unchanged)))
    BY <1>1, <2>1, SettingsSubmitted
  <2> QED
    BY <1>2, <1>5, <2>2 DEF TightenLimit
<1>6. CASE SettingsTimeout
  <2>1. Moves(Srv("client"), client, terminate_session(client))
    BY <1>1, Terminate, CalmMoves DEF SessionInv, Sound
  <2> QED
    BY <1>2, <1>6, <2>1 DEF SettingsTimeout
<1> QED
  BY <1>3, <1>4, <1>5, <1>6 DEF ClientApp

LEMMA ServerStep ==
    ASSUME ConnectionInv, ServerApp
    PROVE  SessionsOK' /\ WireOK' /\ Onward
<1>1. /\ SessionsOK /\ WireOK /\ "server" \in Ends /\ Srv("server") \in BOOLEAN
      /\ Srv("server") /\ SessionInv(Srv("server"), server)
  BY Sides DEF ConnectionInv, SessionsOK, server
<1>2. ASSUME NEW t, Moves(Srv("server"), server, t), Becomes("server", t), UNCHANGED wire
      PROVE  SessionsOK' /\ WireOK' /\ Onward
  BY <1>1, <1>2, SessionsMove, WireStays DEF server
<1>3. PICK id \in StreamIds : Respond(id) \/ Push(id) \/ ReadFails(id)
  BY DEF ServerApp
<1>4. CASE Respond(id)
  <2>1. PICK n \in Sizes : Becomes("server", submit_response(server, id, n))
    BY <1>4 DEF Respond
  <2>2. n \in Nat
    BY LimitAssumption
  <2>3. Moves(Srv("server"), server, submit_response(server, id, n))
    BY <1>1, <2>2, ResponseSubmitted
  <2> QED
    BY <1>2, <1>4, <2>1, <2>3 DEF Respond
<1>5. CASE Push(id)
  <2>1. Moves(Srv("server"), server, submit_push_promise(server, id))
    BY <1>1, <1>5, PromiseSubmitted DEF Push
  <2> QED
    BY <1>2, <1>5, <2>1 DEF Push
<1>6. CASE ReadFails(id)
  <2>1. Moves(Srv("server"), server, add_rst_stream(detach_item(server, id), id))
    BY <1>1, ReadFailed
  <2> QED
    BY <1>2, <1>6, <2>1 DEF ReadFails
<1> QED
  BY <1>3, <1>4, <1>5, <1>6

LEMMA OthersStep ==
    ASSUME OthersOK, [Next]_vars
    PROVE  OthersOK'
<1> USE DEF OthersOK
<1>1. ASSUME ClientApp PROVE OthersOK'
  <2>1. CASE SendRequest
    BY <2>1 DEF SendRequest
  <2>2. ASSUME NEW id \in StreamIds, ResetStream(id) PROVE OthersOK'
    <3>1. resets' = resets + 1 /\ resets < MaxResets
          /\ UNCHANGED <<alive, settings_timer, failures, tightened>>
      BY <2>2 DEF ResetStream
    <3> QED
      BY <3>1, LimitAssumption
  <2>3. CASE TightenLimit
    BY <2>3 DEF TightenLimit
  <2>4. CASE SettingsTimeout
    BY <2>4 DEF SettingsTimeout
  <2> QED
    BY <1>1, <2>1, <2>2, <2>3, <2>4 DEF ClientApp
<1>2. ASSUME ServerApp PROVE OthersOK'
  BY <1>2, LimitAssumption DEF ServerApp, Respond, Push, ReadFails
<1>3. ASSUME NEW e \in Ends, Send(e) PROVE OthersOK'
  BY <1>3 DEF Send, SendUrgent, SendRegular, SendSyn, SendFrom, SendData
<1>4. ASSUME NEW e \in Ends, Receive(e) PROVE OthersOK'
  BY <1>4 DEF Receive
<1>5. ASSUME NEW e \in Ends, Drop(e) \/ EndOfFile(e) PROVE OthersOK'
  BY <1>5 DEF Drop, EndOfFile
<1>6. CASE UNCHANGED vars
  BY <1>6 DEF vars
<1> QED
  BY <1>1, <1>2, <1>3, <1>4, <1>5, <1>6 DEF Next

LEMMA ConnectionStep ==
    ASSUME ConnectionInv, [Next]_vars
    PROVE  ConnectionInv' /\ Onward
<1>1. OthersOK'
  BY OthersStep DEF ConnectionInv
<1>2. SessionsOK' /\ WireOK' /\ Onward
  <2>1. CASE ClientApp
    BY <2>1, ClientStep
  <2>2. CASE ServerApp
    BY <2>2, ServerStep
  <2>3. ASSUME NEW e \in Ends, Send(e) PROVE SessionsOK' /\ WireOK' /\ Onward
    BY <2>3, UrgentStep, RegularStep, SynStep, DataStep DEF Send
  <2>4. ASSUME NEW e \in Ends, Receive(e) PROVE SessionsOK' /\ WireOK' /\ Onward
    BY <2>4, ReceiveStep
  <2>5. ASSUME NEW e \in Ends, Drop(e) \/ EndOfFile(e)
        PROVE  SessionsOK' /\ WireOK' /\ Onward
    BY <2>5, DropStep
  <2>6. CASE UNCHANGED vars
    BY <2>6, SessionsStay, WireStays DEF ConnectionInv, vars
  <2> QED
    BY <2>1, <2>2, <2>3, <2>4, <2>5, <2>6 DEF Next
<1> QED
  BY <1>1, <1>2 DEF ConnectionInv

LEMMA ConnectionInit ==
    ASSUME Init
    PROVE  ConnectionInv
<1> DEFINE c == submit_settings(session_new(FALSE, PeerMax), Settings(ClientMax, ClientWindow))
           s == submit_settings(session_new(TRUE, Unlimited), Settings(ServerMax, Unchanged))
<1>1. /\ Settings(ClientMax, ClientWindow) \in SettingsFrames
      /\ Settings(ServerMax, Unchanged) \in SettingsFrames
      /\ PeerMax \in Int /\ Unlimited \in Int
  BY LimitAssumption, SizeAssumption
     DEF Settings, SettingsFrames, Unchanged, Unlimited
<1>2. /\ SessionInv(FALSE, session_new(FALSE, PeerMax))
      /\ SessionInv(TRUE, session_new(TRUE, Unlimited))
  BY <1>1, NewSession
<1>3. SessionInv(FALSE, c) /\ SessionInv(TRUE, s)
  BY <1>1, <1>2, SettingsSubmitted DEF Moves
<1>4. session = [e \in Ends |-> IF e = "client" THEN c ELSE s]
  BY DEF Init
<1> HIDE DEF c, s
<1>5. SessionsOK
  <2>1. DOMAIN session = Ends /\ session["client"] = c /\ session["server"] = s
    BY <1>4 DEF Ends
  <2>2. Srv("client") = FALSE /\ Srv("server") = TRUE
    BY DEF Srv
  <2>3. SessionInv(Srv("client"), session["client"])
        /\ SessionInv(Srv("server"), session["server"])
    BY <1>3, <2>1, <2>2
  <2> QED
    BY <2>1, <2>3 DEF SessionsOK, Ends
<1>6. WireOK
  BY DEF Init, WireOK, Ends
<1>7. OthersOK
  <2>1. /\ alive = [e \in Ends |-> TRUE] /\ settings_timer = TRUE /\ tightened = FALSE
        /\ resets = 0 /\ failures = 0
    BY DEF Init
  <2>2. alive \in [Ends -> BOOLEAN]
    BY <2>1
  <2>3. resets \in 0 .. MaxResets /\ failures \in 0 .. MaxFailures
    BY <2>1, LimitAssumption
  <2> QED
    BY <2>1, <2>2, <2>3 DEF OthersOK
<1> QED
  BY <1>5, <1>6, <1>7 DEF ConnectionInv

\* The invariant is inductive, whatever the limits and the number of streams.
LEMMA Always == Spec => []ConnectionInv
<1>1. Init => ConnectionInv
  BY ConnectionInit
<1>2. ConnectionInv /\ [Next]_vars => ConnectionInv'
  BY ConnectionStep
<1> QED
  BY <1>1, <1>2, PTL DEF Spec

-----------------------------------------------------------------------------
(***************************************************************************)
(* The theorems.                                                           *)
(***************************************************************************)
\* Every variable has its type, and each of the three queues of a session only
\* ever holds the frames it is served for (ConnectionTypeOK).
THEOREM ConnectionTypeCorrect == Spec => []ConnectionTypeOK
<1>1. ConnectionInv => ConnectionTypeOK
  <2> SUFFICES ASSUME ConnectionInv PROVE ConnectionTypeOK
    OBVIOUS
  <2>1. ASSUME NEW e \in Ends
        PROVE  /\ session[e].streams \in [StreamIds -> StreamType]
               /\ session[e].goaway_flags \subseteq {"TERM_ON_SEND", "TERM_SENT", "SENT", "RECV"}
               /\ \A i \in DOMAIN session[e].ob_urgent :
                    session[e].ob_urgent[i].type \in {"SETTINGS", "ACK"}
               /\ \A i \in DOMAIN session[e].ob_syn : session[e].ob_syn[i].type = "RST_STREAM"
               /\ \A i \in DOMAIN session[e].ob_reg :
                    session[e].ob_reg[i].type \in
                      {"HEADERS", "PUSH_PROMISE", "WINDOW_UPDATE", "GOAWAY"}
    <3> DEFINE s == session[e]
    <3>1. s \in SessionType(Srv(e)) /\ Srv(e) \in BOOLEAN
      BY Sides DEF ConnectionInv, SessionsOK, SessionInv, Sound
    <3> HIDE DEF s
    <3>2. /\ s.streams \in [StreamIds -> StreamType]
          /\ s.goaway_flags \subseteq {"TERM_ON_SEND", "TERM_SENT", "SENT", "RECV"}
          /\ s.ob_urgent \in Seq(SettingsFrames \cup Acks)
          /\ s.ob_syn \in Seq(Resets)
          /\ s.ob_reg \in Seq(Regular(Srv(e)))
      BY <3>1, FieldTypes
    <3>3. /\ \A f \in SettingsFrames \cup Acks : f.type \in {"SETTINGS", "ACK"}
          /\ \A f \in Resets : f.type = "RST_STREAM"
          /\ \A f \in Regular(Srv(e)) :
               f.type \in {"HEADERS", "PUSH_PROMISE", "WINDOW_UPDATE", "GOAWAY"}
      BY DEF SettingsFrames, Acks, Resets, Regular, Requests, Responses, Promises, Updates,
             Goaways
    <3>4. /\ \A i \in DOMAIN s.ob_urgent : s.ob_urgent[i].type \in {"SETTINGS", "ACK"}
          /\ \A i \in DOMAIN s.ob_syn : s.ob_syn[i].type = "RST_STREAM"
          /\ \A i \in DOMAIN s.ob_reg :
               s.ob_reg[i].type \in {"HEADERS", "PUSH_PROMISE", "WINDOW_UPDATE", "GOAWAY"}
      BY <3>2, <3>3
    <3> QED
      BY <3>2, <3>4 DEF s
  <2> QED
    BY <2>1 DEF ConnectionTypeOK, ConnectionInv, OthersOK
<1> QED
  BY <1>1, Always, PTL

\* The numbers of streams that open_stream, close_stream, the HEADERS of a push
\* response and the two GOAWAY handlers keep by hand are, on both sides and
\* after any exchange of frames, the numbers of streams they stand for.
THEOREM CountersAreExact == Spec => []CountersExact
<1>1. ConnectionInv => CountersExact
  BY DEF ConnectionInv, SessionsOK, SessionInv, Sound, CountersExact
<1> QED
  BY <1>1, Always, PTL

\* No GOAWAY on the wire falls short of a stream its sender has let its
\* application see: once terminate_session has queued one, no stream of the
\* peer is accepted any more, and the promises are counted as processed too.
THEOREM GoawaysCover == Spec => []GoawayCoversProcessed
<1>1. ConnectionInv => GoawayCoversProcessed
  <2> SUFFICES ASSUME ConnectionInv, NEW e \in Ends, NEW i \in DOMAIN wire[e],
                      wire[e][i].type = "GOAWAY", NEW id \in StreamIds,
                      session[e].streams[id].state # "IDLE",
                      ~is_my_stream_id(session[e], id)
               PROVE  id <= wire[e][i].last
    BY DEF GoawayCoversProcessed
  <2> DEFINE s == session[e]
             f == wire[e][i]
  <2>1. SessionInv(Srv(e), s) /\ Srv(e) \in BOOLEAN /\ s \in SessionType(Srv(e))
        /\ wire[e] \in Seq(Frames(Srv(e)))
    BY Sides DEF ConnectionInv, SessionsOK, WireOK, SessionInv, Sound
  <2>2. i \in 1 .. Len(wire[e]) /\ f \in Frames(Srv(e))
    BY <2>1
  <2>3. GoawayOK(s, f)
    BY <2>2 DEF ConnectionInv, WireOK
  <2>4. s.last_proc_stream_id <= f.last
    BY <2>3 DEF GoawayOK
  <2>5. id \in Nat /\ ~Mine(Srv(e), id)
    BY <2>1, IdsFinite, MineIs
  <2>6. id <= s.last_proc_stream_id
    BY <2>1, <2>5 DEF SessionInv, Covered
  <2>7. f.last \in Nat
    <3> HIDE DEF f
    <3>1. f.type = "GOAWAY"
      BY DEF f
    <3> QED
      BY <2>2, <3>1 DEF Frames, Regular, Requests, Responses, Promises, Resets, Updates,
           Goaways, SettingsFrames, Acks, DataFrames
  <2>8. s.last_proc_stream_id \in Nat
    BY <2>1, FieldTypes
  <2> QED
    BY <2>4, <2>5, <2>6, <2>7, <2>8
<1> QED
  BY <1>1, Always, PTL

\* No frame, late or not, brings back a stream that is closed or being reset.
THEOREM ClosedIsFinal == Spec => ResetIsFinal
<1>1. ConnectionInv /\ [Next]_vars =>
        [\A e \in Ends : \A id \in StreamIds :
           /\ session[e].streams[id].state = "CLOSED" =>
                  session'[e].streams[id].state = "CLOSED"
           /\ session[e].streams[id].state = "CLOSING" =>
                  session'[e].streams[id].state \in {"CLOSING", "CLOSED"}]_vars
  BY ConnectionStep DEF Onward, Later
<1> QED
  BY <1>1, Always, PTL DEF Spec, ResetIsFinal

=============================================================================
