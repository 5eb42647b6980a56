------------------------------ MODULE Session ------------------------------
(***************************************************************************)
(* One endpoint of an HTTP/2 connection: the session object of the edited  *)
(* nghttp2 (nghttp2_session.c).  Client and server of the testbed are both *)
(* built from it.  A session is a record, and an operator of this module   *)
(* maps a session to what a function of the library leaves of it.          *)
(* Connection.tla joins two sessions.                                      *)
(*                                                                         *)
(* Payload is counted in units.  The scheduling of DATA by the dependency  *)
(* tree, header compression and HTTP messaging rules are left out, and so  *)
(* are frames neither side of the testbed sends (PING, ALTSVC, trailers,   *)
(* request bodies).                                                        *)
(***************************************************************************)
EXTENDS Integers, Sequences, FiniteSets

CONSTANTS
    MaxStreamId,    \* bound on the stream ids of both sides
    InitialWindow,  \* NGHTTP2_INITIAL_WINDOW_SIZE, of streams and connection
    MaxFrameSize,   \* largest payload of a DATA frame
    MaxReserved     \* max_incoming_reserved_streams (200)

ASSUME SizeAssumption ==
    /\ MaxStreamId \in Nat /\ InitialWindow \in Nat \ {0} /\ MaxFrameSize \in Nat \ {0}
    /\ MaxReserved \in Nat

StreamIds == 1 .. MaxStreamId
Unlimited == MaxStreamId + 1    \* above every id and every number of streams
NoItem == 0                     \* no DATA attached: units left to send
Unchanged == -1                 \* a SETTINGS frame without that entry

Min2(a, b) == IF a < b THEN a ELSE b
-----------------------------------------------------------------------------
(***************************************************************************)
(* Frames.  A HEADERS frame carries the size of the body that its sender   *)
(* will send after it: END_STREAM is set iff that is 0.                    *)
(***************************************************************************)
Request(id) == [type |-> "HEADERS", cat |-> "REQUEST", id |-> id, size |-> 0]
Response(id, n) == [type |-> "HEADERS", cat |-> "HEADERS", id |-> id, size |-> n]
RstStream(id) == [type |-> "RST_STREAM", id |-> id]
PushPromise(id, promised) ==
    [type |-> "PUSH_PROMISE", id |-> id, promised |-> promised]
WindowUpdate(id, n) == [type |-> "WINDOW_UPDATE", id |-> id, increment |-> n]
Settings(max, window) == [type |-> "SETTINGS", max |-> max, window |-> window]
SettingsAck == [type |-> "ACK"]
Goaway(last, term) == [type |-> "GOAWAY", last |-> last, term |-> term]
Data(id, n, end) == [type |-> "DATA", id |-> id, length |-> n, end |-> end]
-----------------------------------------------------------------------------
(***************************************************************************)
(* Streams and the session.  IDLE stands for a stream the session has no   *)
(* object for.  CLOSED is a stream whose close callback has run: a closed  *)
(* stream is looked up only for uploads and reused ids, so nothing but its *)
(* state is kept.                                                          *)
(***************************************************************************)
NoStream == [state |-> "IDLE", push |-> FALSE, shut |-> {},
             remote_window_size |-> 0, local_window_size |-> 0,
             recv_window_size |-> 0, window_update_queued |-> FALSE,
             item |-> NoItem, deferred |-> FALSE]

ClosedStream == [NoStream EXCEPT !.state = "CLOSED"]

session_new(server, peer_max) ==
    [server |-> server,
     streams |-> [id \in StreamIds |-> NoStream],
     next_stream_id |-> IF server THEN 2 ELSE 1,
     last_sent_stream_id |-> 0,
     last_recv_stream_id |-> 0,
     last_proc_stream_id |-> 0,
     local_last_stream_id |-> Unlimited,
     remote_last_stream_id |-> Unlimited,
     num_outgoing_streams |-> 0,
     num_incoming_streams |-> 0,
     num_incoming_reserved_streams |-> 0,
     ob_urgent |-> <<>>,
     ob_reg |-> <<>>,
     ob_syn |-> <<>>,
     goaway_flags |-> {},
     remote_window_size |-> InitialWindow,
     local_window_size |-> InitialWindow,
     recv_window_size |-> 0,
     window_update_queued |-> FALSE,
     remote_max |-> peer_max,
     local_max |-> Unlimited,
     pending_local_max |-> Unlimited,
     remote_initial_window |-> InitialWindow,
     local_initial_window |-> InitialWindow,
     inflight_settings |-> <<>>]

\* nghttp2_session_get_stream finds the stream.
Active(s, id) == s.streams[id].state \notin {"IDLE", "CLOSED"}
ActiveStreams(s) == {id \in StreamIds : Active(s, id)}

is_my_stream_id(s, id) == (id % 2 = 0) = s.server
is_new_peer_stream_id(s, id) ==
    ~is_my_stream_id(s, id) /\ s.last_recv_stream_id < id
detect_idle_stream(s, id) ==
    id > IF is_my_stream_id(s, id) THEN s.last_sent_stream_id
                                   ELSE s.last_recv_stream_id

outgoing_max(s) == s.remote_max <= s.num_outgoing_streams
incoming_max(s) == s.local_max <= s.num_incoming_streams
incoming_pending_max(s) == s.pending_local_max <= s.num_incoming_streams

want_read(s) ==
    /\ "TERM_SENT" \notin s.goaway_flags
    /\ ActiveStreams(s) # {} \/ s.goaway_flags \cap {"SENT", "RECV"} = {}

\* root.obq is not empty: some stream has DATA that is not deferred.
DataQueued(s) == {id \in ActiveStreams(s) :
                    s.streams[id].item # NoItem /\ ~s.streams[id].deferred}

want_write(s) ==
    /\ s.goaway_flags \cap {"TERM_SENT", "SENT", "RECV"} = {}
    /\ \/ s.ob_urgent # <<>> \/ s.ob_reg # <<>>
       \/ DataQueued(s) # {} /\ s.remote_window_size # 0
       \/ s.ob_syn # <<>> /\ ~outgoing_max(s)

is_closing(s) ==
    "TERM_ON_SEND" \in s.goaway_flags \/ (~want_read(s) /\ ~want_write(s))

allow_incoming_new_stream(s) ==
    s.goaway_flags \cap {"TERM_ON_SEND", "SENT"} = {}
-----------------------------------------------------------------------------
(***************************************************************************)
(* Opening and closing of streams.                                         *)
(***************************************************************************)
Enqueue(s, queue, frame) == [s EXCEPT ![queue] = Append(@, frame)]

\* Which counter a stream is in: one that is pushed and not yet opened is
\* counted by its receiver only, as reserved.
Outgoing(s, id) == Active(s, id) /\ is_my_stream_id(s, id) /\ ~s.streams[id].push
Incoming(s, id) == Active(s, id) /\ ~is_my_stream_id(s, id) /\ ~s.streams[id].push
ReservedRemote(s, id) == Active(s, id) /\ ~is_my_stream_id(s, id) /\ s.streams[id].push

open_stream(s, id, state) ==
    LET reserved == state = "RESERVED"
        mine == is_my_stream_id(s, id)
        one(b) == IF b THEN 1 ELSE 0
    IN  [s EXCEPT
           !.streams[id] = [NoStream EXCEPT
               !.state = state,
               !.push = reserved,
               !.shut = IF ~reserved THEN {} ELSE IF mine THEN {"RD"} ELSE {"WR"},
               !.remote_window_size = s.remote_initial_window,
               !.local_window_size = s.local_initial_window],
           !.num_incoming_reserved_streams = @ + one(reserved /\ ~mine),
           !.num_outgoing_streams = @ + one(~reserved /\ mine),
           !.num_incoming_streams = @ + one(~reserved /\ ~mine)]

\* Mutant: a promised stream is taken out of the wrong counter.
close_streams_PushIsIncoming(s, ids) ==
    [s EXCEPT
       !.streams = [id \in StreamIds |-> IF id \in ids /\ Active(s, id)
                                         THEN ClosedStream ELSE @[id]],
       !.num_outgoing_streams = @ - Cardinality({id \in ids : Outgoing(s, id)}),
       !.num_incoming_streams =
           @ - Cardinality({id \in ids : Active(s, id) /\ ~is_my_stream_id(s, id)})]

\* Closes the streams of ids that are found, each of them once.
close_streams(s, ids) ==
    [s EXCEPT
       !.streams = [id \in StreamIds |-> IF id \in ids /\ Active(s, id)
                                         THEN ClosedStream ELSE @[id]],
       !.num_incoming_reserved_streams =
           @ - Cardinality({id \in ids : ReservedRemote(s, id)}),
       !.num_outgoing_streams = @ - Cardinality({id \in ids : Outgoing(s, id)}),
       !.num_incoming_streams = @ - Cardinality({id \in ids : Incoming(s, id)})]

close_stream(s, id) == close_streams(s, {id})

close_stream_if_shut_rdwr(s, id) ==
    IF s.streams[id].shut = {"RD", "WR"} THEN close_stream(s, id) ELSE s

\* nghttp2_stream_shutdown, then the close that follows it everywhere.
shutdown(s, id, dir) ==
    close_stream_if_shut_rdwr([s EXCEPT !.streams[id].shut = @ \cup {dir}], id)

\* session_close_stream_on_goaway.
close_stream_on_goaway(s, last, incoming) ==
    close_streams(s, {id \in StreamIds : id > last
                                           /\ is_my_stream_id(s, id) = ~incoming})

add_rst_stream(s, id) ==
    IF ~Active(s, id) THEN Enqueue(s, "ob_syn", RstStream(id))
    ELSE IF s.streams[id].state = "CLOSING" THEN s
    ELSE Enqueue([s EXCEPT !.streams[id].state = "CLOSING"], "ob_syn", RstStream(id))

add_goaway(s, last) ==
    Enqueue(s, "ob_reg", Goaway(Min2(last, s.local_last_stream_id), TRUE))

\* A connection error, or the settings timeout of the client.
terminate_session(s) ==
    IF "TERM_ON_SEND" \in s.goaway_flags THEN s
    ELSE [add_goaway(s, s.last_proc_stream_id) EXCEPT !.goaway_flags = @ \cup {"TERM_ON_SEND"}]
-----------------------------------------------------------------------------
(***************************************************************************)
(* Receive windows.                                                        *)
(***************************************************************************)
should_send_window_update(local, recv) == recv > 0 /\ recv >= local \div 2

\* n more units of the connection window are used up; half of it or more is
\* given back at once, unless an update still waits to be sent.
update_recv_connection_window_size(s, n) ==
    LET t == [s EXCEPT !.recv_window_size = @ + n]
    IN  IF t.recv_window_size > s.local_window_size THEN terminate_session(s)
        ELSE IF ~s.window_update_queued
                  /\ should_send_window_update(t.local_window_size, t.recv_window_size)
             THEN [Enqueue(t, "ob_reg", WindowUpdate(0, t.recv_window_size))
                     EXCEPT !.window_update_queued = TRUE, !.recv_window_size = 0]
             ELSE t

\* The same of a stream; the last chunk of a body gives nothing back.
update_recv_stream_window_size(s, id, n, send) ==
    LET t == [s EXCEPT !.streams[id].recv_window_size = @ + n]
        stream == t.streams[id]
    IN  IF stream.recv_window_size > stream.local_window_size THEN add_rst_stream(s, id)
        ELSE IF send /\ ~stream.window_update_queued
                  /\ should_send_window_update(stream.local_window_size,
                                               stream.recv_window_size)
             THEN [Enqueue(t, "ob_reg", WindowUpdate(id, stream.recv_window_size))
                     EXCEPT !.streams[id].window_update_queued = TRUE,
                            !.streams[id].recv_window_size = 0]
             ELSE t
-----------------------------------------------------------------------------
(***************************************************************************)
(* What the application submits.                                           *)
(***************************************************************************)
submit_settings(s, f) ==
    [Enqueue(s, "ob_urgent", f) EXCEPT
       !.inflight_settings = Append(@, f),
       !.pending_local_max = IF f.max = Unchanged THEN @ ELSE f.max]

submit_request(s) ==
    [Enqueue(s, "ob_reg", Request(s.next_stream_id)) EXCEPT !.next_stream_id = @ + 2]

submit_response(s, id, n) == Enqueue(s, "ob_reg", Response(id, n))

submit_push_promise(s, id) ==
    LET t == [s EXCEPT !.next_stream_id = @ + 2]
    IN  IF ~Active(s, id) THEN t
        ELSE Enqueue(open_stream(t, s.next_stream_id, "RESERVED"), "ob_reg",
                     PushPromise(id, s.next_stream_id))
-----------------------------------------------------------------------------
(***************************************************************************)
(* Sending.  A frame is taken from its queue, prepared, and either put on  *)
(* the wire and accounted for, or dropped.                                 *)
(***************************************************************************)
\* session_prep_frame opens the stream of a request before it checks anything.
prepare(s, f) ==
    IF f.type = "HEADERS" /\ f.cat = "REQUEST"
    THEN open_stream(s, f.id, "INITIAL") ELSE s

predicate_for_stream_send(s, id) ==
    Active(s, id) /\ ~is_closing(s) /\ "WR" \notin s.streams[id].shut

\* The predicates of session_prep_frame, for a prepared session.
MaySend(s, f) ==
    CASE f.type = "HEADERS" /\ f.cat = "REQUEST" ->
           "RECV" \notin s.goaway_flags /\ ~is_closing(s)
      [] f.type = "HEADERS" /\ f.cat # "REQUEST" ->
           /\ predicate_for_stream_send(s, f.id)
           /\ \/ s.streams[f.id].state = "RESERVED" /\ "RECV" \notin s.goaway_flags
              \/ s.streams[f.id].state \in {"OPENING", "OPENED"}
      [] f.type = "PUSH_PROMISE" ->
           /\ predicate_for_stream_send(s, f.id)
           /\ s.streams[f.id].state # "CLOSING"
           /\ "RECV" \notin s.goaway_flags
      [] f.type = "WINDOW_UPDATE" ->
           /\ ~is_closing(s)
           /\ f.id # 0 => /\ Active(s, f.id)
                          /\ s.streams[f.id].state # "CLOSING"
                          /\ ~(s.streams[f.id].state = "RESERVED" /\ is_my_stream_id(s, f.id))
      [] f.type \in {"RST_STREAM", "ACK"} -> ~is_closing(s)
      [] OTHER -> TRUE

\* A frame that may not be sent closes the stream it opened; the server
\* resets a stream whose response was dropped (on_frame_not_send_callback).
not_sent(s, f) ==
    CASE f.type = "HEADERS" /\ f.cat = "REQUEST" -> close_stream(s, f.id)
      [] f.type = "HEADERS" /\ f.cat # "REQUEST" -> add_rst_stream(s, f.id)
      [] f.type = "PUSH_PROMISE" -> close_stream(s, f.promised)
      [] OTHER -> s

\* session_after_frame_sent1 for HEADERS: the state the stream goes to, the
\* push flag and counter of a push response, END_STREAM or the body attached.
headers_sent(s, f) ==
    LET push == s.streams[f.id].push
        t == [s EXCEPT
                !.streams[f.id].state = IF f.cat = "REQUEST" THEN "OPENING" ELSE "OPENED",
                !.streams[f.id].push = FALSE,
                !.num_outgoing_streams = IF push THEN @ + 1 ELSE @,
                !.last_sent_stream_id = IF f.cat = "REQUEST" THEN f.id ELSE @]
    IN  IF f.size = 0 THEN shutdown(t, f.id, "WR")
        ELSE [t EXCEPT !.streams[f.id].item = f.size]

\* Mutant: the connection asks for nothing after its update was sent.
window_update_sent_StaysQueued(s, f) ==
    IF f.id = 0 THEN s
    ELSE IF ~Active(s, f.id) THEN s
    ELSE [s EXCEPT !.streams[f.id].window_update_queued = FALSE]

\* An update was sent: what was received meanwhile may call for the next.
window_update_sent(s, f) ==
    IF f.id = 0
    THEN update_recv_connection_window_size([s EXCEPT !.window_update_queued = FALSE], 0)
    ELSE IF ~Active(s, f.id) THEN s
    ELSE LET t == [s EXCEPT !.streams[f.id].window_update_queued = FALSE]
         IN  IF "RD" \in s.streams[f.id].shut THEN t
             ELSE update_recv_stream_window_size(t, f.id, 0, TRUE)

goaway_sent(s, f) ==
    close_stream_on_goaway([s EXCEPT !.goaway_flags = @ \cup {"TERM_SENT", "SENT"},
                                     !.local_last_stream_id = f.last], f.last, TRUE)

\* session_after_frame_sent1, frames other than DATA.
after_frame_sent(s, f) ==
    CASE f.type = "HEADERS" -> headers_sent(s, f)
      [] f.type = "PUSH_PROMISE" -> [s EXCEPT !.last_sent_stream_id = f.promised]
      [] f.type = "RST_STREAM" -> close_stream(s, f.id)
      [] f.type = "GOAWAY" -> goaway_sent(s, f)
      [] f.type = "WINDOW_UPDATE" -> window_update_sent(s, f)
      [] OTHER -> s

\* Mutant: the end of the body is not looked at.
NextData_PastTheEnd(s, id) ==
    LET n == Min2(MaxFrameSize, Min2(s.streams[id].remote_window_size, s.remote_window_size))
    IN  Data(id, n, n = s.streams[id].item)

\* The DATA frame the stream would send next, by the windows of both levels.
NextData(s, id) ==
    LET stream == s.streams[id]
        n == Min2(Min2(stream.item, MaxFrameSize),
                  Min2(stream.remote_window_size, s.remote_window_size))
    IN  Data(id, n, n = stream.item)

predicate_data_send(s, id) ==
    /\ predicate_for_stream_send(s, id)
    /\ ~is_my_stream_id(s, id) => s.streams[id].state = "OPENED"
    /\ is_my_stream_id(s, id) => s.streams[id].state \notin {"CLOSING", "RESERVED"}

detach_item(s, id) ==
    [s EXCEPT !.streams[id].item = NoItem, !.streams[id].deferred = FALSE]
defer_item(s, id) == [s EXCEPT !.streams[id].deferred = TRUE]

\* Both windows are charged; the last frame detaches the body and ends the
\* stream in this direction.
data_sent(s, f) ==
    LET t == [s EXCEPT !.remote_window_size = @ - f.length,
                       !.streams[f.id].remote_window_size = @ - f.length,
                       !.streams[f.id].item = @ - f.length]
    IN  IF f.end THEN shutdown(t, f.id, "WR") ELSE t
-----------------------------------------------------------------------------
(***************************************************************************)
(* Receiving, one operator per frame type.                                 *)
(***************************************************************************)
\* A request opens a stream of the peer, unless there are too many.  Every
\* request ends its direction, so HEADERS on a closed stream are an error
\* while the server remembers the stream; here it remembers all of them.
on_request_headers_received(s, f) ==
    LET t == [s EXCEPT !.last_recv_stream_id = f.id]
    IN  IF ~s.server
        THEN IF detect_idle_stream(s, f.id) THEN terminate_session(s) ELSE s
        ELSE IF ~is_new_peer_stream_id(s, f.id)
             THEN IF is_my_stream_id(s, f.id) \/ s.streams[f.id].state = "CLOSED"
                  THEN terminate_session(s) ELSE s
        ELSE IF incoming_max(s) THEN terminate_session(t)
        ELSE IF ~allow_incoming_new_stream(s) THEN t
        ELSE IF incoming_pending_max(s) THEN add_rst_stream(t, f.id)
        ELSE shutdown([open_stream(t, f.id, "OPENING")
                         EXCEPT !.last_proc_stream_id = f.id], f.id, "RD")

\* session_end_stream_headers_received, after a header block that counts.
end_stream_headers(s, f) == IF f.size = 0 THEN shutdown(s, f.id, "RD") ELSE s

\* The first response HEADERS of a request.
on_response_headers_received(s, f) ==
    IF "RD" \in s.streams[f.id].shut THEN terminate_session(s)
    ELSE end_stream_headers([s EXCEPT !.streams[f.id].state = "OPENED"], f)

\* Mutant: the promise is not taken out of its counter.
on_push_response_headers_received_StaysReserved(s, f) ==
    IF s.server \/ incoming_max(s) THEN terminate_session(s)
    ELSE IF ~allow_incoming_new_stream(s) THEN s
    ELSE IF incoming_pending_max(s) THEN add_rst_stream(s, f.id)
    ELSE end_stream_headers(
           [s EXCEPT !.streams[f.id].state = "OPENED",
                     !.streams[f.id].push = FALSE,
                     !.num_incoming_streams = @ + 1], f)

\* The response of a promised stream makes it count as incoming.
on_push_response_headers_received(s, f) ==
    IF s.server \/ incoming_max(s) THEN terminate_session(s)
    ELSE IF ~allow_incoming_new_stream(s) THEN s
    ELSE IF incoming_pending_max(s) THEN add_rst_stream(s, f.id)
    ELSE end_stream_headers(
           [s EXCEPT !.streams[f.id].state = "OPENED",
                     !.streams[f.id].push = FALSE,
                     !.num_incoming_reserved_streams = @ - 1,
                     !.num_incoming_streams = @ + 1], f)

\* Mutant: late HEADERS bring a stream that is being reset back to life.
process_headers_frame_RevivesClosing(s, f) ==
    IF ~Active(s, f.id) THEN on_request_headers_received(s, f)
    ELSE IF s.streams[f.id].state = "RESERVED"
         THEN on_push_response_headers_received(s, f)
    ELSE IF is_my_stream_id(s, f.id) THEN on_response_headers_received(s, f)
    ELSE s

process_headers_frame(s, f) ==
    IF ~Active(s, f.id) THEN on_request_headers_received(s, f)
    ELSE IF s.streams[f.id].state = "RESERVED"
         THEN on_push_response_headers_received(s, f)
    ELSE IF s.streams[f.id].state = "OPENING" /\ is_my_stream_id(s, f.id)
         THEN on_response_headers_received(s, f)
    ELSE IF "RD" \in s.streams[f.id].shut THEN terminate_session(s)
    ELSE s  \* a stream being reset

\* Neither side of the testbed turns server push off.
enable_push == TRUE

\* Mutant: the promised stream is not recorded as processed.
on_push_promise_received_NotRecorded(s, f) ==
    LET t == [s EXCEPT !.last_recv_stream_id = f.promised]
    IN  IF s.server \/ ~enable_push \/ detect_idle_stream(s, f.id) THEN terminate_session(s)
        ELSE IF ~allow_incoming_new_stream(s) THEN s
        ELSE IF ~Active(s, f.id) \/ s.streams[f.id].state = "CLOSING"
             THEN add_rst_stream(t, f.promised)
        ELSE open_stream(t, f.promised, "RESERVED")

\* A promise on a stream that is gone or being reset is refused, and so is
\* one too many.
on_push_promise_received(s, f) ==
    LET t == [s EXCEPT !.last_recv_stream_id = f.promised]
    IN  IF s.server \/ ~enable_push \/ ~is_my_stream_id(s, f.id)
        THEN terminate_session(s)
        ELSE IF ~allow_incoming_new_stream(s) THEN s
        ELSE IF ~is_new_peer_stream_id(s, f.promised) \/ detect_idle_stream(s, f.id)
             THEN terminate_session(s)
        ELSE IF ~Active(s, f.id) \/ s.streams[f.id].state = "CLOSING" \/ ~enable_push
                  \/ s.num_incoming_reserved_streams >= MaxReserved
             THEN add_rst_stream(t, f.promised)
        ELSE IF "RD" \in s.streams[f.id].shut THEN terminate_session(t)
        ELSE [open_stream(t, f.promised, "RESERVED")
                EXCEPT !.last_proc_stream_id = f.promised]

on_rst_stream_received(s, f) ==
    IF detect_idle_stream(s, f.id) THEN terminate_session(s) ELSE close_stream(s, f.id)

\* Mutant: DATA of a stream that is gone is dropped without a trace.
ignore_data_NotCredited(s, f) == s

\* Ignored DATA still uses up the connection window (NGHTTP2_IB_IGN_DATA).
ignore_data(s, f) == update_recv_connection_window_size(s, f.length)

\* Mutant: DATA of a stream being reset is an error.
data_not_allowed_ClosingToo(s, f) ==
    \/ detect_idle_stream(s, f.id)
    \/ Active(s, f.id) /\ ("RD" \in s.streams[f.id].shut
                             \/ s.streams[f.id].state # "OPENED")

\* Checks of session_on_data_received_fail_fast that end the session.
data_not_allowed(s, f) ==
    \/ detect_idle_stream(s, f.id)
    \/ /\ Active(s, f.id)
       /\ \/ "RD" \in s.streams[f.id].shut
          \/ s.streams[f.id].state \notin {"CLOSING", "OPENED"}

on_data_received(s, f) ==
    IF data_not_allowed(s, f) THEN ignore_data(terminate_session(s), f)
    ELSE IF ~Active(s, f.id) \/ s.streams[f.id].state = "CLOSING" THEN ignore_data(s, f)
    ELSE LET t == update_recv_stream_window_size(
                    update_recv_connection_window_size(s, f.length),
                    f.id, f.length, ~f.end)
         IN  IF f.end /\ t.streams[f.id].state # "CLOSING"
             THEN shutdown(t, f.id, "RD") ELSE t

\* Mutant: DATA that waited for its window is left waiting.
on_window_update_received_StaysDeferred(s, f) ==
    IF f.id = 0 THEN [s EXCEPT !.remote_window_size = @ + f.increment]
    ELSE IF ~Active(s, f.id) THEN s
    ELSE [s EXCEPT !.streams[f.id].remote_window_size = @ + f.increment]

\* Windows grow; a stream whose DATA waited for its window is queued again.
on_window_update_received(s, f) ==
    IF f.id = 0 THEN [s EXCEPT !.remote_window_size = @ + f.increment]
    ELSE IF detect_idle_stream(s, f.id) THEN terminate_session(s)
    ELSE IF ~Active(s, f.id) THEN s
    ELSE IF s.streams[f.id].state = "RESERVED" /\ ~is_my_stream_id(s, f.id)
         THEN terminate_session(s)
    ELSE [s EXCEPT !.streams[f.id].remote_window_size = @ + f.increment,
                   !.streams[f.id].deferred =
                       @ /\ s.streams[f.id].remote_window_size + f.increment <= 0]

\* New settings of the peer: the send windows of all streams move by the
\* difference, and an acknowledgement is queued.
on_settings_received(s, f) ==
    LET change == IF f.window = Unchanged THEN 0 ELSE f.window - s.remote_initial_window
        moved(stream) ==
            [stream EXCEPT !.remote_window_size = @ + change,
                           !.deferred = @ /\ stream.remote_window_size + change <= 0]
        t == [s EXCEPT
                !.streams = [id \in StreamIds |->
                               IF Active(s, id) THEN moved(@[id]) ELSE @[id]],
                !.remote_initial_window = @ + change,
                !.remote_max = IF f.max = Unchanged THEN @ ELSE f.max]
    IN  IF is_closing(t) THEN t ELSE Enqueue(t, "ob_urgent", SettingsAck)

Ascending(ids) ==
    CHOOSE q \in [1 .. Cardinality(ids) -> ids] :
        \A i, j \in DOMAIN q : i < j => q[i] < q[j]

\* Mutant: streams that are open keep their old receive window.
update_local_settings_NewStreamsOnly(s, f) ==
    [s EXCEPT !.local_initial_window = IF f.window = Unchanged THEN @ ELSE f.window,
              !.local_max = IF f.max = Unchanged THEN @ ELSE f.max]

\* Own settings come into force with their acknowledgement: receive windows
\* move, and those now half used are given back.
update_local_settings(s, f) ==
    LET change == IF f.window = Unchanged THEN 0 ELSE f.window - s.local_initial_window
        updates == {id \in ActiveStreams(s) :
                      /\ f.window # Unchanged
                      /\ ~s.streams[id].window_update_queued
                      /\ should_send_window_update(
                           s.streams[id].local_window_size + change,
                           s.streams[id].recv_window_size)}
        ids == Ascending(updates)
        moved(id) == [s.streams[id] EXCEPT
                        !.local_window_size = @ + change,
                        !.window_update_queued = @ \/ id \in updates,
                        !.recv_window_size = IF id \in updates THEN 0 ELSE @]
    IN  [s EXCEPT
           !.streams = [id \in StreamIds |-> IF Active(s, id) THEN moved(id) ELSE @[id]],
           !.ob_reg = @ \o [i \in DOMAIN ids |->
                              WindowUpdate(ids[i], s.streams[ids[i]].recv_window_size)],
           !.local_initial_window = @ + change,
           !.local_max = IF f.max = Unchanged THEN @ ELSE f.max]

on_settings_ack_received(s) ==
    IF s.inflight_settings = <<>> THEN terminate_session(s)
    ELSE [update_local_settings(s, Head(s.inflight_settings))
            EXCEPT !.inflight_settings = Tail(@)]

\* Streams above the last one the peer processed are closed; a peer never
\* takes back what it said it has processed.
on_goaway_received(s, f) ==
    IF \/ f.last > 0 /\ f.last < Unlimited /\ ~is_my_stream_id(s, f.last)
       \/ s.remote_last_stream_id < f.last
    THEN terminate_session(s)
    ELSE close_stream_on_goaway([s EXCEPT !.goaway_flags = @ \cup {"RECV"},
                                          !.remote_last_stream_id = f.last], f.last, FALSE)

receive(s, f) ==
    CASE f.type = "HEADERS" -> process_headers_frame(s, f)
      [] f.type = "PUSH_PROMISE" -> on_push_promise_received(s, f)
      [] f.type = "RST_STREAM" -> on_rst_stream_received(s, f)
      [] f.type = "DATA" -> on_data_received(s, f)
      [] f.type = "WINDOW_UPDATE" -> on_window_update_received(s, f)
      [] f.type = "SETTINGS" -> on_settings_received(s, f)
      [] f.type = "ACK" -> on_settings_ack_received(s)
      [] f.type = "GOAWAY" -> on_goaway_received(s, f)
=============================================================================
