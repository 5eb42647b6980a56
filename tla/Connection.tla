----------------------------- MODULE Connection -----------------------------
(***************************************************************************)
(* The HTTP/2 connection of the testbed: the session of the client, the    *)
(* session of the tile server, and the bytes between them.  The client     *)
(* requests tiles and resets streams (MMSP, trung_adaptation), the server  *)
(* answers, and may push.                                                  *)
(*                                                                         *)
(* Sending one frame and receiving one frame are steps.  A frame counts as *)
(* sent when it is handed to the socket: on_write keeps asking the session *)
(* for frames until its buffer has 16 KB, so the bookkeeping that follows  *)
(* a frame is done before the peer can have seen all of it.  TCP neither   *)
(* loses nor reorders, but it ends: an endpoint that wants neither to read *)
(* nor to write drops the connection.                                      *)
(***************************************************************************)
EXTENDS Session, Sums

CONSTANTS
    ServerMax,    \* SETTINGS_MAX_CONCURRENT_STREAMS the server announces
    PeerMax,      \* what the client assumes until then
    ClientMax,    \* SETTINGS_MAX_CONCURRENT_STREAMS the client announces
    ClientWindow, \* SETTINGS_INITIAL_WINDOW_SIZE the client announces
    Sizes,        \* sizes of bodies; 0 is a response without a body
    MaxStreams,   \* bound on the requests and pushes together
    MaxResets,    \* bound on the resets of the client
    MaxFailures,  \* bound on the bodies the server fails to read
    Timeouts,     \* whether the settings timer of the client may expire
    Tightens      \* whether MMSP lowers ClientMax to 1 (ALG 6 to 13)

ASSUME LimitAssumption ==
    /\ ServerMax \in Nat /\ PeerMax \in Nat /\ ClientMax \in Nat
    /\ ClientWindow \in Nat /\ Sizes \subseteq Nat
    /\ MaxStreams \in Nat /\ MaxResets \in Nat /\ MaxFailures \in Nat
    /\ Timeouts \in BOOLEAN /\ Tightens \in BOOLEAN

Ends == {"client", "server"}
Peer(e) == IF e = "client" THEN "server" ELSE "client"

VARIABLES
    session,        \* session[e] is the session of endpoint e
    wire,           \* wire[e]: frames e has sent and its peer not received
    alive,          \* alive[e]: e has not dropped the connection
    settings_timer, \* the client waits for its SETTINGS to be acknowledged
    resets,         \* resets the client has submitted
    failures,       \* bodies the server has failed to read
    tightened       \* MMSP has lowered the limit

vars == <<session, wire, alive, settings_timer, resets, failures, tightened>>

client == session["client"]
server == session["server"]
RequestIds == {id \in StreamIds : id % 2 = 1}
PushIds == {id \in StreamIds : id % 2 = 0}

\* Both sides number their streams in steps of two.
StreamsBegun == ((client.next_stream_id - 1) \div 2) + ((server.next_stream_id - 2) \div 2)

\* connection_made and http2_handler::start have submitted their SETTINGS.
Init ==
    /\ session = [e \in Ends |->
                    IF e = "client"
                    THEN submit_settings(session_new(FALSE, PeerMax),
                                         Settings(ClientMax, ClientWindow))
                    ELSE submit_settings(session_new(TRUE, Unlimited),
                                         Settings(ServerMax, Unchanged))]
    /\ wire = [e \in Ends |-> <<>>]
    /\ alive = [e \in Ends |-> TRUE]
    /\ settings_timer = TRUE
    /\ resets = 0
    /\ failures = 0
    /\ tightened = FALSE
-----------------------------------------------------------------------------
(***************************************************************************)
(* The applications.                                                       *)
(***************************************************************************)
Becomes(e, s) == session' = [session EXCEPT ![e] = s]

\* send_get_request.
SendRequest ==
    /\ alive["client"]
    /\ client.next_stream_id \in StreamIds
    /\ StreamsBegun < MaxStreams
    /\ Becomes("client", submit_request(client))
    /\ UNCHANGED <<wire, alive, settings_timer, resets, failures, tightened>>

\* trung_adaptation resets the stream of a tile that left the viewport.  The
\* request may still be in the queue.
ResetStream(id) ==
    /\ alive["client"]
    /\ id \in RequestIds
    /\ id < client.next_stream_id
    /\ client.streams[id].state \notin {"CLOSED", "CLOSING"}
    /\ resets < MaxResets
    /\ Becomes("client", add_rst_stream(client, id))
    /\ resets' = resets + 1
    /\ UNCHANGED <<wire, alive, settings_timer, failures, tightened>>

\* MMSP: "set maximum number of concurrent streams" to 1.
TightenLimit ==
    /\ alive["client"]
    /\ Tightens
    /\ ~tightened
    /\ Becomes("client", submit_settings(client, Settings(1, Unchanged)))
    /\ tightened' = TRUE
    /\ UNCHANGED <<wire, alive, settings_timer, resets, failures>>

\* settings_timeout_cb.
SettingsTimeout ==
    /\ alive["client"]
    /\ Timeouts
    /\ settings_timer
    /\ Becomes("client", terminate_session(client))
    /\ settings_timer' = FALSE
    /\ UNCHANGED <<wire, alive, resets, failures, tightened>>

Answered(id) == \E i \in DOMAIN server.ob_reg :
                    server.ob_reg[i].type = "HEADERS" /\ server.ob_reg[i].id = id

\* A handler ends its response, or that of a stream whose promise is sent.
Respond(id) ==
    /\ alive["server"]
    /\ \/ server.streams[id].state = "OPENING"
       \/ server.streams[id].state = "RESERVED" /\ id <= server.last_sent_stream_id
    /\ ~Answered(id)
    /\ \E n \in Sizes : Becomes("server", submit_response(server, id, n))
    /\ UNCHANGED <<wire, alive, settings_timer, resets, failures, tightened>>

\* A handler pushes another tile along with the one it was asked for.
Push(id) ==
    /\ alive["server"]
    /\ id \in RequestIds
    /\ server.streams[id].state = "OPENING"
    /\ ~Answered(id)
    /\ server.next_stream_id \in StreamIds
    /\ StreamsBegun < MaxStreams
    /\ Becomes("server", submit_push_promise(server, id))
    /\ UNCHANGED <<wire, alive, settings_timer, resets, failures, tightened>>
-----------------------------------------------------------------------------
(***************************************************************************)
(* The library.                                                            *)
(***************************************************************************)
Put(e, f) == wire' = IF alive[Peer(e)] THEN [wire EXCEPT ![e] = Append(@, f)] ELSE wire

\* One frame of a queue is prepared, and sent or dropped.
SendFrom(e, queue) ==
    LET f == Head(session[e][queue])
        s == prepare([session[e] EXCEPT ![queue] = Tail(@)], f)
    IN  /\ IF MaySend(s, f)
           THEN Becomes(e, after_frame_sent(s, f)) /\ Put(e, f)
           ELSE Becomes(e, not_sent(s, f)) /\ UNCHANGED wire
        /\ UNCHANGED <<alive, settings_timer, resets, failures, tightened>>

SendUrgent(e) ==
    /\ alive[e]
    /\ session[e].ob_urgent # <<>>
    /\ SendFrom(e, "ob_urgent")

SendRegular(e) ==
    /\ alive[e]
    /\ session[e].ob_urgent = <<>>
    /\ session[e].ob_reg # <<>>
    /\ SendFrom(e, "ob_reg")

\* Only RST_STREAM is in this queue, and the peer's limit holds it back.
SendSyn(e) ==
    /\ alive[e]
    /\ session[e].ob_urgent = <<>>
    /\ session[e].ob_reg = <<>>
    /\ session[e].ob_syn # <<>>
    /\ ~outgoing_max(session[e])
    /\ SendFrom(e, "ob_syn")

DataTurn(e) ==
    /\ alive[e]
    /\ session[e].ob_urgent = <<>>
    /\ session[e].ob_reg = <<>>
    /\ session[e].ob_syn = <<>> \/ outgoing_max(session[e])
    /\ session[e].remote_window_size > 0

\* DATA of a stream whose turn it is: dropped if the stream is being reset,
\* deferred if its window is used up.
SendData(e, id) ==
    LET s == session[e]
        f == NextData(s, id)
    IN  /\ DataTurn(e)
        /\ id \in DataQueued(s)
        /\ IF ~predicate_data_send(s, id)
           THEN Becomes(e, detach_item(s, id)) /\ UNCHANGED wire
           ELSE IF f.length <= 0
           THEN Becomes(e, defer_item(s, id)) /\ UNCHANGED wire
           ELSE Becomes(e, data_sent(s, f)) /\ Put(e, f)
        /\ UNCHANGED <<alive, settings_timer, resets, failures, tightened>>

\* The body cannot be read: the stream is reset.
ReadFails(id) ==
    /\ DataTurn("server")
    /\ failures < MaxFailures
    /\ id \in DataQueued(server)
    /\ predicate_data_send(server, id)
    /\ NextData(server, id).length > 0
    /\ Becomes("server", add_rst_stream(detach_item(server, id), id))
    /\ failures' = failures + 1
    /\ UNCHANGED <<wire, alive, settings_timer, resets, tightened>>

Receive(e) ==
    /\ alive[e]
    /\ wire[Peer(e)] # <<>>
    /\ LET f == Head(wire[Peer(e)])
       IN  /\ Becomes(e, receive(session[e], f))
           /\ settings_timer' = (settings_timer /\ ~(e = "client" /\ f.type = "ACK"))
    /\ wire' = [wire EXCEPT ![Peer(e)] = Tail(@)]
    /\ UNCHANGED <<alive, resets, failures, tightened>>

\* on_write and on_read give up a session that wants nothing any more.
Drop(e) ==
    /\ alive[e]
    /\ ~want_read(session[e])
    /\ ~want_write(session[e])
    /\ alive' = [alive EXCEPT ![e] = FALSE]
    /\ wire' = [wire EXCEPT ![Peer(e)] = <<>>]
    /\ UNCHANGED <<session, settings_timer, resets, failures, tightened>>

\* The end of the stream of bytes from a peer that dropped the connection.
EndOfFile(e) ==
    /\ alive[e]
    /\ ~alive[Peer(e)]
    /\ wire[Peer(e)] = <<>>
    /\ alive' = [alive EXCEPT ![e] = FALSE]
    /\ UNCHANGED <<session, wire, settings_timer, resets, failures, tightened>>

ClientApp == SendRequest \/ (\E id \in StreamIds : ResetStream(id))
                \/ TightenLimit \/ SettingsTimeout
ServerApp == \E id \in StreamIds : Respond(id) \/ Push(id) \/ ReadFails(id)
Send(e) == SendUrgent(e) \/ SendRegular(e) \/ SendSyn(e)
              \/ (\E id \in StreamIds : SendData(e, id))

Next == ClientApp \/ ServerApp
          \/ \E e \in Ends : Send(e) \/ Receive(e) \/ Drop(e) \/ EndOfFile(e)

Spec == Init /\ [][Next]_vars
-----------------------------------------------------------------------------
(***************************************************************************)
(* Properties.                                                             *)
(***************************************************************************)
StreamType ==
    [state : {"IDLE", "INITIAL", "OPENING", "OPENED", "RESERVED", "CLOSING", "CLOSED"},
     push : BOOLEAN, shut : SUBSET {"RD", "WR"},
     remote_window_size : Int, local_window_size : Int, recv_window_size : Nat,
     window_update_queued : BOOLEAN, item : Nat, deferred : BOOLEAN]

\* Types, and that each queue holds the frames it is meant for.
ConnectionTypeOK ==
    /\ alive \in [Ends -> BOOLEAN]
    /\ settings_timer \in BOOLEAN /\ tightened \in BOOLEAN
    /\ resets \in 0 .. MaxResets /\ failures \in 0 .. MaxFailures
    /\ \A e \in Ends :
         /\ session[e].streams \in [StreamIds -> StreamType]
         /\ session[e].goaway_flags \subseteq {"TERM_ON_SEND", "TERM_SENT", "SENT", "RECV"}
         /\ \A i \in DOMAIN session[e].ob_urgent :
              session[e].ob_urgent[i].type \in {"SETTINGS", "ACK"}
         /\ \A i \in DOMAIN session[e].ob_syn : session[e].ob_syn[i].type = "RST_STREAM"
         /\ \A i \in DOMAIN session[e].ob_reg :
              session[e].ob_reg[i].type \in
                {"HEADERS", "PUSH_PROMISE", "WINDOW_UPDATE", "GOAWAY"}

\* The counters the limits are compared with are the numbers of streams they
\* stand for, through promises that are fulfilled, refused, reset on either
\* side or swept away by a GOAWAY (open_stream and close_stream move them, and
\* two other places that turn a promise into a stream).
CountersMatch(s) ==
    /\ s.num_outgoing_streams = Cardinality({id \in StreamIds : Outgoing(s, id)})
    /\ s.num_incoming_streams = Cardinality({id \in StreamIds : Incoming(s, id)})
    /\ s.num_incoming_reserved_streams =
         Cardinality({id \in StreamIds : ReservedRemote(s, id)})

CountersExact == \A e \in Ends : CountersMatch(session[e])

Total(frames, Value(_)) == SumOf([i \in DOMAIN frames |-> Value(frames[i])])

DataOf(ids) == LET n(f) == IF f.type = "DATA" /\ f.id \in ids THEN f.length ELSE 0
               IN  Total(wire["server"], n)
CreditOf(id) == LET n(f) == IF f.type = "WINDOW_UPDATE" /\ f.id = id THEN f.increment ELSE 0
                IN  Total(wire["client"] \o client.ob_reg, n)

\* No unit of the connection window is lost: what the server may still send,
\* what is on its way, what the client has counted and what it gives back
\* add up, also when the DATA belongs to a stream that was reset and is
\* ignored (comment at NGHTTP2_IB_IGN_DATA).
ConnectionWindowConserved ==
    alive["client"] /\ alive["server"] /\ ~is_closing(client) =>
        server.remote_window_size + DataOf(StreamIds)
          + client.recv_window_size + CreditOf(0) = InitialWindow

\* The same of the window of a stream both sides have open, while the client
\* changes the initial window and the two sides learn of it at different times.
StreamWindowConserved ==
    alive["client"] /\ alive["server"] /\ ~is_closing(client) =>
        \A id \in StreamIds :
            (/\ client.streams[id].state \in {"OPENING", "OPENED"}
             /\ server.streams[id].state \in {"OPENING", "OPENED"}) =>
                server.streams[id].remote_window_size + DataOf({id})
                  + client.streams[id].recv_window_size + CreditOf(id)
                = client.streams[id].local_window_size
                    + server.remote_initial_window - client.local_initial_window

\* Two endpoints that keep to each other's limits never end the session with
\* an error, whatever is reset while it is on its way: no frame of one finds
\* the other in a state where it is not allowed.
NoConnectionError ==
    \A e \in Ends : "TERM_ON_SEND" \in session[e].goaway_flags =>
                        e = "client" /\ Timeouts /\ ~settings_timer

\* Nothing the library or the network could still do by itself.
Quiet ==
    /\ \A e \in Ends :
         /\ alive[e]
         /\ wire[e] = <<>>
         /\ session[e].ob_urgent = <<>> /\ session[e].ob_reg = <<>>
         /\ session[e].ob_syn = <<>> \/ outgoing_max(session[e])
         /\ DataQueued(session[e]) = {} \/ session[e].remote_window_size <= 0
    /\ \A id \in StreamIds : server.streams[id].state \notin {"OPENING", "RESERVED"}

\* When the connection falls silent, every stream is closed on both sides: no
\* body waits for a window that nobody will open, no reset for a queue that is
\* not served, no side for a frame the other believes it has sent.
QuietMeansDone ==
    Quiet => ActiveStreams(client) = {} /\ ActiveStreams(server) = {}

\* A GOAWAY covers every stream its sender has let its application see, so
\* what the receiver closes because of it may be requested again (the
\* REFUSED_STREAM and CANCEL of session_close_stream_on_goaway).
GoawayCoversProcessed ==
    \A e \in Ends : \A i \in DOMAIN wire[e] :
        wire[e][i].type = "GOAWAY" =>
            \A id \in StreamIds :
                session[e].streams[id].state # "IDLE" /\ ~is_my_stream_id(session[e], id)
                    => id <= wire[e][i].last

\* A closed stream never comes back, and a stream leaves the state of being
\* reset only by closing.
ResetIsFinal ==
    [][\A e \in Ends : \A id \in StreamIds :
         /\ session[e].streams[id].state = "CLOSED" =>
                session'[e].streams[id].state = "CLOSED"
         /\ session[e].streams[id].state = "CLOSING" =>
                session'[e].streams[id].state \in {"CLOSING", "CLOSED"}]_vars

\* One side or the other keeps running, and handlers answer.  Fairness to each
\* step apart, which the event loops give, is not needed.
Fairness ==
    /\ WF_vars(\E e \in Ends : Receive(e) \/ Send(e))
    /\ WF_vars(\E id \in StreamIds : Respond(id))

FairSpec == Spec /\ Fairness

\* Again and again no request is open: each is answered in full or reset, and
\* its close callback runs, which is what the iterations of MMSP wait for.
RequestsEnd ==
    []<>(\A id \in RequestIds : client.streams[id].state \in {"IDLE", "CLOSED"})

\* Comment at nghttp2_session.c:6658: pending frames are written, unless they
\* are HEADERS and the limit is reached; so is a reset the client has queued.
ResetsAreSent ==
    \A id \in StreamIds : (client.ob_syn # <<>> /\ client.ob_syn[1].id = id)
                              ~> (client.ob_syn = <<>> \/ client.ob_syn[1].id # id)
=============================================================================
