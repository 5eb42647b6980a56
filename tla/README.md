# Viewport-adaptive streaming over HTTP/2: specifications and proofs

The repository is a testbed for streaming 360-degree video in scalable layers
over HTTP/2. A video is cut into segments; a segment has one **base layer** that
covers all tiles and, per tile, **enhancement layers** stacked on it. The client
downloads the base layer well ahead, into a buffer, and the enhancement layers
of the tiles in view just before a segment is played. This directory holds TLA+
modules of the client's core, the TLC configurations that check them, and
machine-checked proofs.

## The system

Own code of the project: `client/src/src/nghttp.cc` (stock nghttp plus the
streaming engine), `client/src/src/duc_metric.h` (player, buffer, metrics,
manifest), `client/src/src/Tile.h` and `Projection.cpp` (geometry),
`client/src/lib/nghttp2_session.c` (stock nghttp2 with edits marked "Hung"), and
`server/src/server_6f_2x2_v2.cpp`. The rest of the 1630 files is vendored
nghttp2, build output, backups and traces.

Two threads run in the client. The **playback thread** (`Player::start_playback`)
wakes every 100 ms; the **network thread** is one libev loop in which every
callback runs to its end. They share the buffer level (behind `Player::m`), the
table of received layers (behind `Buffer::m`), and, without a lock, the playing
segment and the deadlines.

| Component | State | Operations | Interacts through | Correct when | Modules |
|---|---|---|---|---|---|
| Playback thread | `STATE`, `played_sec`, `playing_seg_id`, `seg_tile_version`, `seg_playback_deadline` | start, drain, advance, new segment, stall, resume, report | buffer level, layer table, deadlines | plays only what was received, stalls at boundaries, finishes | `Player`, `Playback` |
| Layer buffer | `base_layer_buff_sec`, `tile_ver` | `incre/decre_buff_size`, `update/get_tile_version` | both threads | no lost update, never negative, marks what arrived | `Player`, `Streaming` |
| Decision engine `MMSP` (ALG 5 to 13) | `INI_BUFFERING`, `RE_BUFFERRING`, `LAST_ITER_MASK`, `BL_seg_id`, `EL_seg_id`, `seg_EL_download` | one base layer, or one round of enhancement layers, or sleep and retry | reads player, sends requests | base layers first, every segment in order, never gives up early | `Streaming` |
| `UTD2017_adaptation_vr` (ALG 1 to 4) | the same, without buffering modes | the same | the same callbacks | the same | `Streaming` |
| Iteration (callbacks) | `iter_req_stream(_fin)`, `req_s_num`, `fin_s_num`, `cancelled_request_stream` | DATA, HEADERS, PUSH_PROMISE, late cancel, close | HTTP/2 callbacks, calls the engine | ends with its last stream, marks only what was received in time | `Streaming` |
| Re-decision (`trung_adaptation`) | `iter_tile_list`, `iter_re_decide` | reset streams out of view, request new tiles | called from the DATA callback | no chunk twice, counts what it adds | `Streaming` |
| Allocation algorithms | bitrates, `min_layerId`, `max_layerId` | ALG 1 to 13 | throughput estimate | within budget, nothing affordable left out, layers from below | `Allocation`, `Adaptation` |
| Throughput estimate | `iter_sam_thrp`, `iter_est_thrp`, `iter_smooth_bitrate` | mean of the last three, step-limited smoothing | metrics of the iteration | within the range of its samples | `Adaptation` |
| HTTP/2 session with edits | streams and their counters, `ob_urgent`, `ob_reg`, `ob_syn`, windows | submit, prepare, send, receive, close | frames | counters exact, windows conserved, what is queued is sent | `Session`, `Connection` |
| Tile server | none but its session | a handler per face, server push | HTTP/2 | answers every request | actions of `Connection` |
| Connection lifecycle | sockets, timers | connect, fail, upgrade, disconnect | libev | stock nghttp | parts in `Connection` |
| Viewport geometry | masks, head trace | visible and adjacent tiles | engines | symmetric adjacency | an input |
| Manifest and traces | configuration | read once at start | files | | an input |

Hard behaviours: the two threads interleave between any two accesses to shared
state; streams of an iteration close in any order, are reset by either side, and
requests are added to an iteration while it runs; deadlines are rewritten when
playback resumes from a stall; the engine polls the player and the player polls
the buffer; frames of a stream cross its reset, and settings change between a
frame's sending and its arrival. `PROJECT.json` lists each hazard at its line.

## Modules

* **`Playback`**: what a viewer is promised, in six actions: each period shown
  once and in order, nothing before it was received, a freeze only when all that
  was received has been shown.
* **`Player`**: the playback thread and the buffer, with the network thread as
  its environment. One variable per member (`state` is `STATE`). `pc` is the
  place in the loop of `start_playback`: `loop` the top, `advance` between
  `decre_buff_size` and `incre_play_time`, `segment` and `empty` the two looks
  at the buffer, `sleep`, `report`, `exit`. Time is counted in sleeps (`INTER`),
  and `SD` sleeps make a segment. `PlaybackKept` is the refinement of `Playback`.
* **`Allocation`**: which lists of requests each algorithm may come up with.
* **`Streaming`** extends `Player` and `Allocation` with the network thread and
  both engines. `netpc` says where it is: `init` before the first close
  callback, `decide` when the engine is called, `low`, `full`, `base` the
  further looks of `MMSP` at the buffer, `next` and `head` the two looks at the
  playback position, `idle` the event loop with streams open, `close` the close
  callback that follows an END_STREAM, `sleep` the wait before a retry,
  `stopped` its return for good. `PlayerRefined` says that all of it is a
  `PlayerSpec`, that is, that the engines are a correct environment of the player.
* **`Adaptation`** extends `Allocation`: how much of those lists the measured
  throughput allows, through a sequence of decisions. `Streaming` leaves the
  amount open, and `RequestsOffered` shows that it leaves enough open.
* **`Session`**: one endpoint of the edited nghttp2 as a record, and an operator
  per function of the library that changes it. **`Connection`**: client and
  server session, the bytes between them, and the calls the two applications make.
* **`Sums`**: the sum of a sequence, of bitrates or of units of payload.
* **`MCPlayer`, `MCStreaming`, `MCAdaptation`, `MCConnection`**: instances for TLC.
* **`Player_proofs`, `Streaming_proofs`, `Adaptation_proofs`, `Connection_proofs`,
  `Windows_proofs`, `Errors_proofs`**: theorems. **`Sums_proofs`** holds the lemmas
  about sums and division that they share, **`Agreement_proofs`** those about
  what the two ends of a connection agree on.

How the abstraction was chosen:

* *Deadlines.* The array is always `now + (k - s) * SD` from the last (re)start
  at segment `s`, so one number, the time on that schedule, stands for it. Before
  the first start it is uninitialised memory: a comparison goes either way. The
  same holds for `iter_re_decide` and `face_dow_data`, which are never zeroed,
  for the extremes of the window of ALG 13 (`Garbage`) and for the combination
  ALG 4 sends when none is feasible.
* *Viewport.* Any member of `Views`, a sequence of tiles in the order in which
  their layers are requested, with the tiles `Adjacent` to it.
* *Streams of an iteration.* An index into its requests. The library's behaviour
  that matters is in: no DATA callback for a stream with an RST_STREAM queued, a
  close callback after END_STREAM, after a sent RST_STREAM and after a received
  one. A close without END_STREAM leaves the end time at the epoch, which is
  before every deadline. `Connection` checks what this relies on.
* *Steps of the client.* A callback does not yield, but each look at shared state
  that decides something is a step. Two accesses are merged where the other
  thread cannot tell: a base layer is marked and counted in one step, because no
  segment is fetched before it is counted (`PlayheadBacked`); versions are
  fetched in the step of the look that decides it, because the network thread
  only adds.
* *Time.* A period does not pass in the middle of a callback (`TimePasses`),
  except in the sleep of the engines; a thread that sleeps wakes after a period.
* *Throughput* is kept in sixths, so that a mean of one, two or three integer
  samples is exact; the rounding of doubles is left out.
* *Frames.* Payload is counted in units, and a DATA frame arrives whole. Sending
  is one step with its bookkeeping, because `on_write` keeps asking the session
  for frames until its buffer holds 16 KB. A closed stream keeps nothing but its
  state: the library looks up closed streams only for uploads and reused ids,
  and neither occurs. The server is taken to remember all of them.

## Runs

| Run | Shows | Bounds |
|---|---|---|
| `player` | type, conservation, non-negative buffer, only buffered segments play, deadlines before playback, stalls at boundaries, and `Playback` implemented | 3 segments of 3 periods: first, middle and last segment, stalls after each, boundaries and interiors |
| `streaming` | iterations are counted right and are of one segment, no base layer is cancelled, no chunk twice, layers from below, what arrives late is not marked, `Player` implemented | 2 segments, 2 layers, 2 tiles of which one is in view (a turn brings one in and takes one out), every kind of allocation: ALG 1 and 2 uniform, 3 and 5 greedy, 4 selected, 6 extending, 9 with a window; pushes and responses without a body; states that differ only in what is known of closed streams are merged (`LiveView`), as nothing reads it |
| `buffering` | enhancement only on top of a base layer, an engine stops only when complete | 6 segments and a threshold of 4: fill, fall below half, recover; one stream reset by the server; one engine of each kind; states that differ only in marks are merged (`ControlView`), as no guard reads them |
| `progress` | every iteration ends, every base layer arrives, the video ends | 3 segments, two tiles, one engine of each kind, slow link, no server resets |
| `connection` | counters, both windows, no connection error, silence means done, a reset is final, every request ends | two requests and a push, or any three streams; bodies of 3 units over stream windows of 2 (after SETTINGS) and a connection window of 4, frames of 2, and one reset at any moment, of a request still queued too |
| `session_errors` | counters, and that a GOAWAY covers what was processed | a client above the server's limit, pushes above a limit lowered in the middle, a settings timeout, a body that cannot be read, more promises than `MaxReserved` |
| `adaptation` | requests are what `Streaming` offers, within budget, nothing affordable left out, the window comes down | all 13 algorithms, the bitrates of `metadata.cfg`, four throughputs from below the base layer (900 to 1164) to enough for all but one of the top layers of two tiles, three times to the deadline, one and two tiles in view |

The limits on streams and windows are scaled down (200 promises, 100 streams,
65535 bytes in the code) to where the cases at the limit happen with few streams.
`SlowLink` restricts the environment: a base layer arrives only after the waiting
player has looked at the buffer. `MaxResets`, `MaxFailures` and `MaxStreams`
bound what happens without limit. In `connection` and `session_errors` the
connection may end or fall silent for good, so they do not check for deadlock;
everywhere else deadlock is checked, and the only terminal state is `exit`, where
a stuttering action stands for the ended process.

Five runs find a disagreement between the code and its comments, each a finding
in `PROJECT.json`:

* `started_without_versions`: between the two looks at a segment boundary a base
  layer arrives; the segment plays with a row of versions that was never set.
* `buffering_finished`: two base layers within one sleep, and playback never
  starts, because the player waits for *exactly* one segment. This is why
  `PlaybackCompletes` is checked under `SlowLink`.
* `reset_marks_layer`: a stream reset by the re-decision is not recorded as
  cancelled, and marks its layer as present when it closes.
* `alg4_not_optimal`: ALG 4 requests the last combination that fits, not the best.
* `reset_held_back`: with as many streams being reset as the peer allows, no
  RST_STREAM is ever sent: the edit put it into the queue the limit holds back.

The models also show weaknesses that contradict nothing the code says of itself,
and that the properties state exceptions for:

* a base layer that arrives late is counted but not marked, which is what always
  happens after a stall;
* tiles are recorded as requested before the budget is applied, so a re-decision
  does not request those that were left out (all but ALG 1, 2 and 4);
* the tiles next to the view are requested without being recorded, and requested
  again when they come into view (ALG 6 to 8 and 10 to 13);
* `get_adjacent_tile` returns the first ring, whatever width is asked for;
* ALG 9 and 10 may decide once with a window that leaves out layer 1
  (`WindowComesDown` shows: never twice in a row);
* `UTD2017_adaptation_vr` never requests a base layer with a threshold of one
  segment, and may stop before the last one with a threshold of two, so that
  `StopsOnlyWhenComplete` and `AllBaseLayersArrive` would fail there; under `MMSP`
  enhancement layers may be requested before their base layer with a threshold
  below four. `buffering` therefore uses four, `progress` three;
* HEADERS do not wait for the peer's limit, which is found out by being refused;
* during a stall the deadlines stand still, and what arrives is judged late.

**Fairness.** In `Streaming`: weak fairness of the playback thread, of the
passing of time, of the decisions and close callbacks of the event loop (both
threads always run), and of END_STREAM, on DATA or HEADERS, for some open
stream (a server that answers). None on resets, re-decisions, or DATA without END_STREAM. In
`Connection`: weak fairness of "some endpoint sends or receives" and of "some
handler answers", less than the two event loops give; none on what the client
decides.

## Proofs

All theorems hold for every value of the constants that satisfies the named
assumptions: any number and length of segments, tiles, layers, views, thresholds,
algorithms and resets.

`Player_proofs` proves the six invariants of run `player` and `PlaybackKept`.
None of them is inductive. `IInv` adds:

* `Playhead`: between start and report, the playing segment is the one the play
  time lies in;
* `PlayingBuffered`: the loop body runs only in STATE 1, and a resting player in
  STATE 1 has something buffered. This gives the non-negative buffer;
* `Stalled`: a stalled player is at the start of its segment. It follows at the
  moment of the stall from conservation with an empty buffer, `played = SD * n`,
  and from `Playhead` (`SameMultiple`). This gives the deadlines after a stall;
* `AheadOfDeadlines`: the schedule is ahead of the play time, strictly after a
  sleep, which is what `incre_play_time` uses up;
* `NotStarted`, `Reporting`: the ends of the life of the thread.

`NextIInv` has one case per action. The type of the versions read from the layer
table needs that the first missing layer exists; `SmallestNat` obtains it from
the well-foundedness of the naturals in the library.

`Streaming_proofs` proves all eight properties of run `streaming` and the two
more of run `buffering`, and that `Spec` implements `PlayerSpec` and hence
`Playback`. Its invariant `NInv` is `IInv` together with `NetInv`:

* `NetTypeOK`: the types; that what `Offers` lists is of one segment and within
  the layers needs lemmas about `LayerMajor`, `TileMajor`, prefixes and
  `InOrderOf` (`OffersType`);
* `IterationAccounting`, itself a property;
* `CleanSlate`: outside an iteration its sets are empty;
* `OneKind`: the requests are the next base layer or enhancement layers of a
  segment not enhanced before;
* `OnlyELCancelled`, `EndAllowed`: what the two reset paths may touch, and that
  the restriction of the environment (`SlowLink`) is kept until the close.

`StepRefines` shows that each step of `Streaming` is one of `PlayerNext` or
leaves the player alone, so `IInv` comes from `Player_proofs`. Three properties
need more than `NInv`:

* `ChunksRequestedOnce` adds `NoRepeat`: the requests are distinct, and their
  tiles recorded, so that a re-decision adds other ones. `LayerMajorOnce` and
  `TileMajorOnce` are the arithmetic behind it;
* `LayersComeFromBelow` adds `NoGap`. A prefix keeps it if the lower layers come
  first (`LowerFirst`), the selection of ALG 4 because it is downward closed;
* `EnhancementsOnTop` and `EnginesStopWhenComplete` add `Headroom`: how far the
  base layers are ahead of the playing segment at each look of the engine. They
  assume `RoomyThreshold`, a threshold of at least four segments of at least two
  periods: with less they are false, see above.

`Connection_proofs` proves `ConnectionTypeOK`, `CountersExact`, `ResetIsFinal` and
`GoawayCoversProcessed` of runs `connection` and `session_errors`, for any
number of streams, bodies, resets and limits. The invariant `ConnectionInv` is

* `SessionInv` of both sessions: `Sound`, the counters match the streams and the
  push flags say which counter a stream is in (`PushOK`); `Fresh`, what is still
  to begin is idle: the ids not yet used by either side, and the streams of
  queued requests, each queued once; `Covered`, the streams the application has
  seen are up to `last_proc_stream_id`, and no queued GOAWAY falls short of it;
* `WireOK`: each frame on the wire is one its sender sends, and a GOAWAY there
  still covers what its sender has processed.

Each operator of `Session` is put into one of two classes: `Calm`, it opens and
closes nothing, or `Advances`, no stream begins and none comes back. Both keep
the invariant (`CalmMoves`, `AdvancesMoves`), and they compose (`MovesTwice`), so
only the four places where a stream begins need an argument of their own
(`RequestPrepared`, `PeerStream`, `PeerStreamSeen`, `PromiseSubmitted`). That a
GOAWAY under way stays true is `Later`: once it is queued nothing more is
processed.

`Windows_proofs` proves `ConnectionWindowConserved` and `StreamWindowConserved`
for any window, frame size, body and limit. As stated the two are not inductive:
DATA may reach the server's queue, and an update the client's, before the other
side has the stream or after it has given it up. `WindowsInv` adds to
`ConnectionInv`

* `WindowsOK`: `Balance` is 0 for the connection (level 0) and for every stream
  that is live at the server and that the client has or may still get
  (`Waiting`); where one side has not begun a stream, nothing of it is on its
  way; and the receive window of every stream is the one in force (`Aligned`).
  It is claimed while the connection is `Open`: a client that is closing drops
  its updates;
* `IdsOK`, which also holds afterwards: what has begun on one side has been
  announced, promised or requested on the other. A request that is on the wire
  is a stream of the client, a promise on the wire is one the server has sent,
  and only pushed streams are ever reserved. `Fresh` orders the promises of the
  server's queue for this (`InOrder`);
* `FlagsOK`: a session that has sent a GOAWAY had decided to end, so that a
  client that is not closing never was (`ClosingStays`).

Each operator of `Session` is described by `Settles(s, t, X, g, d)`: only streams
of `X` begin, `g[k]` more units are held at level `k` and `d[k]` more may be sent.
These compose (`SettlesTwice`), and most operators leave both as they are
(`Keeps`). What a frame does is then `Accepts` and `Sends`: receiving DATA adds
its length to what is held, sending an update takes its increment away, and the
same with the send windows on the other side. `ClientWindows` and
`ServerWindows` are the bookkeeping: what a step adds to one side is what it
takes from the wire (`Due`). The sums over queues are `Credit` and `Payload`; that
new settings give back each half-used window once, in any order, is `UpdatesOnce`.

`Errors_proofs` proves `NoConnectionError` for any number of streams, any sizes,
windows, resets, failing bodies and settings, in two forms. `NoErrorWithinLimits`
has a hypothesis, `LimitsKept`: the client never has more than `ServerMax`
requests open, nor the server more pushes than the lowest limit the client
announces (reaching the limit is allowed). The code needs one: HEADERS are put
into the regular queue, which is not held back at the peer's limit as that of
stock nghttp2 is, so that keeping to the limit is left to the application. Run
`session_errors` exceeds it on purpose. `NoErrorWithRoom` derives the hypothesis
from the constants (`Roomy`: limits no smaller than the number of streams), which
those of run `connection` satisfy. The timer of the client's SETTINGS stays free in both.

The property is far from inductive: whether a frame is an error depends on
where its receiver will be when it arrives, which is behind everything that is
on the wire before it. `ErrorsInv` adds to `WindowsInv` that a client ends only
because of its timer, and what the two ends agree on (`Agreed`, in
`Agreement_proofs`):

* requests arrive in the order of their ids, with room for each at the server
  once what is ahead of it is handled (`RoomOK`), and promises in the order of
  theirs (`Announced`);
* a reset, an update or DATA comes behind the frame that introduces its stream
  (`Guarded`), no request behind its own reset (`Apart`), and what has been
  completed or reset is closed at its sender (`Answers`);
* a request that is open at the server, or about to be, is open at the client or
  its reset is on its way (`Followed`), so that the two counts of open streams differ
  only by what is under way;
* every acknowledgement of SETTINGS has one in flight that it answers (`Settle`);
* DATA fits the receive window, from the conservation laws of `WindowsInv`.

Once the timer has expired the client minds nothing any more, and only the
server's half is claimed (`Core`): what was queued before is still in order, and
the GOAWAY that follows takes back nothing an earlier one said (`PartingOK`). The
operations of `Session` are again in classes: they begin nothing and reset only
given streams (`Mild`), leave the settings alone as well (`Tame`), or give
nothing back where nothing was received (`Dry`).

`Adaptation_proofs` proves the five invariants of run `adaptation`, for any view
of distinct tiles with any tiles next to it, any number of layers of at least
two, any bitrates that do not decrease with the layer (`BitrateAssumption`) and
any finite set of samples. A decision is judged when it is made, so `IInv` needs
little besides the invariants themselves: `ThroughputMeasured`, both estimates
come from the samples, which is what `WithinBudget` compares the smoothed budget
with. The argument is about lists:

* a loop that requests while the sum fits takes a prefix of its candidates
  (`GreedyIsPrefix`), and stops at one that does not fit; because the candidates
  come in the order of their bitrates, the next layer of no tile would have fit
  either (`NothingFits`);
* candidate number `i` of `n` tiles is layer `(i - 1) \div n` of tile
  `(i - 1) % n` (`LayerMajorLists`), so the taken prefix holds the layers of each
  tile from below, one after the other;
* the rate of a list is a sum over it. What ALG 4 selects, in any order of its
  enumeration, is a subsequence of all layers of the view, and its rate is at
  most the one its combination was judged by (`SelectedRate`);
* the window of ALG 9, 10 and 13 moves with the highest and lowest layer taken
  (`MoveWindowType`, `WindowTaken`), also from extremes never initialised.

`Sums_proofs` has what this rests on. `FoldLeft` is defined by a recursive
function, which is a `CHOOSE` to the prover: `FoldExists` constructs a function
that satisfies the recursion, so that the chosen one does too, and `SumAppend`,
`SumConcat`, `SumTail` follow. Inductions are over a set, of numbers or of
sequences (`Induction`, `EverySequence`, from the library's well-foundedness of
the naturals).

Only model-checked: everything temporal beyond invariance and refinement
(liveness under fairness is out of the prover's reach), and one invariant,
`QuietMeansDone` of `Connection`. It does not hold for every value of the
constants: after a settings timeout, or with a window of 0, a connection may
fall quiet with a request open. For the others it needs, beyond `ErrorsInv`,
that each deferred body waits for an update that is queued or under way and
that each stream that is closing has a reset in a queue that drains.

## Not modelled

* *Stream and frame callbacks*: the header callbacks and HTML parsing of stock
  nghttp, which record what a request looks like, and HEADERS in the middle of a
  response, which the testbed's server does not send.
* *Engines*: the branches of `MMSP` for ALG 1 to 4 (nghttp.cc:3351 to 3764 and
  4436 to 4525) and that of `UTD2017_adaptation_vr` for ALG 5: the engine is
  chosen by ALG at nghttp.cc:5340, and they are never reached. That predictions
  were bad enough to extend the view is left open, as is the index into
  `frame_vp_err`.
* *Session*: framing, header compression, the dependency tree that orders DATA
  (any order is allowed), HTTP messaging rules, PING, ALTSVC, trailers, request
  bodies, the HTTP/1.1 upgrade, a change of the client's window size other than
  by SETTINGS. Neither side turns server push off, so `enable_push` is the default.
* *Connection lifecycle* (`HttpClient`): stock nghttp, not touched by the
  testbed. What it does to a session is in `Connection`: SETTINGS and its
  timeout, draining, end of file.
* *Tile server*: it keeps no state; its responses, pushes and unreadable bodies
  are `Respond`, `Push` and `ReadFails`. The files it picks by name are left out.
* *Viewport geometry*: tables computed by floating-point projection.
* *Manifest, traces, logging, quality metrics*: input and output.
* The rest of the repository is vendored nghttp2 and its tools, build output,
  and older copies of the same client, which no build of the testbed uses.
