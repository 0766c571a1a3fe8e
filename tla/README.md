# A verification development of my-http-client

TLA+ models of the crate in `src/src/` (paths below are relative to `src/src/`), checked with TLC
and partly proved with TLAPS. `PROJECT.json` maps every definition that models code to its lines
and lists runs, mutants, findings, hazards and theorems.

## Inventory

The crate offers three clients for one remote endpoint each. All three keep **one** connection in
a slot guarded by an asynchronous mutex, dial when a request finds the slot empty, and identify
connections by a number so that late tasks of an old connection leave a newer one alone.

| Component | State | Operations | Interacts with |
|---|---|---|---|
| `http1/my_http_client.rs`: callers | none of its own; `CONNECTION_ID`, a static | `do_request`, `send_payload` (retry loop), `connect`, `Drop` | inner, connector, spawns both loops |
| `http1/my_http_client_inner.rs`: the slot | `WritePartState` and the channel sender behind a mutex; atomics `connection_id`, `waiting_ws_upgrade` | `new_connection`, `send`, `upgrade_to_websocket`, `pop_request`, `flush`, `disconnect`, `process_disconnect`, `read_loop_stopped`, `dispose`, `MyHttpClientDisconnection` | everything in `http1` |
| `http1/queue_of_requests.rs` | FIFO of tasks that await a response, behind its own short mutex | `push`, `pop`, `peek_front_method`, `notify_connection_lost` | `send` pushes; read loops pop |
| `http1/write_loop.rs` | none; a channel of 1024 events | `recv`, `flush` or stop | `send`, `dispose` feed it |
| `http1/read_loop.rs`, `headers_reader`, `body_reader` | one `TcpBuffer`, `interim_count` per connection | status line, headers, framing decision, three body readers | socket, `pop_request`, awaiters |
| `http1/tcp_buffer.rs`, `read_with_timeout.rs` | bytes and two positions | fill, take a line, take a body, skip, compact | read loop |
| `http1/my_http_request*.rs`, `into_hyper_request.rs`, `headers.rs` | none | build and convert requests, validate headers | callers |
| `http2/*` | slot with `SendRequest`, `connect_lock`, `is_alive`, timeout rounds | `do_request`, `do_extended_connect`, `connect`, `register_request_timeout`, `disconnect`, `force_disconnect`, `dispose` | hyper's connection task |
| `http1_hyper/*` | slot with `SendRequest`, `connect_lock`, the public counter of dials | `do_request`, `get_response` and the WebSocket upgrade, `connect`, `disconnect` by the counter, `force_disconnect`, `dispose` | hyper's connection task |
| metrics, errors, traits, utilities | none | report, wrap | all |

What is hard here:

* **Tasks that check an id and act later.** `connection_id` is an atomic outside the mutex; a
  read loop compares it and then pops the FIFO, a caller dials while another installs.
* **Matching responses by position.** A response belongs to the front of the FIFO. Anything that
  adds, drops or keeps one entry too many shifts every later answer.
* **Awaits with the mutex held.** `send` awaits room in the channel, `flush` awaits the socket,
  `process_disconnect` awaits the shutdown: the other tasks see the half-done state.
* **Timeouts that abandon an awaiter** whose entry has to stay in the FIFO.
* **Callers that drop their future** at any await, with the mutex or `connect_lock` in hand.
* **Framing.** Where a response ends depends on the method asked, the status and the headers;
  one unit too many or too few and the rest of the connection is garbage, or the loop hangs.
* **Bytes that arrive in any cut**, in a buffer that is compacted under the unread rest, with reads
  that go past it.
* **http2 and http1_hyper:** a connection that dies before it is stored, replays of requests that
  may have run, rounds of timeouts, a counter that runs ahead of the slot.
* **Requests as bytes** that five different readers search for separators.

What makes each component correct: every caller gets the response to its own request or an error,
and is not left waiting on a connection that is gone; the id everybody checks is the id of the
slot; bytes handed to the slot are written or their caller is told; a connected slot has a reader;
the slot follows its life cycle; a body is the server's, in full; a legal response never costs the
connection; the client's tasks end with it.

## Modules

| Module | What it is | Run by | Proved in |
|---|---|---|---|
| `ConnectionSlot` | abstract: what a client promises about its one connection | the three clients | `Http1SlotProofs`, `Http2ClientProofs`, `HyperClientProofs` |
| `Http1Client` | callers, slot, FIFO, write loop, read loops, handles, dispose of `http1`: everything that shares `MyHttpClientInner` | `MCHttp1Client` | `Http1ClientProofs`, `Http1SlotProofs`, `Http1FifoProofs` (each extends the one before) |
| `ResponseFraming` | the bytes that `Http1Client` abstracts to one `reply` per response | `MCResponseFraming` | `ResponseFramingProofs` |
| `ByteStream` | abstract: what a reader of a connection hands out | `TcpBuffer` | `TcpBufferProofs` |
| `TcpBuffer` | the buffer and the timed reads below `ResponseFraming` | `MCTcpBuffer` | `TcpBufferProofs` |
| `Http2Client` | `http2`: dialers behind `connect_lock`, connection tasks, retries and replays, rounds of timeouts | `MCHttp2Client` | `Http2ClientProofs` |
| `HyperClient` | `http1_hyper`: the same shape, with replays of timeouts, upgrades and the public counter | `MCHyperClient` | `HyperClientProofs` |
| `RequestBuilding` | how requests are written, and read again | `MCRequestBuilding` | `RequestBuildingProofs` |

The plan has left: a body channel of `ResponseFraming` with a reader that is slow or gone.

## How the models correspond to the code

### Http1Client

One action is what a task does between two points where another may run: a lock acquisition, an
atomic it acts on later, or an await.

| Code | Model |
|---|---|
| `state.0` tag, its write half, whether that was taken, its `queue_to_deliver` | `state`, `stream`, `writeStreamTaken`, `queueToDeliver` |
| `state.lock()` held across an await | `lock`: `notify` (send, in the channel), `write` (flush, in the socket), `replace` (new_connection, in the shutdown of the old socket), `lose`, `dispose` (process_disconnect, in the shutdown), `close` (dispose, in the channel) |
| `connection_id`, `waiting_ws_upgrade` | `connectionId`, `waitingWsUpgrade` |
| `QueueOfRequests` | `queueOfRequests`, entries `[req, conn]`; `conn` is a ghost |
| the awaiter of a request | `result`: `pending` until set or dropped |
| `send` | `Send`, `NotifyWriter`; `SendRejected` |
| `send_payload` after the awaiter | `TakeResult`, `RequestTimeout` |
| `connect` and `new_connection` | `DialTimesOut`, `DialRefused`, `Dial`, `Replace`, `Install` |
| a caller that drops the future of `do_request` | `Abandon` |
| `upgrade_to_websocket` | `Upgrade`, `UpgradeRejected` |
| `write_loop`, `flush` | `WriterRecv`; `FlushBegin`, `FlushNothing`, `FlushEnds`, `FlushFails`, `FlushPanics` |
| `read_loop` | `LoopCheck`, `ReadReply`, `ReadInvalid`, `ReadFails`, `BodyEnds` |
| `pop_request` and the awaiter's `try_set_ok` | `PopCheck`, `PopTake` |
| the end of the read loop task | `LoopDisconnect`, `LoopStopped`, `LoopClose` |
| `disconnect`, `process_disconnect` | `BeginDisconnect`, `FinishDisconnect` |
| handles, `Drop`, `dispose` | `HandleDisconnect`, `DropClient`, `DisposeBegin`, `SendClose` |

`wire[c]` holds the requests the server has received on `c` and not answered: the server answers
in order, at any time, and may stop answering. `delivered` and `outOfStep` are histories used only
by properties: `outOfStep` is set when a pop acts on an id that changed after its check, when an
upgrade leaves entries of other callers in the FIFO, and when the write loop panics. `Terminated` is
a stutter in the one state in which the program may stop, so that TLC's deadlock check stays on in
every run.

`ConnectionSlot` is the abstract specification: a connection enters the slot at most once, is
upgraded only from `Connected`, leaves, and a disposed slot stays so. `Slot == INSTANCE
ConnectionSlot WITH ...` maps `state`, `stream` and the connections that ever had a read loop.

Left out: a response nobody asked for (the read loop discards it: `pop_request` returns `None`);
`set_error` on an awaiter that is gone, which belongs to `rust_extensions`; metrics.

### ResponseFraming

The stream is a sequence of tokens (a status line, a header, the empty line, a chunk size, a CRLF,
a unit of body), each taken by one action. The server is external: any answer RFC 9110 and
RFC 9112 allow, including a Content-Length or Transfer-Encoding on a response that has no body,
interim responses, answers at each limit and just beyond, malformed lines, and a connection that
breaks. `Respond` appends an answer at once, but for a chunked body, of which `SendChunk` and
`SendLastChunk` append one chunk each at any later time (`chunking` is where the server is in one).
`Cut` drops what is still unread: as the loop reads token by token at any speed, every prefix of the
stream is covered. `delivered` grows at
the point where the code gives the response to its awaiter: after the body, except for chunked
bodies. `phase` is where the loop is: a section of `read_headers`, a body reader, or how it ended.
`FrontMethod` is the method of the oldest unanswered request: that the FIFO's front is that
request is `QueueMatchesWireInStep` of `Http1Client`.

Left out: the read timeout (as far as the loop is concerned, a broken connection), trailers, and
callers that do not read a chunked body. `BodiesAreTheServers` compares the units a caller is given;
that a caller cannot tell a truncated chunked body from a complete one
(`http1/body_reader/body_reader_chunked.rs:33`) is not something it would find. How the stream is cut into reads is `TcpBuffer`.

### TcpBuffer

`buffer`, `read_pos` and `consumed_pos` are the fields of these names, `move` holds the local
variables of `compact`, whose loop is `CompactBlock` and whose rest is `CompactEnd`. A cell holds the
number of the byte of the stream that was read into it, 0 before the first, so a byte lost,
repeated, stale or out of place is seen; of the values only CR and LF matter.

| Code | Model |
|---|---|
| `get_write_buf` | `Refuse`, `WriteBehind`, `Reset`, `CompactBegin` |
| `read_to_buffer` | the above, then `SocketRead` (any size that fits) or `ReadEnds` |
| `read_until_crlf` on the buffer, and the retry around it | `FoundAt`, `ReadLine`, `NoLine` |
| `skip_exactly` on the buffer, and the retry around it | `Skip`, `SkipReadsMore` |
| `get_as_much_as_possible`, `read_full_body`, `read_chunked_body` | `TakeBody`, then `ExactRead` past the buffer |
| `read_until_close` | `TakeUntilClose`, then `CloseRead` past the buffer |
| the order of these calls in `read_loop`, `read_headers` and the body readers | `at`, `resume`, `Top`, `AfterLine`, `BodyEnds` |

How long a body is and what a line means is chosen freely: that is `ResponseFraming`.
`BytesSpec` is the refinement: whatever the reads, the buffer hands out the stream of `ByteStream`,
each byte once and in order, and a line ends at its first CR LF.

Left out: parsers that give up on a line they were given, which end the loop.

### Http2Client

The state mutex of `http2` is never held across an await, so a critical section is one action,
together with the decisions of its task that touch nothing shared.

| Code | Model |
|---|---|
| `MyHttp2ConnectionState`, the id in it | `state`, `currentConnectionId` (kept after the slot is emptied) |
| `is_alive`, `consecutive_timeouts`, metrics | `isAlive`, `consecutiveTimeouts`, `reported` (connects less disconnects) |
| `created.elapsed() - last_counted_timeout_micros` | `sinceCounted`, an age that saturates |
| `connect_lock` | held by whoever is at `dialing` or `storing` |
| `do_request`, `send_payload` | `Start`, `Send`, `SendRejected`, `TakeResponse`, `StreamFails`, `RequestTimeout`, with `Retry` |
| `do_extended_connect` | the same actions for `ExtendedConnect` callers, which connect first and never retry |
| `connect`, `wrap_http2_endpoint` | `Connect`, `Handshake`, `DialFails`, `Store` |
| the task that awaits `conn` | `task[c]`, `ConnEnds`, `TaskDisconnect` |
| `register_request_timeout`, `disconnect`, `force_disconnect`, `dispose` | operators and actions of these names |
| a caller that drops its future | `Abandon` |

hyper is external and modelled by the contract the code relies on: a request is `queued`, then
`dispatched` to the wire (`wired` counts that), then answered or broken; one that was not
dispatched when its connection ends is `canceled`; a reset of one stream leaves the connection.
`dispose` and `force_disconnect` are public operations of a public type, so they may come at any
time; the client itself only spawns `dispose` when it is dropped. `sinceProof` and `installed`
are histories. `register_request_timeout` is one action although a success may store 0 between
its loads: the outcome is always that of storing before or after it.

Left out: bodies after the headers of a response, the errors that an extended CONNECT returns
although it has a response (`http2/my_http2_client.rs:263-275`: `TakeResponse` ends it as any other
call, since they touch nothing shared), the pause of 50 ms before a redial, a standalone call of `connect` (the beginning of an extended CONNECT), numbers taken by dials that fail.

### HyperClient

The shape is that of `Http2Client`, and so are the names. What differs follows the code:

| Code | Model |
|---|---|
| `connection_id`, advanced before the dial | `connectionId`, advanced in `Connect`: a dial that fails uses its number up |
| `MyHttpClientDisconnect::disconnect`, which reads the counter and spawns a task | `AskDisconnect`, then `RunDisconnect(c)` at any later time |
| a timeout drops the connection, and an idempotent request is replayed | `RequestTimeout` with `DropTimedOutConn`, `MayReplayTimeout` |
| `get_response`, `upgrade_to_websocket` | `TakeResponse`, `Upgrade` |

hyper is external: one request at a time is `dispatched` (`WireIsFree`); another on the same
connection is `queued` or `canceled` at once; a caller that leaves a dispatched request makes its
connection `closing`; at a 101 the connection's future resolves (`Switch`) while its socket stays
open until the peer closes it (`SocketCloses`). The task then calls `disconnect(connection_id)`
(`TaskDisconnect`) before or after its caller reaches `Upgrade`.

Left out: bodies after the headers, a standalone call of `connect`, the difference between the
errors of a dial (`DialFails` stands for `InvalidHttpHandshake` too), and the `unwrap` of
`hyper_tungstenite::upgrade`.

### RequestBuilding

The buffer is a sequence of tokens: the separators, the names the code searches for in either case,
numbers, and `x` for any other text. The ghost `given` is what the caller asked for. Names and values
are any text (`RequestAssumption`); only the method is known to hold no separator, which the type
`http::Method` guarantees.

| Code | Model |
|---|---|
| `MyHttpRequestBuilder::new`, `append_header`, `build`, `build_with_body` | source `builder`: `Start`, `AddHeader`, `Build` |
| `MyHttpClientHeadersBuilder` and `MyHttpRequest::new` | source `new` |
| `from_hyper_request` | source `hyper`: valid headers in lower case, no length added |
| `validate_header_name`, `validate_header_value` | `ValidName`, `ValidValue`; a panic is `RefuseHeader` |
| `headers_contains`, `get_method`, `write_to`, the iterator, the conversions | `HeadersContain`, `GetMethod`, `WriteTo`, `NextHeader`, `ToHyperH1`, `ToHyperH2` |
| `find_next_cl_cr`, called from where the last line ended | `Ends`, all ends of lines; `LineEnds`, the same in order; `Lines`, what is between them |

`ServerReads` is the external reader: a request line, fields to the first empty line, a body.
Left out: what the `http` crate refuses in a conversion (it panics), which is why a Host is given
only values it accepts, and the `unwrap` of `to_str` in `from_hyper_request`
(`http1/my_http_request.rs:59`), which panics on a value that is not ASCII text.

## Runs

| Run | Expect | Bounds | What it shows |
|---|---|---|---|
| `http1_core` | pass | a caller that may upgrade and one that may not, 2 connections, ids from 0, a channel of 3 | types, id agreement, no lost flush, tracked waiters, no zombie without an upgrade, FIFO and answers as long as they are in step, refinement of `ConnectionSlot` |
| `http1_liveness` | pass | a caller that may upgrade and one that may not, 1 connection, a channel of 3 | every request ends that is not held up for ever by a chunked body or an upgrade; after drop the slot is disposed and the tasks end, but for a read loop inside an endless body |
| `http1_pop_race` | violation of `OwnResponse` | 2 callers, 2 connections | finding 1 |
| `http1_abandoned_upgrade` | violation of `NoZombie` | 2 callers, 1 connection | finding 2 |
| `http1_abandoned_replace` | violation of `ConnectedHasWriteStream` | 2 callers, 2 connections | finding 3 |
| `framing` | pass | 2 requests, 4 methods, limits of 1 or 2 | bodies are the server's, exactly the bad is refused, every response sent in full completes |
| `http2_core` | pass | an idempotent and another request, 2 connections, one retry after the first failure, 2 rounds | at most one execution of the latter, truthful errors, retries on newer connections, the slot lost only for cause, `is_alive` and metrics agree, refinement of `ConnectionSlot`, every call returns |
| `http2_rounds` | pass | 4 extended CONNECTs, one with twice the timeout, 1 connection, 3 rounds | timeouts drop a connection only after two full timeouts without a response |
| `hyper` | pass | a GET that may be upgraded and a POST, 2 connections, one retry | as `http2_core`, with timeouts that are replayed; counter and metrics tell what is in the slot |
| `hyper_upgrade_race` | violation of `OpenSocketReachesItsCaller` | 1 caller, 1 connection | finding 4 |
| `tcp_buffer` | pass | a buffer of 5, blocks of 2, every stream of 8 bytes in every cut, bodies up to 3 | the unread part is the stream and scans do not underflow, only what is too long is refused, refinement of `ByteStream` |
| `requests` | pass | up to 2 headers out of 10 names and 8 values, 3 bodies, 3 ways to build | server, hyper and iterator read what was given; a body has one length, whatever the headers look like |

Every property of a passing run has a mutant of the code that TLC finds with the same cfg: a lost
notification, a drain that skips replaced connections, a timeout that removes its FIFO entry, an
unreported end of a read loop, an off-by-one, a dropped id check, "Bug A" of
`response_framing_tests.rs`, a counter that is not reset, a timeout replayed whatever the method, a
compaction that moves one cell too few, a name compared byte by byte.

**Why the bounds are enough.** Two connections are the least that let a task of an old one meet a
new one, and the third would only be another new one. Two callers are the least for a FIFO that can
be out of order, for two dialers, for one caller's timeout to hit the other, and for the entry of
one to be left behind by the upgrade of the other. `FirstConnectionId` is 0 in `http1_core`:
`CONNECTION_ID` is shared by the process, so only its first connection has the id that also means
"no connection", the harder case; the runs that show findings use 1, so that none of them is due to
it. `ChannelCapacity` (1024 in the code) is 3 in `http1_core` and `http1_liveness`, which is as many
places as senders need: only `dispose` ever finds the channel full, and gets its place. With 2, TLC
reports a deadlock in `http1_core`: `dispose` waits for a place with the mutex held, and the write
loop waits for the mutex (see the hazards). That can happen with 1024 places and as many requests,
and no run claims it absent. `http1_core` has a
`VIEW` that leaves out how a caller that is done came out (unless it was upgraded): no action and no
property reads it. In `framing` every limit is at least exceeded by one and
met exactly, and two requests let an error in the first response show in the second.

In `http2_rounds` four callers are what the three rounds of the code and a success between them
take. `http2_core` and `hyper` lower the limits to 2 rounds and to one retry (`MaxRetryNo` = 0), so
that two callers and two connections reach them and a stale timeout has a count to add to. Timeouts
are 1 or 2 units of time and ages stop at 2, the largest value anything is compared with. Beyond
`MaxConnections` the connector refuses, which it may do at any time.

In `tcp_buffer` an unread part of up to 4 behind a consumed byte makes `compact` move nothing
before, one block, two blocks, and a block with a rest; 8 bytes go more than once through the buffer
of 5; CR and LF fall on either side of a read, of a block and of the end. In `requests` two headers
let the second be found, or mistaken, behind the first; the names include those that begin or end
with `content-length`, the values one that looks like a header.

**Fairness.** `FairSpec` of `Http1Client` assumes that tokio schedules every caller that has begun,
each spawned loop and `dispose`; that the lock is passed on (tokio's mutex is FIFO); and that what a
task waits for ends: a dial (`connect_timeout`), a write (`send_to_socket_timeout`), a header or a
body of bounded length (its limit, and `read_from_stream_timeout` for each read), and the shutdown
of a socket. The last is an assumption on the stream: `process_disconnect` awaits it without a
timeout (`http1/my_http_client_inner.rs:304`). Nothing of that kind holds of a chunked body, which has
any number of chunks and whose sender waits for a caller that does not read
(`http1/body_reader/body_reader_chunked.rs:41-114`), and long-lived bodies are meant to work
(`http1/my_http_client.rs:72-77`). So a read loop may stay in `body` for ever: its fairness is
`WF_vars(loop[c] # "body" /\ LoopStep(c))`. Nothing is assumed of `request_timeout` either.
`EveryRequestEnds` then says that a request ends without it unless from some moment on it is held up
for ever (`HeldUp`): its loop is inside a chunked body, or left for good because of an upgrade, its
own caller's (`BehindUpgrade`) or one whose caller had given up (finding 2). Such a caller does wait
for `request_timeout`. `DropEndsTasks` likewise excepts a read loop that never leaves a chunked body,
since the connection id is compared only between two responses (`http1/read_loop.rs:29`).
The run has one connection, so a retry always finds the connector refusing in the end; with two
connections and five places in the channel both properties hold as well (1.6 million states, 12
minutes). With two callers the flag `waiting_ws_upgrade` stays set behind an upgrade; a third one that
dialed in the meantime would reset it, and then `BehindUpgrade` says the same.
The number of connections is bounded, so an
endless series of accepted and lost connections, on which `send_payload` really retries for ever,
is not a behaviour of the model. `FairSpec` of `ResponseFraming` assumes only that the loop reads
what has arrived. `FairSpec` of `Http2Client` and of `HyperClient` assume that callers are scheduled
and that time passes (so `request_timeout` and `connect_timeout` fire); nothing of hyper, the server
or the network. `TcpBuffer` and `RequestBuilding` have no liveness
property.

## Findings

1. `pop_request` checks the id and pops in two steps (`http1/my_http_client_inner.rs:228-236`).
   A read loop that was suspended in between pops the first entry of the connection that replaced
   its own, and a caller is given somebody else's response.
2. A caller that times out before its 101 is popped leaves `waiting_ws_upgrade` set, and
   `read_loop_stopped` returns at `:320`: the slot stays connected to a socket nobody reads, which
   the comment at `http1/my_http_client.rs:180-186` says cannot happen.
3. A caller that drops its future while `new_connection` awaits the shutdown of the socket it
   replaces (`http1/my_http_client_inner.rs:303`) leaves a `Connected` context without a write half.
   `get_payload_to_send` (`:41`) and `upgrade_to_websocket` (`:204`) unwrap it: the write loop, which
   is spawned once per client, panics for good.
4. hyper resolves a connection at its 101, so its task may empty the slot before
   `upgrade_to_websocket` looks (`http1_hyper/my_http_hyper_client_inner.rs:134`): the caller is told
   `Disconnected` and an open WebSocket is dropped, without any peer having closed it.

Known besides, as conditions or exceptions of the properties that pass:

* `upgrade_to_websocket` leaves the FIFO as it is (`http1/my_http_client_inner.rs:198`) and
  `process_disconnect` drains it only from `Connected` (`:299`): callers pipelined behind an upgrade
  wait for their timeout, and their entries precede those of the next connection (`BehindUpgrade`,
  `outOfStep`).
* A chunked body may last for ever: callers pipelined behind it wait for their timeout, and neither
  a disconnect nor the drop of the client ends its read loop (`HeldUp`, `DropEndsTasks`).
* The `Upgrade` header decides on an upgrade whatever the status
  (`http1/headers_reader/parse_http_header.rs:60`): a 200 that advertises websocket loses its body.
  With `AdvertisesUpgrade = TRUE` the run `framing` finds `BodiesAreTheServers` violated.
* `connect` of http2 stores `Connected` and `is_alive` without knowing whether the task of that
  connection has already ended (`http2/my_http2_client.rs:343-351`): the flag then is true for a
  closed connection until a request fails on it.
* A caller of http1 that gives up between `send` and its Flush leaves its bytes to the next Flush:
  `NoLostFlush` is about callers that still wait.
* `from_hyper_request` adds no Content-Length (`http1/my_http_request.rs:40`), and
  `MyHttpRequest::new` does not check its path; only `MyHttpRequestBuilder` does.

## Proofs

All theorems hold for any set of callers, any number of connections, any sizes and limits, under
the named assumptions of the modules (`RequestsAssumption`, `BoundsAssumption`,
`BufferAssumption`, `FramingAssumption`, `RequestAssumption`). Each is proved from an inductive invariant: it holds initially, every action
preserves it (one step per action), and temporal logic concludes.

`Http1ClientProofs`, `Http1SlotProofs` and `Http1FifoProofs`:

| Theorem | Property | Inductive invariant |
|---|---|---|
| `TypeCorrect` | `TypeOK` | `TypeInv`: `TypeOK`, and a loop that holds a response has its request on the wire (needed for the tail that `Consume` takes) |
| `StreamIsAlwaysCurrent` | `StreamIsCurrent` | `SlotInv`: also, whoever is in the middle of `send` holds the lock, so the id it read is still that of the slot |
| `WaitersAreAlwaysTracked` | `WaitersAreTracked` | `WaitInv`: also, a pending caller is at `notifying` or `waiting`, so no other action changes its connection or its awaiter |
| `NobodyEverWaitsOnLostConnection` | `NobodyWaitsOnLostConnection` | `LostInv`: also, whoever upgrades was answered; it rests on the three above |
| `NeverZombieUnlessUpgraded` | `NoZombieUnlessUpgraded` | `ReaderInv`: what is true of the slot while the lock is held across an await, and a dialed connection is its caller's alone and has no loop yet |
| `SlotKeepsItsPromise` | `SlotSpec` | `SlotReaderInv`: the three before; what is installed never was |
| `NoFlushIsEverLost` | `NoLostFlush` | `BytesInv`: the bytes of a caller have a Flush of their connection in hand, in the channel or at the writer, and none is written twice |
| `QueueAlwaysMatchesWireInStep` | `QueueMatchesWireInStep` | `FifoInv`: in step, every entry is of the slot's connection, the FIFO is empty without one, and it lists wire and buffer also for a loop that is about to pop |
| `ResponsesAlwaysFindTheirRequests` | `OwnResponseInStep` | `FifoInv` |
| `HalvesAlwaysMatch` | `HalvesMatch` (in step; a corollary no run checks) | `FifoInv`: a delivered response came from the connection it was sent on |

`Http2ClientProofs` and `HyperClientProofs`:

| Theorem | Property | Inductive invariant |
|---|---|---|
| `TypeCorrect` | `TypeOK` | `TypeInv`: also, a connection in the slot or about to be stored has an id; for http2 it has a round of timeouts left |
| `NonIdempotentRunsAtMostOnce` | `NonIdempotentAtMostOnce` | `OnceInv`: a wired request that is not idempotent still waits on that very stream or has returned |
| `UnsentErrorsAreAlwaysTrue` | `UnsentErrorsAreTrue` | `OnceInv`: and if it has returned, not with an error that denies it |
| `RetriesAlwaysUseFreshConnections` | `RetriesUseFreshConnections` | `FreshInv`: one dialer at a time, ids are issued in order, a connection about to be stored is newer than all in use, and a caller that is not waiting only used connections older than the one in the slot |
| `SlotIsAlwaysLostForCause` | `SlotIsLostForCause` | `TypeInv` |
| `SlotKeepsItsPromise` | `SlotSpec` | `FreshInv`: what is stored was never in the slot |
| `SlotIsAlwaysReported` (http1_hyper) | `SlotIsReported` | `FreshInv`: whoever dials found the slot empty, and nobody else fills it |
| `ReportsAlwaysAgree` (http2) | `ReportsAgree` | `ReportInv`: whoever holds `connect_lock` for a dial found the slot empty, so a `Store` never reports a second connection |
| `TimeoutDropIsAlwaysEarned` (http2) | `TimeoutDropIsEarned` | `RoundsTakeTime`: with n rounds counted, at least n - 1 full timeouts passed without a response, and that much more as have passed since the last one counted |

The at-most-once theorems rest on hyper's contract that a canceled request never reached the wire.

`TcpBufferProofs`:

| Theorem | Property | Inductive invariant |
|---|---|---|
| `TypeCorrect` | `TypeOK` | `BufferInv`, below |
| `UnreadIsAlwaysTheStream` | `UnreadIsTheStream` | `Accounted`, `Content`, `Moving`: what was read and not taken is between the positions; while `compact` runs, what it has moved is at the front and what it has not is still in place, because a block is read before it is overwritten and the destination stays behind the source; `HasRead`: whoever scans has read something |
| `OnlyTooLongIsRefused` | `RefusedIsTooLong` | `Lacks`: a read is asked for only when the unread part holds no line, or fewer than two bytes to skip |
| `ReadersAreGivenTheStream` | `BytesSpec` | `Drained`: the reads that go past the buffer find it empty |

`ResponseFramingProofs`, for any number of requests, all limits, bodies of any length, and headers,
interim responses and chunks in any number:

| Theorem | Property | Inductive invariant |
|---|---|---|
| `TypeCorrect` | `TypeOK` | `FramingInv`, below: `remains` and the counts stay within their bounds only because the loop is where the server is |
| `NoForeignBodies` | `BodiesAreTheServers` | `DeliveredInv`: what was handed over fits (`Fits`) the response of the same number |
| `OnlyTheBadAreRefused` | `RefusesExactlyTheBad` | `DeliveredInv`, and what `Positions` know of the limits |

The argument is about positions. Between two tokens of its output the server is at a `Position`: before
a status line, within the headers, so many units into a body or a chunk. `Positions` are those that
agree with the history `sent` (`Linked`): the header lines up to there say what they should, what is
left of a body adds up to its length, a response beyond a limit is marked so. `Step(p, t, q)` is that
token `t` takes the server from `p` to `q`, and `Leads` that a sequence of tokens does. `ReaderInv` says
that there is a path: from a position that the variables of the read loop describe (`Reads`), along
exactly the tokens it has not read, to the position where the server is now (`ServerAt`). Each
action of the server adds a path at the end (`ServerSends`; `ResponseLeads` for a whole response),
each action of the loop takes one step from the front (`TakesToken`), and `HeadersTell` shows that
at the empty line the framing decision of `read_headers` is the framing the server chose. No
induction over the stream is needed: paths are functions, joined by `LeadsConcat`.

These three theorems assume `~AdvertisesUpgrade`, as the run does. Without it `BodiesAreTheServers` is
false, because a 200 that advertises websocket loses its body (see Findings).

`RequestBuildingProofs`, for any names, values and methods, and headers in any number:

| Theorem | Property | Inductive invariant |
|---|---|---|
| `TypeCorrect` | `TypeOK` | `Inv`, below |
| `ServerReadsTheSame` | `ServerReadsWhatWasGiven` | `Inv` |
| `LengthIsRight` | `LengthIsTheBodys` | `Inv` |
| `HyperH1IsTheSame`, `HyperH2IsTheSame`, `IteratorIsRight` | the three conjuncts of the next | `Inv`; for the iterator `ListInv`, below |
| `ReadBackIsTheSame` | `ReadBackIsWhatWasGiven` | those of its conjuncts |

`Inv` is `TypeInv` (what was validated) and `BufferInv`: seen as its lines, the buffer is the request
line, if it is there yet, and one line per header given, and it ends with the last of them. A step
that appends a line keeps that, because a validated line has exactly one end of line, at its own
end, and none arises where two lines meet. The theorems then read that list of lines.
`HeadersContain` looks for an end of line, so it looks at the start of a header, and the name there
runs up to the first colon: it finds a Content-Length if and only if one is in `given` (`Supplied`).
The empty line that `write_to` adds is the first empty one, and what is behind it is the body,
whatever the body holds. A name and a value are read back from a line as they were written, but for
the white space around a value.

The iterator reads a headers builder that holds no request line yet: `ListInv` says that its lines are
the headers given. The property is the induction step of an iteration: a call of `next` at the start of
a header (`NextHeader`) yields that header and stops at the start of the next one, and a call at the
end yields nothing; so the calls, begun at the start, yield the headers in order.

Only model-checked are the liveness properties, which are beyond the prover: `EveryRequestEnds`,
`DropEndsTasks`, `EveryResponseCompletes`, `EveryCallReturns`. Every safety property, every action
property and every refinement of a passing run is a theorem.

## Not modelled

A response nobody asked for, chunked trailers, a caller that reads a chunked body slowly or not at
all, the calls of metrics other than connected and disconnected, parser errors inside `TcpBuffer`,
bytes that follow a 101 in the buffer (they are dropped with it). The connector is external: it
answers, refuses or hangs. TLS, name resolution and hyper itself are not part of the repository.
