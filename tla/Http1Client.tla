---------------------------- MODULE Http1Client ----------------------------
(***************************************************************************)
(* The HTTP/1.1 client of src/src/http1: callers of do_request, the write  *)
(* loop, one read loop per connection and the disconnection handles, which *)
(* share one MyHttpClientInner.                                            *)
(*                                                                         *)
(* MyHttpClientInner holds the state behind an asynchronous mutex, and,    *)
(* outside it, the atomics connection_id and waiting_ws_upgrade and the    *)
(* FIFO of requests that wait for a response.  A read loop matches the     *)
(* responses of its connection with requests by position in that FIFO, so  *)
(* everything depends on the FIFO, the connection id and the socket        *)
(* agreeing, across tasks that check the id at one step and act on it at a *)
(* later one.  An action is what a task does between two such points: a    *)
(* lock acquisition, an atomic load it acts on later, or an await.         *)
(*                                                                         *)
(* A response is reduced to how it ends (reply) and to the request it      *)
(* answers (the head of wire); bytes and framing are in ResponseFraming.   *)
(***************************************************************************)
EXTENDS Naturals, Sequences, FiniteSets, Functions

CONSTANTS
    Requests,           \* calls of do_request, one caller each
    UpgradeRequests,    \* those the server may answer with a WebSocket upgrade
    FirstConnectionId,  \* CONNECTION_ID, a static of the process, when the client is made
    MaxConnections,     \* bound on the connections dialed
    ChannelCapacity     \* of the channel to the write loop (1024 in the code)

ASSUME RequestsAssumption == UpgradeRequests \subseteq Requests
ASSUME BoundsAssumption ==
    /\ FirstConnectionId \in Nat
    /\ MaxConnections \in Nat \ {0}
    /\ ChannelCapacity \in Nat \ {0}

VARIABLES
    state,            \* the tag of WritePartState
    stream,           \* the connection whose write half the context holds (or last held)
    writeStreamTaken, \* its write_stream is None: it was taken to be shut down
    queueToDeliver,   \* requests serialised but not yet written to the socket
    lock,             \* what the holder of the state mutex has still to do
    connectionId,     \* the atomic connection_id; 0 also stands for "no connection"
    waitingWsUpgrade, \* the atomic waiting_ws_upgrade
    queueOfRequests,  \* awaiting tasks, with the connection they were sent on
    channel,          \* WriteLoopEvents on their way to the write loop
    writer,           \* the write loop
    pc, conn, result, \* each caller: where it is, its connection id, its awaiter
    loop, reply,      \* each connection's read loop, and the response it has read
    wire,             \* requests a server received and has not answered yet
    nextId,           \* CONNECTION_ID
    handles,          \* MyHttpClientDisconnection objects given to callers
    dropped,          \* MyHttpClient was dropped
    delivered,        \* history: which response every caller was given
    outOfStep         \* history: the FIFO and the wire may have parted

mutexVars == <<state, stream, writeStreamTaken, queueToDeliver, lock>>
queueVars == <<queueOfRequests, delivered, outOfStep>>
flagVars == <<connectionId, waitingWsUpgrade>>
writerVars == <<channel, writer>>
callerVars == <<pc, conn, result>>
loopVars == <<loop, reply, wire>>
clientVars == <<nextId, handles, dropped>>
vars == <<mutexVars, queueVars, flagVars, writerVars, callerVars, loopVars, clientVars>>

Conns == FirstConnectionId .. (FirstConnectionId + MaxConnections - 1)
ConnIds == Conns \cup {0}

Errors == {"Disconnected", "CanNotExecuteRequest", "RequestTimeout",
           "CanNotConnectToRemoteHost", "UpgradedToWebSocket", "Disposed"}
Replies == {"length", "close", "chunked", "upgrade", "invalid"}
Entries == [req : Requests, conn : ConnIds]
Event(kind, id) == [kind |-> kind, id |-> id]
Events == [kind : {"Flush", "Close"}, id : ConnIds]
Writer(at, id) == [at |-> at, id |-> id]

TypeOK ==
    /\ state \in {"Connected", "UpgradedToWebSocket", "Disconnected", "Disposed"}
    /\ stream \in ConnIds
    /\ writeStreamTaken \in BOOLEAN
    /\ queueToDeliver \in Seq(Requests)
    /\ lock \in {"free", "notify", "replace", "write", "lose", "dispose", "close"}
    /\ connectionId \in ConnIds
    /\ waitingWsUpgrade \in BOOLEAN
    /\ queueOfRequests \in Seq(Entries)
    /\ channel \in Seq(Events)
    /\ Len(channel) <= ChannelCapacity
    /\ writer \in [at : {"none", "recv", "flush", "losing", "closed"}, id : ConnIds]
    /\ pc \in [Requests -> {"idle", "sending", "notifying", "waiting", "dialing",
                            "installing", "replacing", "upgrading", "done"}]
    /\ conn \in [Requests -> ConnIds]
    /\ result \in [Requests -> Errors \cup {"none", "pending", "Response", "WebsocketUpgrade"}]
    /\ loop \in [Conns -> {"none", "top", "read", "check", "take", "body", "disconnect",
                           "disconnecting", "stopped", "close", "closing", "ended"}]
    /\ reply \in [Conns -> Replies \cup {"none"}]
    /\ wire \in [Conns -> Seq(Requests)]
    /\ nextId \in Conns \cup {FirstConnectionId + MaxConnections}
    /\ handles \subseteq ConnIds
    /\ dropped \in BOOLEAN
    /\ delivered \subseteq [to : Requests, sentOn : ConnIds, of : Requests, from : Conns]
    /\ outOfStep \in BOOLEAN

Init ==
    /\ state = "Disconnected"
    /\ stream = 0
    /\ writeStreamTaken = FALSE
    /\ queueToDeliver = <<>>
    /\ lock = "free"
    /\ connectionId = 0
    /\ waitingWsUpgrade = FALSE
    /\ queueOfRequests = <<>>
    /\ channel = <<>>
    /\ writer = Writer("none", 0)
    /\ pc = [r \in Requests |-> "idle"]
    /\ conn = [r \in Requests |-> 0]
    /\ result = [r \in Requests |-> "none"]
    /\ loop = [c \in Conns |-> "none"]
    /\ reply = [c \in Conns |-> "none"]
    /\ wire = [c \in Conns |-> <<>>]
    /\ nextId = FirstConnectionId
    /\ handles = {}
    /\ dropped = FALSE
    /\ delivered = {}
    /\ outOfStep = FALSE
-----------------------------------------------------------------------------
(* Awaiting tasks *)

\* The caller still holds the awaiter of entry e: try_set_ok and try_set_error succeed.
Awaited(e) == result[e.req] = "pending" /\ conn[e.req] = e.conn

WaitsInQueue(r) == \E e \in Range(queueOfRequests) : e.req = r /\ Awaited(e)

Pending(r) == result[r] = "pending"

IsRetryable(err) == err = "Disconnected"

IsMyConnectionId(c) == connectionId = c

\* Mutant: the FIFO is cleared and nobody is told.
NotifyConnectionLostSilently ==
    /\ queueOfRequests' = <<>>
    /\ UNCHANGED result

\* notify_connection_lost: the FIFO is emptied and every caller in it is told.
NotifyConnectionLost ==
    /\ queueOfRequests' = <<>>
    /\ result' = [r \in Requests |-> IF WaitsInQueue(r) THEN "Disconnected" ELSE result[r]]

\* Mutant: nobody is notified.
ProcessDisconnectSilently(newStatus) ==
    /\ state' = newStatus
    /\ queueToDeliver' = <<>>
    /\ UNCHANGED <<queueOfRequests, result>>

\* Mutant: replacing a connection does not count as losing it.
ProcessDisconnectUnlessReplaced(newStatus) ==
    /\ IF state = "Connected" /\ newStatus # "Connected"
       THEN NotifyConnectionLost
       ELSE UNCHANGED <<queueOfRequests, result>>
    /\ state' = newStatus
    /\ queueToDeliver' = <<>>

\* process_disconnect: only a Connected slot has callers to notify.
ProcessDisconnect(newStatus) ==
    /\ IF state = "Connected"
       THEN NotifyConnectionLost
       ELSE UNCHANGED <<queueOfRequests, result>>
    /\ state' = newStatus
    /\ queueToDeliver' = <<>>

\* A caller leaves do_request with err.
Fail(r, err) ==
    /\ result' = [result EXCEPT ![r] = err]
    /\ pc' = [pc EXCEPT ![r] = IF IsRetryable(err) THEN "dialing" ELSE "done"]
-----------------------------------------------------------------------------
(* Callers: MyHttpClient::do_request, send_payload and connect *)

Start(r) ==
    /\ pc[r] = "idle"
    /\ ~dropped
    /\ pc' = [pc EXCEPT ![r] = "sending"]
    /\ UNCHANGED <<mutexVars, queueVars, flagVars, writerVars, conn, result, loopVars, clientVars>>

\* send, up to the channel: queue the task and the bytes under the lock, in the same order.
Send(r) ==
    /\ pc[r] = "sending"
    /\ lock = "free"
    /\ state = "Connected"
    /\ queueOfRequests' = Append(queueOfRequests, [req |-> r, conn |-> connectionId])
    /\ queueToDeliver' = Append(queueToDeliver, r)
    /\ conn' = [conn EXCEPT ![r] = connectionId]
    /\ result' = [result EXCEPT ![r] = "pending"]
    /\ pc' = [pc EXCEPT ![r] = "notifying"]
    /\ lock' = "notify"
    /\ UNCHANGED <<state, stream, writeStreamTaken, delivered, outOfStep, flagVars, writerVars,
                   loopVars, clientVars>>

\* unwrap_as_connected_mut refuses any other state.
SendError == IF state = "UpgradedToWebSocket" THEN "UpgradedToWebSocket" ELSE state

SendRejected(r) ==
    /\ pc[r] = "sending"
    /\ lock = "free"
    /\ state # "Connected"
    /\ Fail(r, SendError)
    /\ UNCHANGED <<mutexVars, queueVars, flagVars, writerVars, conn, loopVars, clientVars>>

\* Mutant: off by one.
HasRoomForOneMore == Len(channel) <= ChannelCapacity

HasRoom == Len(channel) < ChannelCapacity

\* The channel takes an event, or drops it because the write loop is over.
PushEvent(e) ==
    \/ writer.at = "closed" /\ UNCHANGED channel
    \/ writer.at # "closed" /\ HasRoom /\ channel' = Append(channel, e)

\* The rest of send: the event is pushed with the lock still held.
NotifyWriter(r) ==
    /\ pc[r] = "notifying"
    /\ PushEvent(Event("Flush", conn[r]))
    /\ lock' = "free"
    /\ pc' = [pc EXCEPT ![r] = "waiting"]
    /\ UNCHANGED <<state, stream, writeStreamTaken, queueToDeliver, queueVars, flagVars, writer, conn,
                   result, loopVars, clientVars>>

\* The awaiter of send_payload resolved.
TakeResult(r) ==
    /\ pc[r] = "waiting"
    /\ ~Pending(r)
    /\ pc' = [pc EXCEPT ![r] = CASE result[r] = "WebsocketUpgrade" -> "upgrading"
                                 [] IsRetryable(result[r])         -> "dialing"
                                 [] OTHER                          -> "done"]
    /\ UNCHANGED <<mutexVars, queueVars, flagVars, writerVars, conn, result, loopVars, clientVars>>

\* Mutant: a caller that gives up takes its entry out of the FIFO.
RequestTimeoutWithCleanup(r) ==
    /\ pc[r] = "waiting"
    /\ Fail(r, "RequestTimeout")
    /\ queueOfRequests' = SelectSeq(queueOfRequests, LAMBDA e : e.req # r)
    /\ UNCHANGED <<mutexVars, delivered, outOfStep, flagVars, writerVars, conn, loopVars, clientVars>>

\* request_timeout elapsed: the awaiter is dropped, its entry stays in the FIFO.  A result
\* set between the timer's last poll of the awaiter and the drop is lost, hence no ~Pending.
RequestTimeout(r) ==
    /\ pc[r] = "waiting"
    /\ Fail(r, "RequestTimeout")
    /\ UNCHANGED <<mutexVars, queueVars, flagVars, writerVars, conn, loopVars, clientVars>>

\* A caller drops the future of do_request anywhere else, and the mutex it holds with it: its
\* entry and its bytes stay without a Flush of their own, a connection that it was replacing
\* stays in the slot without its write half, its dial or the read half of a WebSocket is dropped.
\* While it waits this does what RequestTimeout does.
Abandon(r) ==
    /\ pc[r] \notin {"idle", "waiting", "done"}
    /\ pc' = [pc EXCEPT ![r] = "done"]
    /\ result' = [result EXCEPT ![r] = "none"]
    /\ lock' = IF pc[r] \in {"notifying", "replacing"} THEN "free" ELSE lock
    /\ UNCHANGED <<state, stream, writeStreamTaken, queueToDeliver, queueVars, flagVars, writerVars,
                   conn, loopVars, clientVars>>

\* connect: connect_timeout elapsed before the connector answered.
DialTimesOut(r) ==
    /\ pc[r] = "dialing"
    /\ Fail(r, "CanNotConnectToRemoteHost")
    /\ UNCHANGED <<mutexVars, queueVars, flagVars, writerVars, conn, loopVars, clientVars>>

\* The channel and the write loop are made by the first dial that was answered.
EnsureWriter ==
    IF writer.at = "none" THEN writer' = Writer("recv", 0) ELSE UNCHANGED writer

\* connect: the connector answered with an error, which is looked at after the write loop is made.
DialRefused(r) ==
    /\ pc[r] = "dialing"
    /\ lock = "free"
    /\ EnsureWriter
    /\ Fail(r, "CanNotConnectToRemoteHost")
    /\ UNCHANGED <<mutexVars, queueVars, flagVars, channel, conn, loopVars, clientVars>>

\* connect: the connector answered with a stream, which takes the next id of the process.
\* Nothing keeps other callers from dialing at the same time.
Dial(r) ==
    /\ pc[r] = "dialing"
    /\ lock = "free"
    /\ nextId \in Conns  \* bound
    /\ EnsureWriter
    /\ conn' = [conn EXCEPT ![r] = nextId]
    /\ nextId' = nextId + 1
    /\ pc' = [pc EXCEPT ![r] = "installing"]
    /\ UNCHANGED <<mutexVars, queueVars, flagVars, channel, result, loopVars, handles, dropped>>

\* new_connection, up to the shutdown of the connection that is replaced, an await.
Replace(r) ==
    /\ pc[r] = "installing"
    /\ lock = "free"
    /\ state = "Connected"
    /\ writeStreamTaken' = TRUE
    /\ lock' = "replace"
    /\ pc' = [pc EXCEPT ![r] = "replacing"]
    /\ UNCHANGED <<state, stream, queueToDeliver, queueVars, flagVars, writerVars, conn, result,
                   loopVars, clientVars>>

\* The rest of new_connection, and the spawn of the read loop.
Install(r) ==
    /\ \/ pc[r] = "replacing"
       \/ pc[r] = "installing" /\ lock = "free" /\ state \notin {"Connected", "Disposed"}
    /\ ProcessDisconnect("Connected")
    /\ stream' = conn[r]
    /\ writeStreamTaken' = FALSE
    /\ lock' = "free"
    /\ waitingWsUpgrade' = FALSE
    /\ connectionId' = conn[r]
    /\ loop' = [loop EXCEPT ![conn[r]] = "top"]
    /\ pc' = [pc EXCEPT ![r] = "sending"]
    /\ UNCHANGED <<delivered, outOfStep, writerVars, conn, reply, wire, clientVars>>

\* The cases in which upgrade_to_websocket gives the write half away.
CanUpgrade(r) == state = "Connected" /\ IsMyConnectionId(conn[r])

UpgradeError == IF state = "UpgradedToWebSocket" THEN "UpgradedToWebSocket" ELSE "Disconnected"

\* upgrade_to_websocket, called with the read half in hand.  The slot's context is dropped with
\* the bytes it had not sent; the FIFO is left as it is.  Without a write half the caller panics.
Upgrade(r) ==
    /\ pc[r] = "upgrading"
    /\ lock = "free"
    /\ CanUpgrade(r)
    /\ state' = "UpgradedToWebSocket"
    /\ writeStreamTaken' = FALSE
    /\ queueToDeliver' = <<>>
    /\ handles' = IF writeStreamTaken THEN handles ELSE handles \cup {conn[r]}
    /\ outOfStep' = (outOfStep \/ queueOfRequests # <<>>)
    /\ pc' = [pc EXCEPT ![r] = "done"]
    /\ UNCHANGED <<stream, lock, queueOfRequests, delivered, flagVars, writerVars, conn, result,
                   loopVars, nextId, dropped>>

\* do_request has no retry left here: the error is the caller's.
UpgradeRejected(r) ==
    /\ pc[r] = "upgrading"
    /\ lock = "free"
    /\ ~CanUpgrade(r)
    /\ result' = [result EXCEPT ![r] = UpgradeError]
    /\ pc' = [pc EXCEPT ![r] = "done"]
    /\ UNCHANGED <<mutexVars, queueVars, flagVars, writerVars, conn, loopVars, clientVars>>
-----------------------------------------------------------------------------
(* The write loop *)

\* Mutant: the events that have piled up are taken for one.
WriterRecvAll ==
    /\ writer.at = "recv"
    /\ channel # <<>>
    /\ channel' = SelectSeq(channel, LAMBDA e : e.kind = "Close")
    /\ writer' = Writer("flush", Head(channel).id)
    /\ UNCHANGED <<mutexVars, queueVars, flagVars, callerVars, loopVars, clientVars>>

WriterRecv ==
    /\ writer.at = "recv"
    /\ channel # <<>>
    /\ channel' = Tail(channel)
    /\ writer' = IF Head(channel).kind = "Close" THEN Writer("closed", 0)
                                                 ELSE Writer("flush", Head(channel).id)
    /\ UNCHANGED <<mutexVars, queueVars, flagVars, callerVars, loopVars, clientVars>>

\* flush writes: the event is for the current connection, and get_payload_to_send has bytes.
HasPayload(c) == IsMyConnectionId(c) /\ state = "Connected" /\ queueToDeliver # <<>>

\* The payload leaves the context before the socket has taken it, so another send may
\* wait for the lock while the server already answers.
FlushBegin ==
    /\ writer.at = "flush"
    /\ lock = "free"
    /\ HasPayload(writer.id)
    /\ ~writeStreamTaken
    /\ wire' = [wire EXCEPT ![stream] = @ \o queueToDeliver]
    /\ queueToDeliver' = <<>>
    /\ lock' = "write"
    /\ UNCHANGED <<state, stream, writeStreamTaken, queueVars, flagVars, writerVars, callerVars, loop,
                   reply, clientVars>>

\* get_payload_to_send unwraps a write_stream that is None: the write loop panics, for good.
FlushPanics ==
    /\ writer.at = "flush"
    /\ lock = "free"
    /\ HasPayload(writer.id)
    /\ writeStreamTaken
    /\ queueToDeliver' = <<>>
    /\ writer' = Writer("closed", 0)
    /\ channel' = <<>>
    /\ outOfStep' = TRUE
    /\ UNCHANGED <<state, stream, writeStreamTaken, lock, queueOfRequests, delivered, flagVars,
                   callerVars, loopVars, clientVars>>

FlushNothing ==
    /\ writer.at = "flush"
    /\ lock = "free"
    /\ ~HasPayload(writer.id)
    /\ writer' = Writer("recv", 0)
    /\ UNCHANGED <<mutexVars, queueVars, flagVars, channel, callerVars, loopVars, clientVars>>

FlushEnds ==
    /\ lock = "write"
    /\ lock' = "free"
    /\ writer' = Writer("recv", 0)
    /\ UNCHANGED <<state, stream, writeStreamTaken, queueToDeliver, queueVars, flagVars, channel, callerVars,
                   loopVars, clientVars>>

\* Mutant: flush returns without process_disconnect.
FlushFailsHalfway ==
    /\ lock = "write"
    /\ connectionId' = 0
    /\ lock' = "free"
    /\ writer' = Writer("recv", 0)
    /\ UNCHANGED <<state, stream, writeStreamTaken, queueToDeliver, queueVars, waitingWsUpgrade, channel,
                   callerVars, loopVars, clientVars>>

\* The socket failed, or took longer than send_to_socket_timeout.
FlushFails ==
    /\ lock = "write"
    /\ connectionId' = 0
    /\ lock' = "lose"
    /\ writer' = Writer("losing", 0)
    /\ UNCHANGED <<state, stream, writeStreamTaken, queueToDeliver, queueVars, waitingWsUpgrade, channel,
                   callerVars, loopVars, clientVars>>
-----------------------------------------------------------------------------
(* The read loop of connection c, and the task that watches it *)

LoopGoes(c, at) == loop' = [loop EXCEPT ![c] = at]

LoopCheck(c) ==
    /\ loop[c] = "top"
    /\ LoopGoes(c, IF IsMyConnectionId(c) THEN "read" ELSE "stopped")
    /\ UNCHANGED <<mutexVars, queueVars, flagVars, writerVars, callerVars, reply, wire, clientVars>>

\* A response arrived, with its body unless it is chunked; it is the answer to the request
\* the server received first.
ReadReply(c, kind) ==
    /\ loop[c] = "read"
    /\ wire[c] # <<>>
    /\ kind \in Replies \ {"invalid"}
    /\ kind = "upgrade" => Head(wire[c]) \in UpgradeRequests
    /\ reply' = [reply EXCEPT ![c] = kind]
    /\ LoopGoes(c, "check")
    /\ UNCHANGED <<mutexVars, queueVars, flagVars, writerVars, callerVars, wire, clientVars>>

\* InvalidHttpPayload, in a header or in a chunked body whose response was already popped.
\* A panic of the loop takes the same path.
ReadInvalid(c) ==
    /\ loop[c] \in {"read", "body"}
    /\ reply' = [reply EXCEPT ![c] = "invalid"]
    /\ LoopGoes(c, "check")
    /\ UNCHANGED <<mutexVars, queueVars, flagVars, writerVars, callerVars, wire, clientVars>>

\* End of stream, a socket error or the read timeout.
ReadFails(c) ==
    /\ loop[c] \in {"read", "body"}
    /\ LoopGoes(c, "disconnect")
    /\ UNCHANGED <<mutexVars, queueVars, flagVars, writerVars, callerVars, reply, wire, clientVars>>

\* A chunked body may end, or never: nothing bounds its chunks, and the loop waits for a caller
\* that does not read them.
BodyEnds(c) ==
    /\ loop[c] = "body"
    /\ LoopGoes(c, "top")
    /\ UNCHANGED <<mutexVars, queueVars, flagVars, writerVars, callerVars, reply, wire, clientVars>>

\* Where the loop goes once a response was handed to its request, or found none.
AfterPop(kind, abandoned) ==
    IF kind = "invalid" THEN "disconnect"
    ELSE IF kind \in {"close", "upgrade"} \/ abandoned THEN "stopped"
    ELSE IF kind = "length" THEN "top"
    ELSE "body"

\* The response leaves the wire, whoever got it.
Consume(c) ==
    /\ wire' = [wire EXCEPT ![c] = IF reply[c] = "invalid" THEN @ ELSE Tail(@)]
    /\ reply' = [reply EXCEPT ![c] = "none"]

\* pop_request, first step: the id is read without the state mutex.
PopCheck(c) ==
    /\ loop[c] = "check"
    /\ IF IsMyConnectionId(c)
       THEN LoopGoes(c, "take") /\ UNCHANGED <<reply, wire>>
       ELSE LoopGoes(c, AfterPop(reply[c], FALSE)) /\ Consume(c)
    /\ UNCHANGED <<mutexVars, queueVars, flagVars, writerVars, callerVars, clientVars>>

Outcome(kind) == CASE kind = "upgrade" -> "WebsocketUpgrade"
                   [] kind = "invalid" -> "CanNotExecuteRequest"
                   [] OTHER            -> "Response"

\* The front entry e of the FIFO is given the response that c has read.
Deliver(c, e) ==
    /\ queueOfRequests' = Tail(queueOfRequests)
    /\ outOfStep' = (outOfStep \/ stream # c)
    /\ result' = IF Awaited(e) THEN [result EXCEPT ![e.req] = Outcome(reply[c])] ELSE result
    /\ delivered' = IF Awaited(e) /\ reply[c] # "invalid"
                    THEN delivered \cup {[to |-> e.req, sentOn |-> e.conn,
                                          of |-> Head(wire[c]), from |-> c]}
                    ELSE delivered

\* pop_request, second step, and try_set_ok: by now the slot may belong to another connection.
PopTake(c) ==
    /\ loop[c] = "take"
    /\ waitingWsUpgrade' = (waitingWsUpgrade \/ reply[c] = "upgrade")
    /\ IF queueOfRequests = <<>>
       THEN UNCHANGED <<queueOfRequests, outOfStep, result, delivered>>
       ELSE Deliver(c, Head(queueOfRequests))
    /\ LoopGoes(c, AfterPop(reply[c], queueOfRequests # <<>> /\ ~Awaited(Head(queueOfRequests))))
    /\ Consume(c)
    /\ UNCHANGED <<mutexVars, connectionId, writerVars, pc, conn, clientVars>>

\* connectionId is cleared at once; the FIFO is drained after the shutdown of the socket, an
\* await, with the lock held (FinishDisconnect).
BeginDisconnect ==
    /\ connectionId' = 0
    /\ lock' = "lose"
    /\ UNCHANGED <<state, stream, writeStreamTaken, queueToDeliver, waitingWsUpgrade>>

\* Mutant: the state is not looked at.
CanDisconnectAnyState(c) == IsMyConnectionId(c)

CanDisconnect(c) == IsMyConnectionId(c) /\ state \notin {"Disconnected", "Disposed"}

\* The read half went with read_loop: what is still to come is never read.
DropReadHalf(c) == wire' = [wire EXCEPT ![c] = <<>>]

\* The loop ended with an error: disconnect.
LoopDisconnect(c) ==
    /\ loop[c] = "disconnect"
    /\ lock = "free"
    /\ IF CanDisconnect(c)
       THEN LoopGoes(c, "disconnecting") /\ BeginDisconnect
       ELSE LoopGoes(c, "stopped") /\ UNCHANGED <<mutexVars, flagVars>>
    /\ DropReadHalf(c)
    /\ UNCHANGED <<queueVars, writerVars, callerVars, reply, clientVars>>

\* Mutant: nobody reports that a read loop stopped.
LoopStoppedUnreported(c) ==
    /\ loop[c] = "stopped"
    /\ LoopGoes(c, "ended")
    /\ DropReadHalf(c)
    /\ UNCHANGED <<mutexVars, queueVars, flagVars, writerVars, callerVars, reply, clientVars>>

\* read_loop_stopped, first step: the flag is read before the lock is asked for.
LoopStopped(c) ==
    /\ loop[c] = "stopped"
    /\ LoopGoes(c, IF waitingWsUpgrade THEN "ended" ELSE "close")
    /\ DropReadHalf(c)
    /\ UNCHANGED <<mutexVars, queueVars, flagVars, writerVars, callerVars, reply, clientVars>>

CanClose(c) == IsMyConnectionId(c) /\ state = "Connected"

\* read_loop_stopped, under the lock.
LoopClose(c) ==
    /\ loop[c] = "close"
    /\ lock = "free"
    /\ IF CanClose(c)
       THEN LoopGoes(c, "closing") /\ BeginDisconnect
       ELSE LoopGoes(c, "ended") /\ UNCHANGED <<mutexVars, flagVars>>
    /\ UNCHANGED <<queueVars, writerVars, callerVars, reply, wire, clientVars>>
-----------------------------------------------------------------------------
(* Disconnection handles, dispose, and the second half of every disconnect *)

\* disconnect and web_socket_disconnect of a MyHttpClientDisconnection spawn disconnect.
HandleDisconnect(c) ==
    /\ c \in handles
    /\ lock = "free"
    /\ CanDisconnect(c)
    /\ BeginDisconnect
    /\ UNCHANGED <<queueVars, writerVars, callerVars, loopVars, clientVars>>

\* Drop needs &mut self, so no do_request is running; it spawns dispose.
DropClient ==
    /\ ~dropped
    /\ \A r \in Requests : pc[r] \in {"idle", "done"}
    /\ dropped' = TRUE
    /\ UNCHANGED <<mutexVars, queueVars, flagVars, writerVars, callerVars, loopVars, nextId, handles>>

DisposeBegin ==
    /\ dropped
    /\ state # "Disposed"
    /\ lock = "free"
    /\ connectionId' = 0
    /\ lock' = "dispose"
    /\ UNCHANGED <<state, stream, writeStreamTaken, queueToDeliver, queueVars, waitingWsUpgrade, writerVars,
                   callerVars, loopVars, clientVars>>

\* Mutant: dispose does not tell the write loop.
HasWriterForgotten == FALSE

HasWriter == writer.at # "none"

\* The rest of process_disconnect, once the socket is shut down.
FinishDisconnect ==
    /\ lock \in {"lose", "dispose"}
    /\ ProcessDisconnect(IF lock = "lose" THEN "Disconnected" ELSE "Disposed")
    /\ lock' = IF lock = "dispose" /\ HasWriter THEN "close" ELSE "free"
    /\ writer' = IF writer.at = "losing" THEN Writer("recv", 0) ELSE writer
    /\ loop' = [c \in Conns |-> CASE loop[c] = "disconnecting" -> "stopped"
                                  [] loop[c] = "closing"       -> "ended"
                                  [] OTHER                     -> loop[c]]
    /\ writeStreamTaken' = FALSE
    /\ UNCHANGED <<stream, delivered, outOfStep, flagVars, channel, pc, conn, reply, wire, clientVars>>

\* dispose tells the write loop to end, with the lock held.
SendClose ==
    /\ lock = "close"
    /\ PushEvent(Event("Close", 0))
    /\ lock' = "free"
    /\ UNCHANGED <<state, stream, writeStreamTaken, queueToDeliver, queueVars, flagVars, writer,
                   callerVars, loopVars, clientVars>>
-----------------------------------------------------------------------------
(* Specification *)

CallerStep(r) ==
    \/ Send(r)
    \/ SendRejected(r)
    \/ NotifyWriter(r)
    \/ TakeResult(r)
    \/ DialTimesOut(r)
    \/ DialRefused(r)
    \/ Dial(r)
    \/ Replace(r)
    \/ Install(r)
    \/ Upgrade(r)
    \/ UpgradeRejected(r)

WriterStep == WriterRecv \/ FlushBegin \/ FlushPanics \/ FlushNothing \/ FlushEnds \/ FlushFails

LoopStep(c) ==
    \/ LoopCheck(c)
    \/ \E kind \in Replies : ReadReply(c, kind)
    \/ ReadInvalid(c)
    \/ ReadFails(c)
    \/ BodyEnds(c)
    \/ PopCheck(c)
    \/ PopTake(c)
    \/ LoopDisconnect(c)
    \/ LoopStopped(c)
    \/ LoopClose(c)

DisposeStep == DisposeBegin \/ FinishDisconnect \/ SendClose

\* The client was dropped and every task it spawned is over: the only way for it to stop, so
\* that any other state without a successor is reported as a deadlock.
Terminated ==
    /\ state = "Disposed"
    /\ lock = "free"
    /\ writer.at \in {"none", "closed"}
    /\ \A c \in Conns : loop[c] \in {"none", "ended"}
    /\ UNCHANGED vars

Next ==
    \/ \E r \in Requests : Start(r) \/ CallerStep(r) \/ RequestTimeout(r) \/ Abandon(r)
    \/ WriterStep
    \/ \E c \in Conns : LoopStep(c) \/ HandleDisconnect(c)
    \/ DropClient
    \/ DisposeStep
    \/ Terminated

Spec == Init /\ [][Next]_vars

\* Every spawned task and every caller that has begun is scheduled (tokio), the mutex is FIFO,
\* and what a task waits for ends: a dial (connect_timeout), a write (send_to_socket_timeout), a
\* header or a body of bounded length (limits, and read_from_stream_timeout for each read), and
\* the shutdown of a socket, which is assumed of the stream: process_disconnect sets no timeout.
\* A chunked body need not end, and nothing is assumed of the server, of the callers that have
\* not begun, of the handles, nor of request_timeout, which the caller chooses.
Fairness ==
    /\ \A r \in Requests : WF_vars(CallerStep(r))
    /\ \A c \in Conns : WF_vars(loop[c] # "body" /\ LoopStep(c))
    /\ WF_vars(WriterStep)
    /\ WF_vars(DisposeStep)

FairSpec == Spec /\ Fairness
-----------------------------------------------------------------------------
(* Properties *)

\* Whenever nobody is in the middle of a disconnect, the id that every task checks is the id of
\* the connection whose write half the slot holds: flush, disconnect, upgrade_to_websocket and
\* read_loop_stopped compare with connection_id and then act on the slot.
StreamIsCurrent ==
    state \in {"Connected", "UpgradedToWebSocket"} /\ lock \notin {"lose", "dispose"}
        => connectionId = stream

\* The bytes of a caller that waits always have a Flush of their connection on its way: an event
\* of an older connection, which flush ignores, never stands in for it.  The exception is a write
\* loop that panicked.
NoLostFlush ==
    /\ state = "Connected"
    /\ lock \notin {"lose", "dispose"}
    /\ \E r \in Range(queueToDeliver) : Pending(r)
    => \/ lock = "notify"
       \/ writer = Writer("flush", stream)
       \/ Event("Flush", stream) \in Range(channel)
       \/ writer.at = "closed"

\* A caller that still waits has its own entry in the FIFO, so that a response or the loss of
\* the connection can reach it: no pop, drain or reconnect forgets a caller.
WaitersAreTracked ==
    \A r \in Requests : Pending(r) => [req |-> r, conn |-> conn[r]] \in Range(queueOfRequests)

\* A caller was upgraded on the connection that r was sent on.
BehindUpgrade(r) ==
    \E q \in Requests : pc[q] = "done" /\ result[q] = "WebsocketUpgrade" /\ conn[q] = conn[r]

\* A caller only ever waits on the connection the slot holds: whoever was sent on a lost or
\* replaced connection has been told.  The exception are callers that were sent behind a
\* WebSocket upgrade on the same connection: nobody tells them, they wait for request_timeout.
NobodyWaitsOnLostConnection ==
    \A r \in Requests : Pending(r) =>
        (state = "Connected" /\ conn[r] = stream) \/ BehindUpgrade(r)

\* The write loop and upgrade_to_websocket find the write half they unwrap
\* (my_http_client_inner.rs:41 and 204).
ConnectedHasWriteStream == state = "Connected" /\ lock = "free" => ~writeStreamTaken

\* A caller was given the read half of the slot's connection and is about to ask for the other.
UpgradeUnderWay ==
    \E r \in Requests : /\ result[r] = "WebsocketUpgrade"
                        /\ pc[r] \in {"waiting", "upgrading"}
                        /\ conn[r] = stream

\* A connected slot has a read loop, or one that is still to report that it stopped, unless it
\* is being upgraded (my_http_client.rs:180-186: otherwise the connection is a zombie, requests
\* are written to a socket nobody reads).
NoZombie ==
    state = "Connected" /\ lock \notin {"lose", "dispose"}
        => loop[stream] \notin {"none", "ended"} \/ UpgradeUnderWay

\* That is so whenever the response that ended the read loop was not taken for an upgrade.
NoZombieUnlessUpgraded ==
    state = "Connected" /\ lock \notin {"lose", "dispose"}
        => loop[stream] \notin {"none", "ended"} \/ waitingWsUpgrade

IsReading(c) == loop[c] \in {"top", "read", "check", "take", "body"}

\* The FIFO lists, in order, what is on the wire of the current connection and what is still to
\* be written to it (queue_of_requests.rs:78-81: the front entry always matches the response
\* currently on the wire).
QueueMatchesWire ==
    state = "Connected" /\ IsMyConnectionId(stream) /\ IsReading(stream)
        => [i \in DOMAIN queueOfRequests |-> queueOfRequests[i].req]
             = wire[stream] \o queueToDeliver

\* Every caller is given the response to its own request, from the connection it used.
OwnResponse == \A d \in delivered : d.of = d.to /\ d.from = d.sentOn

\* The two above hold as long as no pop acts on a connection id that changed after its check, no
\* WebSocket upgrade leaves the entries of other callers in the FIFO, and no write loop panics.
QueueMatchesWireInStep == ~outOfStep => QueueMatchesWire
OwnResponseInStep == ~outOfStep => OwnResponse

\* The two halves that do_request reunites come from the same connection: the read half from
\* the read loop that answered the caller, the write half from the slot.
HalvesMatch ==
    [][\A r \in Requests, d \in delivered :
         Upgrade(r) /\ d.to = r /\ d.sentOn = conn[r] /\ ~outOfStep => d.from = stream]_vars

\* The slot behind the state mutex keeps the promise of ConnectionSlot.
Slot == INSTANCE ConnectionSlot WITH
            Connections <- Conns, status <- state, holder <- stream,
            used <- {c \in Conns : loop[c] # "none"}

SlotSpec == Slot!SlotSpec

\* The read loop of r's connection answers nobody while it is inside a chunked body, and it left
\* for good when it found a response that upgrades the connection.
HeldUp(r) ==
    Pending(r) /\ \/ loop[conn[r]] = "body"
                  \/ BehindUpgrade(r)
                  \/ loop[conn[r]] = "ended" /\ waitingWsUpgrade

\* Every request ends without its request_timeout, through failed writes, lost and refused
\* connections and retries (send_payload), unless from some moment on its response is held up
\* for ever: by a chunked body that does not end, or by an upgrade, behind which nobody reads.
EveryRequestEnds ==
    \A r \in Requests : pc[r] = "sending" ~> (pc[r] = "done" \/ []HeldUp(r))

\* Dropping the client closes its slot and ends the write loop and every read loop, but for one
\* that never leaves a chunked body: it looks at the connection id only between two responses
\* (read_loop.rs:29).
DropEndsTasks ==
    /\ dropped ~> state = "Disposed" /\ writer.at \in {"none", "closed"}
    /\ \A c \in Conns : dropped ~> (loop[c] \in {"none", "ended"} \/ [](loop[c] = "body"))
=============================================================================
