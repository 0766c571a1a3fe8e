---------------------------- MODULE HyperClient ----------------------------
(***************************************************************************)
(* The HTTP/1.1 client of src/src/http1_hyper: callers of do_request that  *)
(* share one connection which hyper drives in a task of its own.           *)
(*                                                                         *)
(* The slot (MyHttpHyperConnectionState) is behind a mutex that is never   *)
(* held across an await, so a critical section is one action, together     *)
(* with the local decisions around it.  connect_lock is held across a      *)
(* dial: whoever is at "dialing" or "storing" holds it.  The id of a       *)
(* connection is the value connect gives the public counter before it      *)
(* dials, so the counter runs ahead of the slot and dials that fail use    *)
(* numbers up.                                                             *)
(*                                                                         *)
(* hyper is external: one request at a time is on the wire of an HTTP/1.1  *)
(* connection, one that was not dispatched is canceled, a connection whose *)
(* response nobody reads is not used again, and at a 101 the connection's  *)
(* future resolves with its socket still open.  A request_timeout may      *)
(* elapse at any time.                                                     *)
(***************************************************************************)
EXTENDS Integers

CONSTANTS
    Requests,        \* calls of do_request, one caller each
    Idempotent,      \* those whose method is idempotent
    UpgradeRequests, \* those the server may answer with a 101
    MaxRetryNo,      \* the largest retry_no with which do_request retries (3 in the code)
    MaxConnections   \* bound: the connector refuses every later dial

ASSUME RequestsAssumption ==
    /\ Idempotent \subseteq Requests
    /\ UpgradeRequests \subseteq Idempotent  \* a WebSocket handshake is a GET
ASSUME BoundsAssumption == MaxRetryNo \in Nat /\ MaxConnections \in Nat

VARIABLES
    state,               \* the tag of MyHttpHyperConnectionState
    currentConnectionId, \* of the connection in the slot, or of the last one that was
    reported,            \* metrics: calls of connected less calls of disconnected
    connectionId,        \* the counter of dials
    task,                \* each connection and its task
    installed,           \* history: the connections that were in the slot
    asked,               \* ids that spawned disconnects of the public handle still carry
    pc, result,          \* each caller: where it is and what it returned
    retryNo,             \* its retry_no
    conn,                \* the connection its request was last sent on
    stream,              \* that request, in hyper
    wired                \* history: times the request was handed to the wire, up to 2

slotVars == <<state, currentConnectionId, reported>>
connVars == <<connectionId, task, installed>>
callerVars == <<pc, result, retryNo, conn>>
streamVars == <<stream, wired>>
vars == <<slotVars, connVars, asked, callerVars, streamVars>>

Conns == 1 .. MaxConnections

Unsent == {"Disconnected", "Disposed", "CanNotConnectToRemoteHost"}
Errors == Unsent \cup {"RequestTimeout", "CanNotExecuteRequest"}

TypeOK ==
    /\ state \in {"Disconnected", "Connected", "Disposed"}
    /\ currentConnectionId \in Conns \cup {0}
    /\ reported \in Int
    /\ connectionId \in 0 .. MaxConnections
    /\ task \in [Conns -> {"none", "running", "closing", "upgraded", "ended", "released", "done"}]
    /\ installed \subseteq Conns
    /\ asked \subseteq 0 .. MaxConnections
    /\ pc \in [Requests -> {"idle", "sending", "waiting", "upgrading", "connecting", "dialing",
                            "storing", "done"}]
    /\ result \in [Requests -> Errors \cup {"none", "Response", "WebSocketUpgrade", "abandoned"}]
    /\ retryNo \in [Requests -> 0 .. MaxRetryNo + 1]
    /\ conn \in [Requests -> Conns \cup {0}]
    /\ stream \in [Requests -> {"none", "queued", "dispatched", "answered", "switched",
                                "canceled", "broken"}]
    /\ wired \in [Requests -> 0 .. 2]

Init ==
    /\ state = "Disconnected"
    /\ currentConnectionId = 0
    /\ reported = 0
    /\ connectionId = 0
    /\ task = [c \in Conns |-> "none"]
    /\ installed = {}
    /\ asked = {}
    /\ pc = [r \in Requests |-> "idle"]
    /\ result = [r \in Requests |-> "none"]
    /\ retryNo = [r \in Requests |-> 0]
    /\ conn = [r \in Requests |-> 0]
    /\ stream = [r \in Requests |-> "none"]
    /\ wired = [r \in Requests |-> 0]
-----------------------------------------------------------------------------
(* The slot *)

Holds(c) == state = "Connected" /\ currentConnectionId = c

\* The connection is reported lost and its SendRequest dropped.
LoseSlot ==
    /\ state' = "Disconnected"
    /\ reported' = reported - 1
    /\ UNCHANGED currentConnectionId

\* Mutant: whatever connection is in the slot is dropped.
DisconnectAny(c) == IF state = "Connected" THEN LoseSlot ELSE UNCHANGED slotVars

\* disconnect(connection_id): only that connection is dropped.
Disconnect(c) == IF Holds(c) THEN LoseSlot ELSE UNCHANGED slotVars

\* force_disconnect, a public operation of the inner client that nothing in the crate calls.
ForceDisconnect ==
    /\ state = "Connected"
    /\ LoseSlot
    /\ UNCHANGED <<connVars, asked, callerVars, streamVars>>

\* dispose reports the connection it drops.
LastReport == IF state = "Connected" THEN reported - 1 ELSE reported

\* dispose, spawned when the client is dropped; the inner client offers it to everyone.
Dispose ==
    /\ state # "Disposed"
    /\ state' = "Disposed"
    /\ reported' = LastReport
    /\ UNCHANGED <<currentConnectionId, connVars, asked, callerVars, streamVars>>

\* MyHttpClientDisconnect::disconnect reads the counter now and disconnects in a task of its own.
AskDisconnect ==
    /\ state # "Disposed"
    /\ asked' = asked \cup {connectionId}
    /\ UNCHANGED <<slotVars, connVars, callerVars, streamVars>>

RunDisconnect(c) ==
    /\ c \in asked
    /\ asked' = asked \ {c}
    /\ Disconnect(c)
    /\ UNCHANGED <<connVars, callerVars, streamVars>>
-----------------------------------------------------------------------------
(* Callers: do_request, send_payload and get_response *)

Goto(r, at) == pc' = [pc EXCEPT ![r] = at] /\ UNCHANGED result

Finish(r, res) ==
    /\ pc' = [pc EXCEPT ![r] = "done"]
    /\ result' = [result EXCEPT ![r] = res]

\* Mutant: one retry too many.
RetriesLeftOffByOne(r) == retryNo[r] <= MaxRetryNo + 1

RetriesLeft(r) == retryNo[r] <= MaxRetryNo

\* A failed do_request reconnects and sends again, up to MaxRetryNo + 1 times.
Retry(r, err) ==
    IF RetriesLeft(r)
    THEN Goto(r, "connecting") /\ retryNo' = [retryNo EXCEPT ![r] = @ + 1]
    ELSE Finish(r, err) /\ UNCHANGED retryNo

CloseStream(r) ==
    /\ stream' = [stream EXCEPT ![r] = "none"]
    /\ UNCHANGED wired

Start(r) ==
    /\ pc[r] = "idle"
    /\ Goto(r, "sending")
    /\ UNCHANGED <<slotVars, connVars, asked, retryNo, conn, streamVars>>

\* What hyper does with a request given to the SendRequest of c: a connection that has carried
\* another one may not be ready for it, one that is over never is.
Accepted(r, c) ==
    LET over == task[c] \notin {"running", "closing"} IN
    {how \in {"queued", "canceled"} :
       IF how = "queued" THEN ~over ELSE over \/ \E q \in Requests \ {r} : conn[q] = c}

Send(r) ==
    /\ pc[r] = "sending"
    /\ state = "Connected"
    /\ Goto(r, "waiting")
    /\ conn' = [conn EXCEPT ![r] = currentConnectionId]
    /\ \E how \in Accepted(r, currentConnectionId) : stream' = [stream EXCEPT ![r] = how]
    /\ UNCHANGED <<slotVars, connVars, asked, retryNo, wired>>

SendRejected(r) ==
    /\ pc[r] = "sending"
    /\ \/ state = "Disposed" /\ Finish(r, "Disposed") /\ UNCHANGED retryNo
       \/ state = "Disconnected" /\ Retry(r, "Disconnected")
    /\ UNCHANGED <<slotVars, connVars, asked, conn, streamVars>>

\* get_response: anything but a 101 is the caller's.
TakeResponse(r) ==
    /\ pc[r] = "waiting"
    /\ \/ stream[r] = "answered" /\ Finish(r, "Response")
       \/ stream[r] = "switched" /\ Goto(r, "upgrading")
    /\ CloseStream(r)
    /\ UNCHANGED <<slotVars, connVars, asked, retryNo, conn>>

\* upgrade_to_websocket: the slot only has to be connected, and stays so; upgraded_to_websocket
\* is never set, so two callers may pass.
Upgrade(r) ==
    /\ pc[r] = "upgrading"
    /\ Finish(r, IF state = "Connected" THEN "WebSocketUpgrade" ELSE state)
    /\ UNCHANGED <<slotVars, connVars, asked, retryNo, conn, streamVars>>

\* Mutant: what hyper failed is sent again, whatever the error and the method.
MayReplayAll(r) == TRUE

\* A canceled request never reached the wire; any other one is replayed only if idempotent.
MayReplay(r) == stream[r] = "canceled" \/ r \in Idempotent

\* An error of hyper drops the connection it came from before anything else.
StreamFails(r) ==
    /\ pc[r] = "waiting"
    /\ stream[r] \in {"canceled", "broken"}
    /\ Disconnect(conn[r])
    /\ IF MayReplay(r)
       THEN Retry(r, "CanNotExecuteRequest")
       ELSE Finish(r, "CanNotExecuteRequest") /\ UNCHANGED retryNo
    /\ CloseStream(r)
    /\ UNCHANGED <<connVars, asked, conn>>

Live(r) == pc[r] = "waiting" /\ stream[r] \in {"queued", "dispatched"}

\* hyper does not use a connection again whose response nobody waits for.
LeaveWire(r) ==
    task' = IF stream[r] = "dispatched" /\ task[conn[r]] = "running"
            THEN [task EXCEPT ![conn[r]] = "closing"]
            ELSE task

\* Mutant: the timer does not cover a request that waits for the wire.
CanTimeOutOnWire(r) == Live(r) /\ stream[r] = "dispatched"

\* A timer only wins over a response that has not come.
CanTimeOut(r) == Live(r)

\* Mutant: as in http2, a timeout leaves the connection in the slot.
DropTimedOutConnNever(r) == UNCHANGED slotVars

\* An HTTP/1.1 connection with a response still to come can not be used again.
DropTimedOutConn(r) == Disconnect(conn[r])

\* Mutant: a request that timed out is sent again, whatever its method.
MayReplayTimeoutAll(r) == TRUE

MayReplayTimeout(r) == r \in Idempotent

RequestTimeout(r) ==
    /\ pc[r] = "waiting"
    /\ CanTimeOut(r)
    /\ DropTimedOutConn(r)
    /\ LeaveWire(r)
    /\ IF MayReplayTimeout(r)
       THEN Retry(r, "RequestTimeout")
       ELSE Finish(r, "RequestTimeout") /\ UNCHANGED retryNo
    /\ CloseStream(r)
    /\ UNCHANGED <<connectionId, installed, asked, conn>>

\* A caller drops its future at any await; connect_lock and a fresh SendRequest go with it.
Abandon(r) ==
    /\ pc[r] \notin {"idle", "done"}
    /\ Finish(r, "abandoned")
    /\ LeaveWire(r)
    /\ CloseStream(r)
    /\ UNCHANGED <<slotVars, connectionId, installed, asked, retryNo, conn>>
-----------------------------------------------------------------------------
(* connect *)

Dialing(r) == pc[r] \in {"dialing", "storing"}

\* Mutant: the slot is not looked at again once the lock is held.
MustDialAlways == state # "Disposed"

MustDial == state = "Disconnected"

\* connect_lock is free, and the caller finds out whether it still has to dial; if so the
\* counter is advanced.
Connect(r) ==
    /\ pc[r] = "connecting"
    /\ \A q \in Requests : ~Dialing(q)
    /\ \/ /\ MustDial
          /\ connectionId < MaxConnections
          /\ connectionId' = connectionId + 1
          /\ Goto(r, "dialing")
       \/ /\ MustDial
          /\ connectionId = MaxConnections  \* bound
          /\ Finish(r, "CanNotConnectToRemoteHost")
          /\ UNCHANGED connectionId
       \/ /\ state = "Connected" /\ ~MustDial
          /\ Goto(r, "sending")
          /\ UNCHANGED connectionId
       \/ /\ state = "Disposed"
          /\ Finish(r, "Disposed")
          /\ UNCHANGED connectionId
    /\ UNCHANGED <<slotVars, task, installed, asked, retryNo, conn, streamVars>>

\* wrap_http1_endpoint: the handshake is done and the task of the connection is spawned.
Handshake(r) ==
    /\ pc[r] = "dialing"
    /\ task' = [task EXCEPT ![connectionId] = "running"]
    /\ Goto(r, "storing")
    /\ UNCHANGED <<slotVars, connectionId, installed, asked, retryNo, conn, streamVars>>

\* The connector, the handshake or sender.ready() fails, or connect_timeout expires.
DialFails(r) ==
    /\ Dialing(r)
    /\ Finish(r, "CanNotConnectToRemoteHost")
    /\ UNCHANGED <<slotVars, connVars, asked, retryNo, conn, streamVars>>

\* Mutant: a client disposed during the dial is connected again.
CanStoreAlways == TRUE

CanStore == state # "Disposed"

\* connect stores the connection, unless the client was disposed meanwhile.
Store(r) ==
    /\ pc[r] = "storing"
    /\ IF CanStore
       THEN /\ state' = "Connected"
            /\ currentConnectionId' = connectionId
            /\ reported' = reported + 1
            /\ installed' = installed \cup {connectionId}
            /\ Goto(r, "sending")
       ELSE /\ Finish(r, "Disposed")
            /\ UNCHANGED <<slotVars, installed>>
    /\ UNCHANGED <<connectionId, task, asked, retryNo, conn, streamVars>>
-----------------------------------------------------------------------------
(* hyper, and the task that wrap_http1_endpoint spawns *)

SetStream(r, to) == stream' = [stream EXCEPT ![r] = to]

WireIsFree(c) == \A q \in Requests : ~(Live(q) /\ stream[q] = "dispatched" /\ conn[q] = c)

Dispatch(r) ==
    /\ Live(r) /\ stream[r] = "queued"
    /\ task[conn[r]] = "running"
    /\ WireIsFree(conn[r])
    /\ SetStream(r, "dispatched")
    /\ wired' = [wired EXCEPT ![r] = IF @ < 2 THEN @ + 1 ELSE @]
    /\ UNCHANGED <<slotVars, connVars, asked, callerVars>>

Answer(r) ==
    /\ Live(r) /\ stream[r] = "dispatched"
    /\ SetStream(r, "answered")
    /\ UNCHANGED <<slotVars, connVars, asked, callerVars, wired>>

\* The requests on c when its future resolves: what is not on the wire is canceled.
Ending(c) ==
    [r \in Requests |-> IF ~Live(r) \/ conn[r] # c THEN stream[r]
                        ELSE IF stream[r] = "queued" THEN "canceled" ELSE "broken"]

\* A 101 arrives: the future of the connection resolves, its socket goes with the response.
Switch(r) ==
    /\ r \in UpgradeRequests
    /\ Live(r) /\ stream[r] = "dispatched"
    /\ task' = [task EXCEPT ![conn[r]] = "upgraded"]
    /\ stream' = [Ending(conn[r]) EXCEPT ![r] = "switched"]
    /\ UNCHANGED <<slotVars, connectionId, installed, asked, callerVars, wired>>

\* The peer or the network ends a connection, or hyper does.
ConnEnds(c) ==
    /\ task[c] \in {"running", "closing"}
    /\ task' = [task EXCEPT ![c] = "ended"]
    /\ stream' = Ending(c)
    /\ UNCHANGED <<slotVars, connectionId, installed, asked, callerVars, wired>>

\* The peer closes the socket of an upgraded connection.
SocketCloses(c) ==
    /\ task[c] \in {"upgraded", "released"}
    /\ task' = [task EXCEPT ![c] = IF @ = "upgraded" THEN "ended" ELSE "done"]
    /\ UNCHANGED <<slotVars, connectionId, installed, asked, callerVars, streamVars>>

\* The future of a connection resolved and disconnect(connection_id) runs.
TaskDisconnect(c) ==
    /\ task[c] \in {"upgraded", "ended"}
    /\ task' = [task EXCEPT ![c] = IF @ = "upgraded" THEN "released" ELSE "done"]
    /\ Disconnect(c)
    /\ UNCHANGED <<connectionId, installed, asked, callerVars, streamVars>>
-----------------------------------------------------------------------------
(* Specification *)

CallerStep(r) ==
    \/ Send(r)
    \/ SendRejected(r)
    \/ TakeResponse(r)
    \/ Upgrade(r)
    \/ StreamFails(r)
    \/ RequestTimeout(r)
    \/ Connect(r)
    \/ Handshake(r)
    \/ DialFails(r)
    \/ Store(r)

TaskOver(c) == task[c] \in {"none", "released", "done"}

\* Every caller has returned and every task is over.
Terminated ==
    /\ state = "Disposed"
    /\ asked = {}
    /\ \A r \in Requests : pc[r] = "done"
    /\ \A c \in Conns : TaskOver(c)
    /\ UNCHANGED vars

Next ==
    \/ \E r \in Requests :
         Start(r) \/ CallerStep(r) \/ Abandon(r) \/ Dispatch(r) \/ Answer(r) \/ Switch(r)
    \/ \E c \in Conns : ConnEnds(c) \/ SocketCloses(c) \/ TaskDisconnect(c)
    \/ \E c \in 0 .. MaxConnections : RunDisconnect(c)
    \/ AskDisconnect
    \/ ForceDisconnect
    \/ Dispose
    \/ Terminated

Spec == Init /\ [][Next]_vars

\* tokio schedules callers that have begun, and request_timeout and connect_timeout elapse.
\* Nothing is assumed of hyper, of the server or of the network.
Fairness == \A r \in Requests : WF_vars(CallerStep(r))

FairSpec == Spec /\ Fairness
-----------------------------------------------------------------------------
(* Properties *)

\* A request that is not idempotent is handed to the wire at most once, although timeouts and
\* failures are replayed here (my_http_hyper_client.rs:126-127 and 158-159).
NonIdempotentAtMostOnce == \A r \in Requests \ Idempotent : wired[r] <= 1

\* An error that says a request was never sent is true, unless it was a replay
\* (my_http_hyper_client.rs:114-115).
UnsentErrorsAreTrue ==
    \A r \in Requests \ Idempotent : result[r] \in Unsent => wired[r] = 0

\* A caller never sends again on the connection that failed it or timed out, nor on an older
\* one: an HTTP/1.1 connection with an unread response pending is not used again
\* (my_http_hyper_client.rs:124-125).
RetriesUseFreshConnections ==
    [][\A r \in Requests :
         pc[r] = "sending" /\ pc'[r] = "waiting" => conn'[r] > conn[r]]_vars

\* The counter that the public disconnect() reads is the id of the connection in the slot,
\* however many dials failed, raced or were given up before (my_http_hyper_client.rs:195-200).
CounterIsTheSlots == state = "Connected" => currentConnectionId = connectionId

\* The slot loses a connection only through an operation on it, a request of it that failed or
\* timed out, the end of its own task, or a disconnect() asked for when its number was the
\* latest: no late task of another connection takes it.
SlotIsLostForCause ==
    [][state = "Connected" /\ state' = "Disconnected" =>
         LET c == currentConnectionId IN
         \/ ForceDisconnect
         \/ c \in asked
         \/ task[c] \in {"upgraded", "ended"} /\ task'[c] # task[c]
         \/ \E r \in Requests : pc[r] = "waiting" /\ pc'[r] # "waiting" /\ conn[r] = c]_vars

\* The balance of the metrics tells whether the slot is connected.
ReportsAgree == reported = IF state = "Connected" THEN 1 ELSE 0

\* What can be told of the slot without its mutex, by the counter and by the metrics, is true.
SlotIsReported == CounterIsTheSlots /\ ReportsAgree

\* What the repository says of an upgrade that fails (my_http_hyper_client_inner.rs:132-133): the
\* peer closed the connection after its 101, so a caller whose socket is open gets it.
OpenSocketReachesItsCaller ==
    [][\A r \in Requests :
         pc[r] = "upgrading" /\ task[conn[r]] \in {"upgraded", "released"}
            => result'[r] # "Disconnected"]_vars

\* The slot behind the state mutex keeps the promise of ConnectionSlot.
Slot == INSTANCE ConnectionSlot WITH
            Connections <- Conns, status <- state, holder <- currentConnectionId, used <- installed

SlotSpec == Slot!SlotSpec

\* Every call returns, even if the server never answers and every dial hangs.
EveryCallReturns == \A r \in Requests : pc[r] # "idle" ~> pc[r] = "done"
=============================================================================
