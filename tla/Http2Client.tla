---------------------------- MODULE Http2Client ----------------------------
(***************************************************************************)
(* The HTTP/2 client of src/src/http2: callers of do_request and of        *)
(* do_extended_connect, multiplexed over one connection that hyper drives  *)
(* in a task of its own.                                                   *)
(*                                                                         *)
(* The slot (MyHttp2ConnectionState) is behind a mutex that is never held  *)
(* across an await, so a critical section is one action, together with the *)
(* local decisions around it.  connect_lock is held across a dial: whoever *)
(* is at "dialing" or "storing" holds it.                                  *)
(*                                                                         *)
(* hyper is external: it hands a request to the wire or cancels it,        *)
(* answers, breaks a stream, and ends the connection.  Time is kept as     *)
(* ages that saturate at Horizon, the largest one the code compares with.  *)
(***************************************************************************)
EXTENDS Integers

CONSTANTS
    Requests,        \* calls, one caller each
    Idempotent,      \* those whose method is idempotent
    ExtendedConnect, \* those made with do_extended_connect
    Patient,         \* those with the longer request_timeout
    MaxRetryNo,      \* the largest retry_no with which do_request retries (3 in the code)
    MaxConsecutiveTimeouts, \* rounds that cost a connection (3 in the code)
    MaxConnections   \* bound: the connector refuses every later dial

ASSUME RequestsAssumption ==
    /\ Idempotent \subseteq Requests
    /\ ExtendedConnect \subseteq Requests \ Idempotent
    /\ Patient \subseteq Requests
ASSUME BoundsAssumption ==
    /\ MaxRetryNo \in Nat
    /\ MaxConsecutiveTimeouts \in 1 .. 3
    /\ MaxConnections \in Nat

VARIABLES
    state,               \* the tag of MyHttp2ConnectionState
    currentConnectionId, \* of the connection in the slot, or of the last one that was
    isAlive,             \* the atomic is_alive
    reported,            \* metrics: calls of connected less calls of disconnected
    consecutiveTimeouts, \* the atomic consecutive_timeouts
    sinceCounted,        \* time since last_counted_timeout_micros
    sinceProof,          \* history: time since the slot was filled or a response was taken
    connectionId,        \* the counter of connections
    task,                \* each connection's task
    installed,           \* history: the connections that were in the slot
    pc, result,          \* each caller: where it is and what it returned
    retryNo,             \* its retry_no
    conn,                \* the connection its request was last sent on
    stream, age,         \* the h2 stream of that request, and the time since it was sent
    wired                \* history: times the request was handed to the wire, up to 2

slotVars == <<state, currentConnectionId, isAlive, reported>>
roundVars == <<consecutiveTimeouts, sinceCounted, sinceProof>>
connVars == <<connectionId, task, installed>>
callerVars == <<pc, result, retryNo, conn>>
streamVars == <<stream, age, wired>>
vars == <<slotVars, roundVars, connVars, callerVars, streamVars>>

Conns == 1 .. MaxConnections

ShortTimeout == 1
Timeout(r) == IF r \in Patient THEN 2 ELSE ShortTimeout
Horizon == 2

Errors == {"Disconnected", "Disposed", "RequestTimeout", "CanNotExecuteRequest",
           "CanNotConnectToRemoteHost"}

TypeOK ==
    /\ state \in {"Disconnected", "Connected", "Disposed"}
    /\ currentConnectionId \in Conns \cup {0}
    /\ isAlive \in BOOLEAN
    /\ reported \in Int
    /\ consecutiveTimeouts \in 0 .. MaxConsecutiveTimeouts
    /\ sinceCounted \in 0 .. Horizon
    /\ sinceProof \in 0 .. Horizon
    /\ connectionId \in 0 .. MaxConnections
    /\ task \in [Conns -> {"none", "running", "ended", "done"}]
    /\ installed \subseteq Conns
    /\ pc \in [Requests -> {"idle", "sending", "waiting", "connecting", "dialing", "storing", "done"}]
    /\ result \in [Requests -> Errors \cup {"none", "Response", "abandoned"}]
    /\ retryNo \in [Requests -> 0 .. MaxRetryNo + 1]
    /\ conn \in [Requests -> Conns \cup {0}]
    /\ stream \in [Requests -> {"none", "queued", "dispatched", "answered", "canceled", "broken"}]
    /\ age \in [Requests -> 0 .. Horizon]
    /\ wired \in [Requests -> 0 .. 2]

Init ==
    /\ state = "Disconnected"
    /\ currentConnectionId = 0
    /\ isAlive = FALSE
    /\ reported = 0
    /\ consecutiveTimeouts = 0
    /\ sinceCounted = 0
    /\ sinceProof = 0
    /\ connectionId = 0
    /\ task = [c \in Conns |-> "none"]
    /\ installed = {}
    /\ pc = [r \in Requests |-> "idle"]
    /\ result = [r \in Requests |-> "none"]
    /\ retryNo = [r \in Requests |-> 0]
    /\ conn = [r \in Requests |-> 0]
    /\ stream = [r \in Requests |-> "none"]
    /\ age = [r \in Requests |-> 0]
    /\ wired = [r \in Requests |-> 0]
-----------------------------------------------------------------------------
(* The slot *)

Holds(c) == state = "Connected" /\ currentConnectionId = c

\* The connection is reported lost and its SendRequest dropped.
LoseSlot ==
    /\ state' = "Disconnected"
    /\ isAlive' = FALSE
    /\ reported' = reported - 1
    /\ UNCHANGED currentConnectionId

\* Mutant: whatever connection is in the slot is dropped.
DisconnectAny(c) == IF state = "Connected" THEN LoseSlot ELSE UNCHANGED slotVars

\* disconnect(connection_id): only that connection is dropped.
Disconnect(c) == IF Holds(c) THEN LoseSlot ELSE UNCHANGED slotVars

\* Mutant: every timeout counts, not only those of a new round.
IsNewRoundAlways(r) == TRUE

\* Timeouts that come together are one round, paced by the caller's own request_timeout.
IsNewRound(r) == consecutiveTimeouts = 0 \/ sinceCounted >= Timeout(r)

\* A stale timeout of a connection that is gone never counts.
CountsAgainstSlot(r) == Holds(conn[r])

\* register_request_timeout, for a timeout of r on the connection it was sent on.
RegisterRequestTimeout(r) ==
    IF CountsAgainstSlot(r) /\ IsNewRound(r)
    THEN /\ sinceCounted' = 0
         /\ consecutiveTimeouts' = consecutiveTimeouts + 1
         /\ IF consecutiveTimeouts + 1 < MaxConsecutiveTimeouts THEN UNCHANGED slotVars ELSE LoseSlot
         /\ UNCHANGED sinceProof
    ELSE UNCHANGED <<slotVars, roundVars>>

\* force_disconnect, a public operation of the inner client that nothing in the crate calls.
ForceDisconnect ==
    /\ state = "Connected"
    /\ LoseSlot
    /\ UNCHANGED <<roundVars, connVars, callerVars, streamVars>>

\* dispose reports the connection it drops.
LastReport == IF state = "Connected" THEN reported - 1 ELSE reported

\* dispose, spawned when the client is dropped; the inner client offers it to everyone.
Dispose ==
    /\ state # "Disposed"
    /\ state' = "Disposed"
    /\ isAlive' = FALSE
    /\ reported' = LastReport
    /\ UNCHANGED <<currentConnectionId, roundVars, connVars, callerVars, streamVars>>
-----------------------------------------------------------------------------
(* Callers: do_request, send_payload and do_extended_connect_inner *)

Goto(r, at) == pc' = [pc EXCEPT ![r] = at] /\ UNCHANGED result

Finish(r, res) ==
    /\ pc' = [pc EXCEPT ![r] = "done"]
    /\ result' = [result EXCEPT ![r] = res]

\* Mutant: one retry too many.
RetriesLeftOffByOne(r) == retryNo[r] <= MaxRetryNo + 1

RetriesLeft(r) == retryNo[r] <= MaxRetryNo

\* A failed do_request reconnects and sends again, up to MaxRetryNo + 1 times.
Retry(r, err) ==
    IF RetriesLeft(r)
    THEN Goto(r, "connecting") /\ retryNo' = [retryNo EXCEPT ![r] = @ + 1]
    ELSE Finish(r, err) /\ UNCHANGED retryNo

CloseStream(r) ==
    /\ stream' = [stream EXCEPT ![r] = "none"]
    /\ age' = [age EXCEPT ![r] = 0]
    /\ UNCHANGED wired

Start(r) ==
    /\ pc[r] = "idle"
    /\ Goto(r, IF r \in ExtendedConnect THEN "connecting" ELSE "sending")
    /\ UNCHANGED <<slotVars, roundVars, connVars, retryNo, conn, streamVars>>

\* The request is given to the SendRequest in the slot, which cancels it if its connection ended.
Send(r) ==
    /\ pc[r] = "sending"
    /\ state = "Connected"
    /\ Goto(r, "waiting")
    /\ conn' = [conn EXCEPT ![r] = currentConnectionId]
    /\ stream' = [stream EXCEPT ![r] =
                    IF task[currentConnectionId] = "running" THEN "queued" ELSE "canceled"]
    /\ UNCHANGED <<slotVars, roundVars, connVars, retryNo, age, wired>>

\* An empty slot makes do_request connect; do_extended_connect has just done so and gives up.
SendRejected(r) ==
    /\ pc[r] = "sending"
    /\ \/ /\ state = "Disposed"
          /\ Finish(r, "Disposed") /\ UNCHANGED retryNo
       \/ /\ state = "Disconnected"
          /\ IF r \in ExtendedConnect
             THEN Finish(r, "Disconnected") /\ UNCHANGED retryNo
             ELSE Retry(r, "Disconnected")
    /\ UNCHANGED <<slotVars, roundVars, connVars, conn, streamVars>>

\* Any response, on whatever connection, resets the count of timeouts.  The code does it without
\* the lock, which no order inside register_request_timeout can tell from before or after it.
TakeResponse(r) ==
    /\ pc[r] = "waiting"
    /\ stream[r] = "answered"
    /\ consecutiveTimeouts' = 0
    /\ sinceProof' = 0
    /\ Finish(r, "Response")
    /\ CloseStream(r)
    /\ UNCHANGED <<slotVars, sinceCounted, connVars, retryNo, conn>>

\* Mutant: what failed is sent again, whatever the error and the method.
MayReplayAll(r) == r \notin ExtendedConnect

\* A canceled request never reached the wire; any other one is replayed only if idempotent.
MayReplay(r) ==
    /\ r \notin ExtendedConnect
    /\ stream[r] = "canceled" \/ r \in Idempotent

\* Mutant: a canceled request leaves the connection in the slot.
DropFailedConnUnlessCanceled(r) ==
    IF stream[r] = "canceled" THEN UNCHANGED slotVars ELSE Disconnect(conn[r])

\* An error of hyper drops the connection it came from before anything else.
DropFailedConn(r) == Disconnect(conn[r])

StreamFails(r) ==
    /\ pc[r] = "waiting"
    /\ stream[r] \in {"canceled", "broken"}
    /\ DropFailedConn(r)
    /\ IF MayReplay(r)
       THEN Retry(r, "CanNotExecuteRequest")
       ELSE Finish(r, "CanNotExecuteRequest") /\ UNCHANGED retryNo
    /\ CloseStream(r)
    /\ UNCHANGED <<roundVars, connVars, conn>>

\* Mutant: the timer does not cover a request that waits for a stream.
CanTimeOutOnWire(r) == stream[r] = "dispatched" /\ age[r] >= Timeout(r)

\* A timer only wins over a stream that has not ended.
CanTimeOut(r) == stream[r] \in {"queued", "dispatched"} /\ age[r] >= Timeout(r)

\* Mutant: a request that timed out is sent again.
RequestTimeoutReplayed(r) ==
    /\ pc[r] = "waiting"
    /\ CanTimeOut(r)
    /\ RegisterRequestTimeout(r)
    /\ Retry(r, "RequestTimeout")
    /\ CloseStream(r)
    /\ UNCHANGED <<connVars, conn>>

\* request_timeout: the stream is reset and nothing is replayed.
RequestTimeout(r) ==
    /\ pc[r] = "waiting"
    /\ CanTimeOut(r)
    /\ RegisterRequestTimeout(r)
    /\ Finish(r, "RequestTimeout")
    /\ CloseStream(r)
    /\ UNCHANGED <<connVars, retryNo, conn>>

\* A caller drops its future at any await; connect_lock and a fresh SendRequest go with it.
Abandon(r) ==
    /\ pc[r] \notin {"idle", "done"}
    /\ Finish(r, "abandoned")
    /\ CloseStream(r)
    /\ UNCHANGED <<slotVars, roundVars, connVars, retryNo, conn>>
-----------------------------------------------------------------------------
(* connect *)

Dialing(r) == pc[r] \in {"dialing", "storing"}

\* Mutant: the slot is not looked at again once the lock is held.
MustDialAlways == state # "Disposed"

MustDial == state = "Disconnected"

\* connect_lock is free, and the caller finds out whether it still has to dial.
Connect(r) ==
    /\ pc[r] = "connecting"
    /\ \A q \in Requests : ~Dialing(q)
    /\ \/ /\ MustDial
          /\ Goto(r, "dialing")
       \/ /\ state = "Connected" /\ ~MustDial
          /\ Goto(r, "sending")
       \/ /\ state = "Disposed"
          /\ Finish(r, "Disposed")
    /\ UNCHANGED <<slotVars, roundVars, connVars, retryNo, conn, streamVars>>

\* The h2 handshake is done and the task of the connection is spawned.  The code takes the id
\* before it dials; ids of dials that fail are left out.
Handshake(r) ==
    /\ pc[r] = "dialing"
    /\ connectionId < MaxConnections
    /\ connectionId' = connectionId + 1
    /\ task' = [task EXCEPT ![connectionId'] = "running"]
    /\ Goto(r, "storing")
    /\ UNCHANGED <<slotVars, roundVars, installed, retryNo, conn, streamVars>>

\* The connector, the handshake or sender.ready() fails, or connect_timeout expires.
DialFails(r) ==
    /\ Dialing(r)
    /\ Finish(r, "CanNotConnectToRemoteHost")
    /\ UNCHANGED <<slotVars, roundVars, connVars, retryNo, conn, streamVars>>

\* Mutant: a client disposed during the dial is connected again.
CanStoreAlways == TRUE

CanStore == state # "Disposed"

\* connect stores the connection, unless the client was disposed meanwhile.
Store(r) ==
    /\ pc[r] = "storing"
    /\ IF CanStore
       THEN /\ state' = "Connected"
            /\ currentConnectionId' = connectionId
            /\ isAlive' = TRUE
            /\ reported' = reported + 1
            /\ consecutiveTimeouts' = 0
            /\ sinceProof' = 0
            /\ installed' = installed \cup {connectionId}
            /\ Goto(r, "sending")
       ELSE /\ Finish(r, "Disposed")
            /\ UNCHANGED <<slotVars, consecutiveTimeouts, sinceProof, installed>>
    /\ UNCHANGED <<sinceCounted, connectionId, task, retryNo, conn, streamVars>>
-----------------------------------------------------------------------------
(* hyper, and the task that wrap_http2_endpoint spawns *)

Live(r) == pc[r] = "waiting" /\ stream[r] \in {"queued", "dispatched"}

SetStream(r, to) == stream' = [stream EXCEPT ![r] = to] /\ UNCHANGED age

Dispatch(r) ==
    /\ Live(r) /\ stream[r] = "queued"
    /\ SetStream(r, "dispatched")
    /\ wired' = [wired EXCEPT ![r] = IF @ < 2 THEN @ + 1 ELSE @]
    /\ UNCHANGED <<slotVars, roundVars, connVars, callerVars>>

\* The server answers, or resets this one stream.
StreamEnds(r) ==
    /\ Live(r) /\ stream[r] = "dispatched"
    /\ \E how \in {"answered", "broken"} : SetStream(r, how)
    /\ UNCHANGED <<slotVars, roundVars, connVars, callerVars, wired>>

\* The peer, the network or keep-alive ends a connection: what is not on the wire is canceled.
ConnEnds(c) ==
    /\ task[c] = "running"
    /\ task' = [task EXCEPT ![c] = "ended"]
    /\ stream' = [r \in Requests |->
                    IF ~Live(r) \/ conn[r] # c THEN stream[r]
                    ELSE IF stream[r] = "queued" THEN "canceled" ELSE "broken"]
    /\ UNCHANGED <<slotVars, roundVars, connectionId, installed, callerVars, age, wired>>

\* The task of a connection that ended: conn.await is over and disconnect(connection_id) runs.
TaskDisconnect(c) ==
    /\ task[c] = "ended"
    /\ task' = [task EXCEPT ![c] = "done"]
    /\ Disconnect(c)
    /\ UNCHANGED <<roundVars, connectionId, installed, callerVars, streamVars>>

Older(t, limit) == IF t < limit THEN t + 1 ELSE t

\* Time passes, for what the client measures: an open stream, the current round of timeouts
\* (last_counted_timeout_micros is not read while the count is 0).
Tick ==
    /\ sinceCounted' = IF consecutiveTimeouts > 0 THEN Older(sinceCounted, Horizon) ELSE 0
    /\ sinceProof' = IF state = "Connected" THEN Older(sinceProof, Horizon) ELSE 0
    /\ age' = [r \in Requests |-> IF Live(r) THEN Older(age[r], Timeout(r)) ELSE age[r]]
    /\ sinceCounted' # sinceCounted \/ sinceProof' # sinceProof \/ age' # age
    /\ UNCHANGED <<slotVars, consecutiveTimeouts, connVars, callerVars, stream, wired>>
-----------------------------------------------------------------------------
(* Specification *)

CallerStep(r) ==
    \/ Send(r)
    \/ SendRejected(r)
    \/ TakeResponse(r)
    \/ StreamFails(r)
    \/ RequestTimeout(r)
    \/ Connect(r)
    \/ Handshake(r)
    \/ DialFails(r)
    \/ Store(r)

\* Every caller has returned and every task is over.
Terminated ==
    /\ state = "Disposed"
    /\ \A r \in Requests : pc[r] = "done"
    /\ \A c \in Conns : task[c] \in {"none", "done"}
    /\ UNCHANGED vars

Next ==
    \/ \E r \in Requests :
         Start(r) \/ CallerStep(r) \/ Abandon(r) \/ Dispatch(r) \/ StreamEnds(r)
    \/ \E c \in Conns : ConnEnds(c) \/ TaskDisconnect(c)
    \/ ForceDisconnect
    \/ Dispose
    \/ Tick
    \/ Terminated

Spec == Init /\ [][Next]_vars

\* tokio schedules callers that have begun, and timers fire.  Nothing is assumed of hyper, of the
\* server or of the network.
Fairness ==
    /\ \A r \in Requests : WF_vars(CallerStep(r))
    /\ WF_vars(Tick)

FairSpec == Spec /\ Fairness
-----------------------------------------------------------------------------
(* Properties *)

\* A request that is not idempotent is handed to the wire at most once, whatever fails, ends,
\* times out or reconnects (my_http2_client.rs:117-119 and 148-149).
NonIdempotentAtMostOnce == \A r \in Requests \ Idempotent : wired[r] <= 1

\* A caller never sends again on the connection that failed it, nor on an older one: by the time
\* it retries, its connection has left the slot for good.
RetriesUseFreshConnections ==
    [][\A r \in Requests :
         pc[r] = "sending" /\ pc'[r] = "waiting" => conn'[r] > conn[r]]_vars

\* An error that says a request was never sent is true, unless it was a replay: the caller may
\* safely repeat it elsewhere (my_http2_client.rs:108-109).
UnsentErrorsAreTrue ==
    \A r \in Requests \ Idempotent :
      result[r] \in {"Disconnected", "Disposed", "CanNotConnectToRemoteHost"} => wired[r] = 0

\* The slot loses a connection only through an operation on it, a failed stream of it, the end
\* of its task or its third round of timeouts: no late task of another connection takes it.
SlotIsLostForCause ==
    [][state = "Connected" /\ state' = "Disconnected" =>
         LET c == currentConnectionId IN
         \/ ForceDisconnect
         \/ task[c] = "ended" /\ task'[c] = "done"
         \/ \E r \in Requests :
              /\ pc[r] = "waiting" /\ pc'[r] # "waiting" /\ conn[r] = c
              /\ \/ stream[r] \in {"canceled", "broken"}
                 \/ consecutiveTimeouts = MaxConsecutiveTimeouts - 1]_vars

\* Timeouts cost a connection only after that many full timeouts, less one, without a response
\* since it was stored: a burst of parallel timeouts never does
\* (my_http2_client_inner.rs:131-139).
TimeoutDropIsEarned ==
    [][state = "Connected" /\ state' = "Disconnected" /\ consecutiveTimeouts' > consecutiveTimeouts
         => sinceProof >= (MaxConsecutiveTimeouts - 1) * ShortTimeout]_vars

\* is_alive and the balance of the metrics tell whether the slot is connected.
ReportsAgree ==
    /\ isAlive <=> state = "Connected"
    /\ reported = IF state = "Connected" THEN 1 ELSE 0

\* The slot behind the state mutex keeps the promise of ConnectionSlot.
Slot == INSTANCE ConnectionSlot WITH
            Connections <- Conns, status <- state, holder <- currentConnectionId, used <- installed

SlotSpec == Slot!SlotSpec

\* Every call returns, even if the server never answers and every dial hangs.
EveryCallReturns == \A r \in Requests : pc[r] # "idle" ~> pc[r] = "done"
=============================================================================
