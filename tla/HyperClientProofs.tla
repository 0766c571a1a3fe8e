------------------------- MODULE HyperClientProofs -------------------------
(***************************************************************************)
(* Theorems about HyperClient, for every set of callers, whichever of them *)
(* are idempotent or may be upgraded, and any number of connections.       *)
(***************************************************************************)
EXTENDS HyperClient, TLAPS

\* A connection in the slot has an id, and whoever dials has taken one.
IdsExist ==
    /\ state = "Connected" => currentConnectionId \in Conns
    /\ \A r \in Requests : Dialing(r) => connectionId \in Conns

TypeInv == TypeOK /\ IdsExist

LEMMA InitTypeInv == Init => TypeInv
<1> SUFFICES ASSUME Init PROVE TypeInv
  OBVIOUS
<1>1. 0 \in 0 .. MaxConnections /\ reported \in Int
  BY BoundsAssumption DEF Init
<1>2. /\ retryNo \in [Requests -> 0 .. MaxRetryNo + 1]
      /\ wired \in [Requests -> 0 .. 2]
  BY BoundsAssumption DEF Init
<1>3. TypeOK
  BY <1>1, <1>2 DEF Init, TypeOK
<1>4. IdsExist
  BY DEF Init, IdsExist, Dialing
<1> QED BY <1>3, <1>4 DEF TypeInv

\* A disconnect by id keeps what is in the slot or empties it.
LEMMA DisconnectTypeOK ==
    ASSUME TypeInv, NEW c, Disconnect(c)
    PROVE  /\ state' \in {"Disconnected", state}
           /\ currentConnectionId' = currentConnectionId
           /\ reported' \in Int
<1>1. reported \in Int
  BY DEF TypeInv, TypeOK
<1>2. reported - 1 \in Int
  BY <1>1
<1> QED BY <1>1, <1>2 DEF Disconnect, LoseSlot, slotVars

LEMMA CallerTypeInv ==
    ASSUME TypeInv, NEW r \in Requests, Start(r) \/ CallerStep(r) \/ Abandon(r)
    PROVE  TypeInv'
<1> USE BoundsAssumption DEF TypeInv, TypeOK, IdsExist, Dialing, Unsent, Errors, slotVars, connVars,
        callerVars, streamVars, Goto, Finish, CloseStream
<1>1. CASE Start(r)  BY <1>1 DEF Start
<1>2. CASE Send(r)
  <2>1. PICK how \in Accepted(r, currentConnectionId) : stream' = [stream EXCEPT ![r] = how]
    BY <1>2 DEF Send
  <2>2. how \in {"queued", "canceled"}
    BY <2>1 DEF Accepted
  <2> QED BY <1>2, <2>1, <2>2 DEF Send
<1>3. CASE SendRejected(r)  BY <1>3 DEF SendRejected, Retry, RetriesLeft
<1>4. CASE TakeResponse(r)  BY <1>4 DEF TakeResponse
<1>5. CASE Upgrade(r)  BY <1>5 DEF Upgrade
<1>6. CASE StreamFails(r)
  <2>1. /\ state' \in {"Disconnected", state}
        /\ currentConnectionId' = currentConnectionId
        /\ reported' \in Int
    BY <1>6, DisconnectTypeOK DEF StreamFails
  <2> QED BY <1>6, <2>1 DEF StreamFails, Retry, RetriesLeft
<1>7. CASE RequestTimeout(r)
  <2>1. /\ state' \in {"Disconnected", state}
        /\ currentConnectionId' = currentConnectionId
        /\ reported' \in Int
    BY <1>7, DisconnectTypeOK DEF RequestTimeout, DropTimedOutConn
  <2>2. task' \in [Conns -> {"none", "running", "closing", "upgraded", "ended", "released", "done"}]
    BY <1>7 DEF RequestTimeout, LeaveWire
  <2>3. /\ pc' \in [Requests -> {"idle", "sending", "waiting", "upgrading", "connecting", "dialing",
                                 "storing", "done"}]
        /\ result' \in [Requests -> Errors \cup {"none", "Response", "WebSocketUpgrade", "abandoned"}]
        /\ retryNo' \in [Requests -> 0 .. MaxRetryNo + 1]
        /\ pc'[r] \in {"connecting", "done"}
        /\ \A q \in Requests \ {r} : pc'[q] = pc[q]
    BY <1>7 DEF RequestTimeout, Retry, RetriesLeft
  <2> QED BY <1>7, <2>1, <2>2, <2>3 DEF RequestTimeout
<1>8. CASE Connect(r)
  <2>1. CASE MustDial /\ connectionId < MaxConnections
    <3>1. connectionId + 1 \in Conns /\ connectionId + 1 \in 0 .. MaxConnections
      BY <2>1 DEF Conns
    <3>2. connectionId' \in Conns /\ connectionId' \in 0 .. MaxConnections
      BY <1>8, <2>1, <3>1 DEF Connect, MustDial
    <3> QED BY <1>8, <3>2 DEF Connect
  <2>2. CASE ~(MustDial /\ connectionId < MaxConnections)
    BY <1>8, <2>2 DEF Connect
  <2> QED BY <2>1, <2>2
<1>9. CASE Handshake(r)  BY <1>9 DEF Handshake
<1>10. CASE DialFails(r)  BY <1>10 DEF DialFails
<1>11. CASE Store(r)
  <2>1. reported + 1 \in Int /\ connectionId \in Conns
    BY <1>11 DEF Store
  <2>2. CASE CanStore
    <3>1. /\ state' = "Connected" /\ currentConnectionId' = connectionId
          /\ reported' = reported + 1
          /\ installed' = installed \cup {connectionId}
      BY ONLY <1>11, <2>2 DEF Store
    <3>2. installed' \subseteq Conns
      BY <2>1, <3>1
    <3> QED BY <1>11, <2>1, <3>1, <3>2 DEF Store
  <2>3. CASE ~CanStore
    BY <1>11, <2>3 DEF Store
  <2> QED BY <2>2, <2>3
<1>12. CASE Abandon(r)  BY <1>12 DEF Abandon, LeaveWire
<1> QED BY <1>1, <1>2, <1>3, <1>4, <1>5, <1>6, <1>7, <1>8, <1>9, <1>10, <1>11, <1>12 DEF CallerStep

\* What hyper does with a request of r.
HyperStep(r) == Dispatch(r) \/ Answer(r) \/ Switch(r)

ConnStep(c) == ConnEnds(c) \/ SocketCloses(c) \/ TaskDisconnect(c)

\* Every step is one of a caller, of hyper, of a connection or of an owner of the client.
LEMMA StepCases ==
    ASSUME [Next]_vars
    PROVE  \/ \E r \in Requests : Start(r) \/ CallerStep(r) \/ Abandon(r)
           \/ \E r \in Requests : HyperStep(r)
           \/ \E c \in Conns : ConnStep(c)
           \/ \E c \in 0 .. MaxConnections : RunDisconnect(c)
           \/ AskDisconnect \/ ForceDisconnect \/ Dispose \/ UNCHANGED vars
BY DEF Next, Terminated, HyperStep, ConnStep

LEMMA NextTypeInv == TypeInv /\ [Next]_vars => TypeInv'
<1> SUFFICES ASSUME TypeInv, [Next]_vars PROVE TypeInv'
  OBVIOUS
<1> USE BoundsAssumption DEF TypeInv, TypeOK, IdsExist, Dialing, slotVars, connVars, callerVars, streamVars
<1>1. ASSUME NEW r \in Requests, Start(r) \/ CallerStep(r) \/ Abandon(r)  PROVE TypeInv'
  BY ONLY TypeInv, <1>1, CallerTypeInv
<1>2. ASSUME NEW c  PROVE  Ending(c) \in [Requests -> {"none", "queued", "dispatched", "answered",
                                                       "switched", "canceled", "broken"}]
  BY DEF Ending
<1>3. ASSUME NEW r \in Requests, HyperStep(r)  PROVE TypeInv'
  <2>1. CASE Dispatch(r)
    <3>1. wired' \in [Requests -> 0 .. 2]
      BY <2>1 DEF Dispatch
    <3> QED BY <2>1, <3>1 DEF Dispatch, SetStream
  <2>2. CASE Answer(r)  BY <2>2 DEF Answer, SetStream
  <2>3. CASE Switch(r)  BY <2>3, <1>2 DEF Switch
  <2> QED BY <1>3, <2>1, <2>2, <2>3 DEF HyperStep
<1>4. ASSUME NEW c \in Conns, ConnStep(c)  PROVE TypeInv'
  <2>1. CASE ConnEnds(c)  BY <2>1, <1>2 DEF ConnEnds
  <2>2. CASE SocketCloses(c)  BY <2>2 DEF SocketCloses
  <2>3. CASE TaskDisconnect(c)  BY <2>3, DisconnectTypeOK DEF TaskDisconnect
  <2> QED BY <1>4, <2>1, <2>2, <2>3 DEF ConnStep
<1>5. ASSUME NEW c \in 0 .. MaxConnections, RunDisconnect(c)  PROVE TypeInv'
  BY <1>5, DisconnectTypeOK DEF RunDisconnect
<1>6. CASE AskDisconnect  BY <1>6 DEF AskDisconnect
<1>7. CASE ForceDisconnect
  <2>1. reported - 1 \in Int
    OBVIOUS
  <2> QED BY <1>7, <2>1 DEF ForceDisconnect, LoseSlot
<1>8. CASE Dispose
  <2>1. reported \in Int
    OBVIOUS
  <2>2. LastReport \in Int
    BY ONLY <2>1 DEF LastReport
  <2> QED BY <1>8, <2>2 DEF Dispose
<1>9. CASE UNCHANGED vars  BY <1>9 DEF vars
<1> QED BY ONLY [Next]_vars, StepCases, <1>1, <1>3, <1>4, <1>5, <1>6, <1>7, <1>8, <1>9

LEMMA SpecTypeInv == Spec => []TypeInv
BY InitTypeInv, NextTypeInv, PTL DEF Spec

\* Every variable of the hyper HTTP/1.1 client has its type; in particular the retries of a call
\* stay within their bound (my_http_hyper_client.rs:117, 128 and 137).
THEOREM TypeCorrect == Spec => []TypeOK
<1>1. TypeInv => TypeOK
  BY DEF TypeInv
<1> QED BY SpecTypeInv, <1>1, PTL
-----------------------------------------------------------------------------
(* A request that is not idempotent runs at most once *)

\* Such a request that was handed to the wire still waits for that response, or its caller has
\* returned with a result that does not deny it.
WiredIsFinal ==
    \A r \in Requests \ Idempotent : wired[r] > 0 =>
      /\ wired[r] = 1
      /\ \/ pc[r] = "waiting" /\ stream[r] \in {"dispatched", "answered", "broken"}
         \/ pc[r] = "done" /\ result[r] \notin {"Disconnected", "Disposed", "CanNotConnectToRemoteHost"}

ResultMeansDone == \A r \in Requests : result[r] # "none" => pc[r] = "done"

OnceInv == TypeInv /\ WiredIsFinal /\ ResultMeansDone

LEMMA InitOnceInv == Init => OnceInv
BY InitTypeInv DEF Init, OnceInv, WiredIsFinal, ResultMeansDone

LEMMA CallerOnceInv ==
    ASSUME OnceInv, TypeInv', NEW r \in Requests, Start(r) \/ CallerStep(r) \/ Abandon(r)
    PROVE  OnceInv'
<1> USE DEF OnceInv, TypeInv, TypeOK, WiredIsFinal, ResultMeansDone, callerVars, streamVars, Goto,
        Finish, CloseStream
<1>1. CASE Start(r)  BY <1>1 DEF Start
<1>2. CASE Send(r)  BY <1>2 DEF Send
<1>3. CASE SendRejected(r)  BY <1>3 DEF SendRejected, Retry
<1>4. CASE TakeResponse(r)  BY <1>4 DEF TakeResponse
<1>5. CASE Upgrade(r)  BY <1>5 DEF Upgrade
<1>6. CASE StreamFails(r)  BY <1>6 DEF StreamFails, Retry, MayReplay
<1>7. CASE RequestTimeout(r)  BY <1>7 DEF RequestTimeout, Retry, MayReplayTimeout
<1>8. CASE Connect(r)  BY <1>8 DEF Connect
<1>9. CASE Handshake(r)  BY <1>9 DEF Handshake
<1>10. CASE DialFails(r)  BY <1>10 DEF DialFails, Dialing
<1>11. CASE Store(r)  BY <1>11 DEF Store
<1>12. CASE Abandon(r)  BY <1>12 DEF Abandon
<1> QED BY <1>1, <1>2, <1>3, <1>4, <1>5, <1>6, <1>7, <1>8, <1>9, <1>10, <1>11, <1>12 DEF CallerStep

LEMMA NextOnceInv == OnceInv /\ [Next]_vars => OnceInv'
<1> SUFFICES ASSUME OnceInv, [Next]_vars PROVE OnceInv'
  OBVIOUS
<1>0. TypeInv'
  BY NextTypeInv DEF OnceInv
<1> USE <1>0 DEF OnceInv, TypeInv, TypeOK, WiredIsFinal, ResultMeansDone, callerVars, streamVars
<1>1. ASSUME NEW r \in Requests, Start(r) \/ CallerStep(r) \/ Abandon(r)  PROVE OnceInv'
  BY <1>1, CallerOnceInv
<1>2. ASSUME NEW r \in Requests, Dispatch(r)  PROVE OnceInv'
  <2>1. r \notin Idempotent => wired[r] = 0
    BY <1>2 DEF Dispatch, Live
  <2>2. r \notin Idempotent => wired'[r] = 1
    BY <1>2, <2>1 DEF Dispatch
  <2> QED BY <1>2, <2>2 DEF Dispatch, SetStream, Live
<1>3. ASSUME NEW r \in Requests, Answer(r)  PROVE OnceInv'
  BY <1>3 DEF Answer, SetStream
<1>4. ASSUME NEW r \in Requests, Switch(r)  PROVE OnceInv'
  <2>1. r \in Idempotent
    BY <1>4, RequestsAssumption DEF Switch
  <2>2. stream' = [Ending(conn[r]) EXCEPT ![r] = "switched"] /\ UNCHANGED <<pc, result, wired>>
    BY <1>4 DEF Switch
  <2> QED BY <2>1, <2>2 DEF Ending, Live
<1>5. ASSUME NEW c \in Conns, ConnStep(c)  PROVE OnceInv'
  BY <1>5 DEF ConnStep, ConnEnds, SocketCloses, TaskDisconnect, Ending, Live
<1>6. ASSUME NEW c \in 0 .. MaxConnections, RunDisconnect(c)  PROVE OnceInv'
  BY <1>6 DEF RunDisconnect
<1>7. CASE AskDisconnect \/ ForceDisconnect \/ Dispose \/ UNCHANGED vars
  BY <1>7 DEF AskDisconnect, ForceDisconnect, Dispose, vars
<1> QED BY StepCases, <1>1, <1>2, <1>3, <1>4, <1>5, <1>6, <1>7 DEF HyperStep

LEMMA SpecOnceInv == Spec => []OnceInv
BY InitOnceInv, NextOnceInv, PTL DEF Spec

\* No retry, replayed timeout, reconnect or failure hands a request that is not idempotent to
\* the wire twice.
THEOREM NonIdempotentRunsAtMostOnce == Spec => []NonIdempotentAtMostOnce
<1>1. OnceInv => NonIdempotentAtMostOnce
  <2> SUFFICES ASSUME OnceInv, NEW r \in Requests \ Idempotent PROVE wired[r] <= 1
    BY DEF NonIdempotentAtMostOnce
  <2>1. wired[r] \in 0 .. 2
    BY DEF OnceInv, TypeInv, TypeOK
  <2> QED BY <2>1 DEF OnceInv, WiredIsFinal
<1> QED BY SpecOnceInv, <1>1, PTL

\* A caller told that its request was never sent may rely on it.
THEOREM UnsentErrorsAreAlwaysTrue == Spec => []UnsentErrorsAreTrue
<1>1. OnceInv => UnsentErrorsAreTrue
  BY DEF OnceInv, WiredIsFinal, ResultMeansDone, TypeInv, TypeOK, UnsentErrorsAreTrue, Unsent
<1> QED BY SpecOnceInv, <1>1, PTL
-----------------------------------------------------------------------------
(* One dialer, fresh numbers, and the connection of the slot *)

\* connect_lock has one holder, who found the slot empty.
OneDialer ==
    \A q \in Requests : Dialing(q) =>
      /\ state # "Connected"
      /\ \A r \in Requests : Dialing(r) => q = r

\* Connections are numbered in the order of their dials.
IdsAreIssued ==
    /\ currentConnectionId <= connectionId
    /\ \A r \in Requests : conn[r] <= connectionId
    /\ \A c \in installed : c <= connectionId

\* The connection being dialed was never in the slot nor used by anyone.
DialIsFresh ==
    \A q \in Requests : Dialing(q) =>
      /\ connectionId \notin installed
      /\ currentConnectionId < connectionId
      /\ \A r \in Requests : conn[r] < connectionId

\* A caller that is not waiting used only connections older than that in the slot: what failed
\* it has left.
FailedIsGone ==
    state = "Connected" => \A r \in Requests :
      pc[r] \notin {"waiting", "upgrading", "done"} => conn[r] < currentConnectionId

FreshInv ==
    /\ TypeInv
    /\ OneDialer
    /\ IdsAreIssued
    /\ DialIsFresh
    /\ FailedIsGone
    /\ CounterIsTheSlots
    /\ ReportsAgree

LEMMA IdsAreNaturals ==
    ASSUME TypeInv
    PROVE  /\ connectionId \in Nat /\ currentConnectionId \in Nat
           /\ \A r \in Requests : conn[r] \in Nat
           /\ Conns \subseteq Nat \ {0}
BY BoundsAssumption DEF TypeInv, TypeOK, Conns

LEMMA InitFreshInv == Init => FreshInv
BY InitTypeInv DEF Init, FreshInv, OneDialer, IdsAreIssued, DialIsFresh, FailedIsGone, Dialing,
                   CounterIsTheSlots, ReportsAgree

\* A disconnect keeps the connection in the slot or empties it, and if it was of that
\* connection empties it; the metrics follow.
LEMMA DisconnectCases ==
    ASSUME TypeInv, ReportsAgree, NEW c, Disconnect(c)
    PROVE  /\ currentConnectionId' = currentConnectionId
           /\ state' = "Connected" => state = "Connected" /\ currentConnectionId # c
           /\ ReportsAgree'
BY DEF Disconnect, Holds, LoseSlot, slotVars, ReportsAgree, TypeInv, TypeOK

\* A step that numbers no connection and fills no slot keeps the invariant, if whoever stops
\* waiting finds its connection gone.
LEMMA QuietStepFreshInv ==
    ASSUME FreshInv, TypeInv', ReportsAgree', UNCHANGED <<connectionId, installed, conn>>,
           currentConnectionId' = currentConnectionId,
           state' = "Connected" => state = "Connected",
           \A q \in Requests : Dialing(q)' => Dialing(q),
           \A q \in Requests :
              \/ pc'[q] \in {"waiting", "upgrading", "done"}
              \/ pc[q] \notin {"waiting", "upgrading", "done"}
              \/ state' = "Connected" => conn[q] # currentConnectionId
    PROVE  FreshInv'
<1>1. /\ connectionId \in Nat /\ currentConnectionId \in Nat
      /\ \A q \in Requests : conn[q] \in Nat
  BY IdsAreNaturals DEF FreshInv
<1>2. OneDialer' /\ IdsAreIssued' /\ DialIsFresh' /\ CounterIsTheSlots'
  BY DEF FreshInv, OneDialer, IdsAreIssued, DialIsFresh, CounterIsTheSlots
<1>3. FailedIsGone'
  <2> SUFFICES ASSUME state' = "Connected", NEW q \in Requests,
                      pc'[q] \notin {"waiting", "upgrading", "done"}
               PROVE  conn[q] < currentConnectionId
    BY DEF FailedIsGone
  <2>1. state = "Connected" /\ currentConnectionId = connectionId /\ conn[q] <= connectionId
    BY DEF FreshInv, CounterIsTheSlots, IdsAreIssued
  <2> QED BY <1>1, <2>1 DEF FreshInv, FailedIsGone
<1> QED BY <1>2, <1>3 DEF FreshInv

LEMMA CallerFreshInv ==
    ASSUME FreshInv, TypeInv', NEW r \in Requests, Start(r) \/ CallerStep(r) \/ Abandon(r)
    PROVE  FreshInv'
<1>0. /\ connectionId \in Nat /\ currentConnectionId \in Nat
      /\ \A q \in Requests : conn[q] \in Nat
      /\ Conns \subseteq Nat \ {0}
  BY IdsAreNaturals DEF FreshInv
<1>a. pc \in [Requests -> {"idle", "sending", "waiting", "upgrading", "connecting", "dialing",
                           "storing", "done"}]
      /\ conn \in [Requests -> Conns \cup {0}]
  BY DEF FreshInv, TypeInv, TypeOK
<1>1. CASE Start(r) \/ SendRejected(r) \/ TakeResponse(r) \/ Upgrade(r) \/ DialFails(r) \/ Abandon(r)
  <2>1. UNCHANGED <<slotVars, connectionId, installed, conn>>
    BY <1>1 DEF Start, SendRejected, TakeResponse, Upgrade, DialFails, Abandon, connVars
  <2>2. /\ \A q \in Requests \ {r} : pc'[q] = pc[q]
        /\ pc'[r] \in {"sending", "connecting", "upgrading", "done"}
        /\ pc[r] \in {"waiting", "upgrading"} => pc'[r] \in {"upgrading", "done"}
        /\ pc[r] # "done"
    BY <1>1, <1>a DEF Start, SendRejected, TakeResponse, Upgrade, DialFails, Abandon, Retry, Goto,
                      Finish, Dialing
  <2>3. ReportsAgree'
    BY <2>1 DEF FreshInv, ReportsAgree, slotVars
  <2> QED BY <2>1, <2>2, <2>3, QuietStepFreshInv DEF slotVars, Dialing
<1>2. CASE Send(r)
  <2>1. /\ UNCHANGED <<slotVars, connectionId, installed>>
        /\ state = "Connected"
        /\ conn' = [conn EXCEPT ![r] = currentConnectionId]
        /\ pc' = [pc EXCEPT ![r] = "waiting"]
    BY <1>2 DEF Send, Goto, connVars
  <2>2. \A q \in Requests : ~Dialing(q)
    BY <2>1 DEF FreshInv, OneDialer
  <2>3. \A q \in Requests : ~Dialing(q)'
    BY <2>1, <2>2, <1>a DEF Dialing
  <2>4. IdsAreIssued' /\ FailedIsGone'
    BY <1>0, <1>a, <2>1 DEF FreshInv, IdsAreIssued, FailedIsGone, slotVars
  <2>5. OneDialer' /\ DialIsFresh' /\ CounterIsTheSlots' /\ ReportsAgree'
    BY <2>1, <2>3 DEF FreshInv, OneDialer, DialIsFresh, CounterIsTheSlots, ReportsAgree, slotVars
  <2> QED BY <2>4, <2>5 DEF FreshInv
<1>3. CASE StreamFails(r) \/ RequestTimeout(r)
  <2>1. Disconnect(conn[r]) /\ UNCHANGED <<connectionId, installed, conn>>
    BY <1>3 DEF StreamFails, RequestTimeout, DropTimedOutConn, connVars
  <2>2. /\ \A q \in Requests \ {r} : pc'[q] = pc[q]
        /\ pc'[r] \in {"connecting", "done"}
    BY <1>3, <1>a DEF StreamFails, RequestTimeout, Retry, Goto, Finish
  <2>3. /\ currentConnectionId' = currentConnectionId
        /\ state' = "Connected" => state = "Connected" /\ currentConnectionId # conn[r]
        /\ ReportsAgree'
    BY <2>1, DisconnectCases DEF FreshInv
  <2> QED BY <2>1, <2>2, <2>3, QuietStepFreshInv DEF Dialing
<1>4. CASE Connect(r)
  <2>1. UNCHANGED <<slotVars, installed, conn>> /\ pc[r] = "connecting"
    BY <1>4 DEF Connect
  <2>2. CASE connectionId' = connectionId + 1 /\ MustDial /\ pc' = [pc EXCEPT ![r] = "dialing"]
    <3>1. state = "Disconnected" /\ \A q \in Requests : ~Dialing(q)
      BY <1>4, <2>2 DEF Connect, MustDial
    <3>2. OneDialer' /\ CounterIsTheSlots' /\ FailedIsGone' /\ ReportsAgree'
      BY <1>a, <2>1, <2>2, <3>1 DEF FreshInv, OneDialer, CounterIsTheSlots, FailedIsGone, ReportsAgree,
                                    Dialing, slotVars
    <3>3. IdsAreIssued' /\ DialIsFresh'
      <4>1. \A c \in installed : c \in Nat
        BY <1>0 DEF FreshInv, TypeInv, TypeOK
      <4> QED BY <1>0, <2>1, <2>2, <4>1 DEF FreshInv, IdsAreIssued, DialIsFresh, slotVars
    <3> QED BY <3>2, <3>3 DEF FreshInv
  <2>3. CASE UNCHANGED connectionId /\ pc' \in {[pc EXCEPT ![r] = "sending"], [pc EXCEPT ![r] = "done"]}
    <3>1. ReportsAgree'
      BY <2>1 DEF FreshInv, ReportsAgree, slotVars
    <3>2. /\ \A q \in Requests \ {r} : pc'[q] = pc[q]
          /\ pc'[r] \in {"sending", "done"}
      BY <1>a, <2>3
    <3> QED BY <2>1, <2>3, <3>1, <3>2, QuietStepFreshInv DEF slotVars, Dialing
  <2> QED BY <1>4, <2>2, <2>3 DEF Connect, Goto, Finish
<1>5. CASE Handshake(r)
  <2>1. /\ UNCHANGED <<slotVars, connectionId, installed, conn>> /\ Dialing(r)
        /\ pc' = [pc EXCEPT ![r] = "storing"]
    BY <1>5 DEF Handshake, Goto, Dialing
  <2>2. /\ \A q \in Requests : Dialing(q)' <=> Dialing(q)
        /\ pc[r] \notin {"waiting", "upgrading", "done"}
    BY <1>a, <2>1 DEF Dialing
  <2>3. ReportsAgree'
    BY <2>1 DEF FreshInv, ReportsAgree, slotVars
  <2> QED BY <1>a, <2>1, <2>2, <2>3, QuietStepFreshInv DEF slotVars
<1>6. CASE Store(r)
  <2>1. /\ Dialing(r) /\ state # "Connected"
        /\ \A q \in Requests : Dialing(q) => q = r
        /\ currentConnectionId < connectionId
        /\ \A q \in Requests : conn[q] < connectionId
    BY <1>6 DEF Store, FreshInv, OneDialer, DialIsFresh, Dialing
  <2>2. UNCHANGED <<connectionId, conn>>
    BY <1>6 DEF Store
  <2>3. CASE CanStore
    <3>1. /\ state' = "Connected" /\ currentConnectionId' = connectionId
          /\ installed' = installed \cup {connectionId} /\ reported' = reported + 1
          /\ pc' = [pc EXCEPT ![r] = "sending"]
      BY <1>6, <2>3 DEF Store, Goto
    <3>2. \A q \in Requests : ~Dialing(q)'
      BY <1>a, <2>1, <3>1 DEF Dialing
    <3>3. OneDialer' /\ DialIsFresh' /\ CounterIsTheSlots' /\ FailedIsGone'
      BY <2>1, <2>2, <3>1, <3>2 DEF OneDialer, DialIsFresh, CounterIsTheSlots, FailedIsGone
    <3>4. IdsAreIssued' /\ ReportsAgree'
      BY <1>0, <2>1, <2>2, <3>1 DEF FreshInv, IdsAreIssued, ReportsAgree
    <3> QED BY <3>3, <3>4 DEF FreshInv
  <2>4. CASE ~CanStore
    <3>1. UNCHANGED <<slotVars, installed>> /\ pc' = [pc EXCEPT ![r] = "done"]
      BY <1>6, <2>4 DEF Store, Finish
    <3>2. ReportsAgree'
      BY <3>1 DEF FreshInv, ReportsAgree, slotVars
    <3> QED BY <1>a, <2>2, <3>1, <3>2, QuietStepFreshInv DEF slotVars, Dialing
  <2> QED BY <2>3, <2>4
<1> QED BY <1>1, <1>2, <1>3, <1>4, <1>5, <1>6 DEF CallerStep

LEMMA NextFreshInv == FreshInv /\ [Next]_vars => FreshInv'
<1> SUFFICES ASSUME FreshInv, [Next]_vars PROVE FreshInv'
  OBVIOUS
<1>0. TypeInv /\ TypeInv' /\ ReportsAgree
  BY NextTypeInv DEF FreshInv
<1>1. ASSUME NEW r \in Requests, Start(r) \/ CallerStep(r) \/ Abandon(r)  PROVE FreshInv'
  BY <1>0, <1>1, CallerFreshInv
<1>2. ASSUME UNCHANGED <<connectionId, installed, pc, conn, currentConnectionId>>, ReportsAgree',
             state' = "Connected" => state = "Connected"
      PROVE  FreshInv'
  BY <1>0, <1>2, QuietStepFreshInv DEF Dialing
<1>3. ASSUME UNCHANGED <<slotVars, connectionId, installed, pc, conn>>  PROVE FreshInv'
  BY <1>0, <1>2, <1>3 DEF slotVars, ReportsAgree
<1>4. ASSUME NEW c, Disconnect(c), UNCHANGED <<connectionId, installed, pc, conn>>  PROVE FreshInv'
  BY <1>0, <1>2, <1>4, DisconnectCases
<1>5. ASSUME NEW r \in Requests, HyperStep(r)  PROVE FreshInv'
  BY <1>3, <1>5 DEF HyperStep, Dispatch, Answer, Switch, connVars, callerVars
<1>6. ASSUME NEW c \in Conns, ConnStep(c)  PROVE FreshInv'
  BY <1>3, <1>4, <1>6 DEF ConnStep, ConnEnds, SocketCloses, TaskDisconnect, connVars, callerVars
<1>7. ASSUME NEW c \in 0 .. MaxConnections, RunDisconnect(c)  PROVE FreshInv'
  BY <1>4, <1>7 DEF RunDisconnect, connVars, callerVars
<1>8. CASE ForceDisconnect \/ Dispose
  <2>1. ReportsAgree'
    BY <1>0, <1>8 DEF ForceDisconnect, LoseSlot, Dispose, LastReport, ReportsAgree, TypeInv, TypeOK
  <2> QED BY <1>2, <1>8, <2>1 DEF ForceDisconnect, LoseSlot, Dispose, connVars, callerVars
<1>9. CASE AskDisconnect \/ UNCHANGED vars
  BY <1>3, <1>9 DEF AskDisconnect, vars, connVars, callerVars
<1> QED BY StepCases, <1>1, <1>5, <1>6, <1>7, <1>8, <1>9

LEMMA SpecFreshInv == Spec => []FreshInv
BY InitFreshInv, NextFreshInv, PTL DEF Spec

\* The counter that disconnect() reads is the id of the connection in the slot, and every
\* connection reported is reported lost once, and none else is.
THEOREM SlotIsAlwaysReported == Spec => []SlotIsReported
<1>1. FreshInv => SlotIsReported
  BY DEF FreshInv, SlotIsReported
<1> QED BY SpecFreshInv, <1>1, PTL
-----------------------------------------------------------------------------
(* Every retry is on a newer connection, and no connection is lost to another's task *)

\* Only Send brings a caller to wait, on the connection in the slot.
LEMMA OnlySendWaits ==
    ASSUME TypeInv, [Next]_vars, NEW r \in Requests, pc[r] = "sending", pc'[r] = "waiting"
    PROVE  state = "Connected" /\ conn'[r] = currentConnectionId
<1> USE DEF TypeInv, TypeOK, Goto, Finish, callerVars
<1>1. ASSUME NEW q \in Requests, Start(q) \/ CallerStep(q) \/ Abandon(q)
      PROVE  state = "Connected" /\ conn'[r] = currentConnectionId
  <2>1. CASE Send(q)  BY <2>1 DEF Send
  <2>2. CASE Start(q) \/ Connect(q) \/ Handshake(q) \/ Store(q)
    BY <2>2 DEF Start, Connect, Handshake, Store
  <2>3. CASE SendRejected(q) \/ StreamFails(q) \/ RequestTimeout(q)
    BY <2>3 DEF SendRejected, StreamFails, RequestTimeout, Retry
  <2>4. CASE TakeResponse(q) \/ Upgrade(q) \/ DialFails(q) \/ Abandon(q)
    BY <2>4 DEF TakeResponse, Upgrade, DialFails, Abandon
  <2> QED BY <1>1, <2>1, <2>2, <2>3, <2>4 DEF CallerStep
<1>2. CASE UNCHANGED pc
  BY <1>2
<1>3. ASSUME ~\E q \in Requests : Start(q) \/ CallerStep(q) \/ Abandon(q)
      PROVE  UNCHANGED pc
  BY <1>3, StepCases
  DEF HyperStep, Dispatch, Answer, Switch, ConnStep, ConnEnds, SocketCloses, TaskDisconnect,
      RunDisconnect, AskDisconnect, ForceDisconnect, Dispose, vars
<1> QED BY <1>1, <1>2, <1>3

\* A retry never meets the connection whose response was still to come, nor an older one.
THEOREM RetriesAlwaysUseFreshConnections == Spec => RetriesUseFreshConnections
<1>1. FreshInv /\ [Next]_vars =>
        [\A r \in Requests : pc[r] = "sending" /\ pc'[r] = "waiting" => conn'[r] > conn[r]]_vars
  <2> SUFFICES ASSUME FreshInv, [Next]_vars, NEW r \in Requests,
                      pc[r] = "sending", pc'[r] = "waiting"
               PROVE  conn'[r] > conn[r]
    OBVIOUS
  <2>1. state = "Connected" /\ conn'[r] = currentConnectionId
    BY OnlySendWaits DEF FreshInv
  <2>2. conn[r] < currentConnectionId
    BY <2>1 DEF FreshInv, FailedIsGone
  <2> QED BY <2>1, <2>2, IdsAreNaturals DEF FreshInv
<1> QED BY SpecFreshInv, <1>1, PTL DEF Spec, RetriesUseFreshConnections

\* A disconnect by id that empties the slot was of the connection in it.
LEMMA DisconnectEmpties ==
    ASSUME NEW c, Disconnect(c), state = "Connected", state' = "Disconnected"
    PROVE  currentConnectionId = c
BY DEF Disconnect, Holds, slotVars

\* What callers do beside failing and storing, what hyper does with requests, and the end of a
\* connection itself leave the slot alone.
LEMMA SlotIsLeftAlone ==
    /\ \A r \in Requests :
         \/ Start(r) \/ Send(r) \/ SendRejected(r) \/ TakeResponse(r) \/ Upgrade(r) \/ Connect(r)
         \/ Handshake(r) \/ DialFails(r) \/ Abandon(r) \/ HyperStep(r)
         => UNCHANGED <<slotVars, installed>>
    /\ \A c \in Conns : ConnEnds(c) \/ SocketCloses(c) => UNCHANGED <<slotVars, installed>>
    /\ AskDisconnect \/ UNCHANGED vars => UNCHANGED <<slotVars, installed>>
<1>1. ASSUME NEW r \in Requests,
             \/ Start(r) \/ Send(r) \/ SendRejected(r) \/ TakeResponse(r) \/ Upgrade(r) \/ Connect(r)
             \/ Handshake(r) \/ DialFails(r) \/ Abandon(r) \/ HyperStep(r)
      PROVE  UNCHANGED <<slotVars, installed>>
  BY <1>1 DEF Start, Send, SendRejected, TakeResponse, Upgrade, Connect, Handshake, DialFails, Abandon,
              HyperStep, Dispatch, Answer, Switch, connVars
<1>2. /\ \A c \in Conns : ConnEnds(c) \/ SocketCloses(c) => UNCHANGED <<slotVars, installed>>
      /\ AskDisconnect \/ UNCHANGED vars => UNCHANGED <<slotVars, installed>>
  BY DEF ConnEnds, SocketCloses, AskDisconnect, connVars, vars
<1> QED BY <1>1, <1>2

\* The slot loses a connection only through what happened on that connection, or a disconnect()
\* that was asked for it.
THEOREM SlotIsAlwaysLostForCause == Spec => SlotIsLostForCause
<1> DEFINE LostBy(r) == pc[r] = "waiting" /\ pc'[r] # "waiting" /\ conn[r] = currentConnectionId
           Cause == \/ ForceDisconnect
                    \/ currentConnectionId \in asked
                    \/ /\ task[currentConnectionId] \in {"upgraded", "ended"}
                       /\ task'[currentConnectionId] # task[currentConnectionId]
                    \/ \E r \in Requests : LostBy(r)
<1>1. TypeInv /\ [Next]_vars => (state = "Connected" /\ state' = "Disconnected" => Cause)
  <2> SUFFICES ASSUME TypeInv, [Next]_vars, state = "Connected", state' = "Disconnected"
               PROVE  Cause
    OBVIOUS
  <2>1. ASSUME NEW r \in Requests, StreamFails(r) \/ RequestTimeout(r)  PROVE LostBy(r)
    <3>1. Disconnect(conn[r]) /\ pc[r] = "waiting"
      BY <2>1 DEF StreamFails, RequestTimeout, DropTimedOutConn
    <3>2. conn[r] = currentConnectionId
      BY <3>1, DisconnectEmpties
    <3>3. pc'[r] # "waiting"
      BY <2>1 DEF StreamFails, RequestTimeout, Retry, Goto, Finish, TypeInv, TypeOK
    <3> QED BY <3>1, <3>2, <3>3
  <2>2. ASSUME NEW c \in Conns, TaskDisconnect(c)  PROVE Cause
    <3>1. c = currentConnectionId
      BY <2>2, DisconnectEmpties DEF TaskDisconnect
    <3> QED BY <2>2, <3>1 DEF TaskDisconnect, TypeInv, TypeOK
  <2>3. ASSUME NEW c \in 0 .. MaxConnections, RunDisconnect(c)  PROVE Cause
    BY <2>3, DisconnectEmpties DEF RunDisconnect
  <2>4. ASSUME NEW r \in Requests, Store(r)  PROVE state' # "Disconnected"
    BY <2>4 DEF Store, CanStore, slotVars
  <2>5. Dispose => state' # "Disconnected"
    BY DEF Dispose
  <2>6. UNCHANGED <<slotVars, installed>> => state' # "Disconnected"
    BY DEF slotVars
  <2> QED BY StepCases, SlotIsLeftAlone, <2>1, <2>2, <2>3, <2>4, <2>5, <2>6 DEF CallerStep, ConnStep
<1>2. TypeInv /\ [Next]_vars => [state = "Connected" /\ state' = "Disconnected" => Cause]_vars
  BY <1>1
<1> QED BY SpecTypeInv, <1>2, PTL DEF Spec, SlotIsLostForCause

\* What leaves the state of the slot alone, or only empties it, is a step of ConnectionSlot.
LEMMA EmptyingIsSlotStep ==
    ASSUME TypeInv, UNCHANGED <<currentConnectionId, installed>>,
           \/ state' = state
           \/ state = "Connected" /\ state' = "Disconnected"
           \/ state # "Disposed" /\ state' = "Disposed"
    PROVE  [Slot!SlotNext]_Slot!slotVars
BY DEF Slot!SlotNext, Slot!Leave, Slot!BeDisposed, Slot!Occupied, Slot!slotVars

\* The slot of the hyper HTTP/1.1 client keeps the promise of ConnectionSlot: a connection enters
\* it at most once, and a disposed client never holds one again
\* (my_http_hyper_client.rs:233-238).
THEOREM SlotKeepsItsPromise == Spec => SlotSpec
<1>1. Init => Slot!SlotInit
  BY DEF Init, Slot!SlotInit
<1>2. FreshInv /\ [Next]_vars => [Slot!SlotNext]_Slot!slotVars
  <2> SUFFICES ASSUME FreshInv, [Next]_vars PROVE [Slot!SlotNext]_Slot!slotVars
    OBVIOUS
  <2>0. TypeInv
    BY DEF FreshInv
  <2>1. ASSUME NEW r \in Requests, Store(r), CanStore  PROVE [Slot!SlotNext]_Slot!slotVars
    <3>1. Dialing(r)
      BY <2>1 DEF Store, Dialing
    <3>2. connectionId \in Conns /\ connectionId \notin installed
      BY <3>1 DEF FreshInv, TypeInv, IdsExist, DialIsFresh
    <3>3. Slot!Enter(connectionId)
      BY <2>1, <3>2 DEF Store, CanStore, Slot!Enter
    <3> QED BY <3>2, <3>3 DEF Slot!SlotNext
  <2>2. ASSUME NEW r \in Requests, Store(r), ~CanStore  PROVE UNCHANGED <<slotVars, installed>>
    BY <2>2 DEF Store
  <2>3. ASSUME NEW c, Disconnect(c), UNCHANGED installed  PROVE [Slot!SlotNext]_Slot!slotVars
    BY <2>0, <2>3, EmptyingIsSlotStep DEF Disconnect, Holds, LoseSlot, slotVars
  <2>4. ASSUME NEW r \in Requests, StreamFails(r) \/ RequestTimeout(r)
        PROVE  [Slot!SlotNext]_Slot!slotVars
    BY <2>3, <2>4 DEF StreamFails, RequestTimeout, DropTimedOutConn, connVars
  <2>5. ASSUME NEW c \in Conns, TaskDisconnect(c)  PROVE [Slot!SlotNext]_Slot!slotVars
    BY <2>3, <2>5 DEF TaskDisconnect
  <2>6. ASSUME NEW c \in 0 .. MaxConnections, RunDisconnect(c)  PROVE [Slot!SlotNext]_Slot!slotVars
    BY <2>3, <2>6 DEF RunDisconnect, connVars
  <2>7. CASE ForceDisconnect \/ Dispose
    BY <2>0, <2>7, EmptyingIsSlotStep DEF ForceDisconnect, LoseSlot, Dispose, connVars
  <2>8. ASSUME UNCHANGED <<slotVars, installed>>  PROVE [Slot!SlotNext]_Slot!slotVars
    BY <2>0, <2>8, EmptyingIsSlotStep DEF slotVars
  <2> QED BY StepCases, SlotIsLeftAlone, <2>1, <2>2, <2>4, <2>5, <2>6, <2>7, <2>8 DEF CallerStep, ConnStep
<1> QED BY SpecFreshInv, <1>1, <1>2, PTL DEF Spec, SlotSpec, Slot!SlotSpec
=============================================================================
