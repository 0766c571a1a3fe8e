------------------------- MODULE Http2ClientProofs -------------------------
(***************************************************************************)
(* Theorems about Http2Client, for every set of callers, whichever methods *)
(* and timeouts they use, and any number of connections.                   *)
(***************************************************************************)
EXTENDS Http2Client, TLAPS

\* A connection in the slot has an id and a round of timeouts left.
ConnectedHasRounds ==
    state = "Connected" =>
      /\ currentConnectionId \in Conns
      /\ consecutiveTimeouts < MaxConsecutiveTimeouts

\* Whoever is about to store a connection has dialed one.
StoringHasDialed == \A r \in Requests : pc[r] = "storing" => connectionId \in Conns

TypeInv == TypeOK /\ ConnectedHasRounds /\ StoringHasDialed

LEMMA InitTypeInv == Init => TypeInv
<1> SUFFICES ASSUME Init PROVE TypeInv
  OBVIOUS
<1>1. TypeOK
  <2>1. 0 \in 0 .. MaxConnections
    BY BoundsAssumption
  <2>2. task \in [Conns -> {"none", "running", "ended", "done"}] /\ installed \subseteq Conns
    BY DEF Init
  <2>3. /\ retryNo \in [Requests -> 0 .. MaxRetryNo + 1]
        /\ age \in [Requests -> 0 .. Horizon]
        /\ wired \in [Requests -> 0 .. 2]
    BY BoundsAssumption DEF Init, Horizon
  <2>4. /\ consecutiveTimeouts \in 0 .. MaxConsecutiveTimeouts
        /\ sinceCounted \in 0 .. Horizon /\ sinceProof \in 0 .. Horizon
        /\ reported \in Int
    BY BoundsAssumption DEF Init, Horizon
  <2> QED BY <2>1, <2>2, <2>3, <2>4 DEF Init, TypeOK
<1>2. ConnectedHasRounds /\ StoringHasDialed
  BY DEF Init, ConnectedHasRounds, StoringHasDialed
<1> QED BY <1>1, <1>2 DEF TypeInv

\* Dropping the connection in the slot leaves a well-formed slot.
LEMMA LoseSlotTypeOK ==
    ASSUME TypeInv, LoseSlot
    PROVE  /\ state' = "Disconnected"
           /\ currentConnectionId' \in Conns \cup {0}
           /\ isAlive' \in BOOLEAN
           /\ reported' \in Int
<1>1. reported \in Int
  BY DEF TypeInv, TypeOK
<1>2. reported - 1 \in Int
  BY <1>1
<1> QED BY <1>2 DEF TypeInv, TypeOK, LoseSlot

LEMMA DisconnectTypeOK ==
    ASSUME TypeInv, NEW c, Disconnect(c)
    PROVE  /\ state' \in {"Disconnected", state}
           /\ currentConnectionId' \in Conns \cup {0}
           /\ isAlive' \in BOOLEAN
           /\ reported' \in Int
           /\ state' = "Connected" => currentConnectionId' = currentConnectionId
BY LoseSlotTypeOK DEF Disconnect, slotVars, TypeInv, TypeOK

LEMMA CallerTypeInv ==
    ASSUME TypeInv, NEW r \in Requests, Start(r) \/ CallerStep(r) \/ Abandon(r)
    PROVE  TypeInv'
<1> USE BoundsAssumption DEF TypeInv, TypeOK, ConnectedHasRounds, StoringHasDialed, Errors, Horizon,
        slotVars, roundVars, connVars, callerVars, streamVars, Goto, Finish, CloseStream
<1>1. CASE Start(r)  BY <1>1 DEF Start
<1>2. CASE Send(r)  BY <1>2 DEF Send
<1>3. CASE SendRejected(r)  BY <1>3 DEF SendRejected, Retry, RetriesLeft
<1>4. CASE TakeResponse(r)  BY <1>4 DEF TakeResponse
<1>5. CASE StreamFails(r)
  <2>1. Disconnect(conn[r])
    BY <1>5 DEF StreamFails, DropFailedConn
  <2> QED BY <1>5, <2>1, DisconnectTypeOK DEF StreamFails, Retry, RetriesLeft
<1>6. CASE RequestTimeout(r)
  <2>1. CASE CountsAgainstSlot(r) /\ IsNewRound(r) /\ consecutiveTimeouts + 1 >= MaxConsecutiveTimeouts
    <3>1. LoseSlot
      BY <1>6, <2>1 DEF RequestTimeout, RegisterRequestTimeout
    <3> QED BY <1>6, <2>1, <3>1, LoseSlotTypeOK DEF RequestTimeout, RegisterRequestTimeout,
                                                    CountsAgainstSlot, Holds
  <2>2. CASE ~(CountsAgainstSlot(r) /\ IsNewRound(r) /\ consecutiveTimeouts + 1 >= MaxConsecutiveTimeouts)
    BY <1>6, <2>2 DEF RequestTimeout, RegisterRequestTimeout
  <2> QED BY <2>1, <2>2
<1>7. CASE Connect(r)  BY <1>7 DEF Connect
<1>8. CASE Handshake(r)
  <2>1. connectionId' \in Conns /\ connectionId' \in 0 .. MaxConnections
    BY <1>8 DEF Handshake, Conns
  <2> QED BY <1>8, <2>1 DEF Handshake
<1>9. CASE DialFails(r)  BY <1>9 DEF DialFails
<1>10. CASE Store(r)
  <2>1. reported + 1 \in Int /\ connectionId \in Conns
    BY <1>10 DEF Store
  <2>2. /\ state' \in {"Disconnected", "Connected", "Disposed"}
        /\ currentConnectionId' \in Conns \cup {0}
        /\ isAlive' \in BOOLEAN
        /\ reported' \in Int
        /\ installed' \subseteq Conns
    <3>1. CASE CanStore
      <4>1. /\ state' = "Connected" /\ currentConnectionId' = connectionId
            /\ isAlive' = TRUE /\ reported' = reported + 1
            /\ installed' = installed \cup {connectionId}
        BY ONLY <1>10, <3>1 DEF Store
      <4>2. installed \subseteq Conns
        OBVIOUS
      <4>3. installed' \subseteq Conns
        BY ONLY <4>1, <4>2, <2>1
      <4> QED BY ONLY <4>1, <4>3, <2>1
    <3>2. CASE ~CanStore
      BY <1>10, <3>2 DEF Store
    <3> QED BY <3>1, <3>2
  <2>3. /\ consecutiveTimeouts' \in 0 .. MaxConsecutiveTimeouts
        /\ sinceCounted' \in 0 .. Horizon /\ sinceProof' \in 0 .. Horizon
        /\ state' = "Connected" => currentConnectionId' \in Conns /\ consecutiveTimeouts' = 0
    BY <1>10, <2>1 DEF Store, CanStore
  <2>4. pc' \in [Requests -> {"idle", "sending", "waiting", "connecting", "dialing", "storing", "done"}]
        /\ result' \in [Requests -> Errors \cup {"none", "Response", "abandoned"}]
    BY <1>10 DEF Store
  <2> QED BY <1>10, <2>1, <2>2, <2>3, <2>4 DEF Store
<1>11. CASE Abandon(r)  BY <1>11 DEF Abandon
<1> QED BY <1>1, <1>2, <1>3, <1>4, <1>5, <1>6, <1>7, <1>8, <1>9, <1>10, <1>11 DEF CallerStep

LEMMA EnvironmentTypeInv ==
    ASSUME TypeInv,
           \/ \E r \in Requests : Dispatch(r) \/ StreamEnds(r)
           \/ \E c \in Conns : ConnEnds(c) \/ TaskDisconnect(c)
           \/ ForceDisconnect \/ Dispose \/ Tick \/ UNCHANGED vars
    PROVE  TypeInv'
<1> USE BoundsAssumption DEF TypeInv, TypeOK, ConnectedHasRounds, StoringHasDialed, Errors, Horizon,
        slotVars, roundVars, connVars, callerVars, streamVars
<1>1. ASSUME NEW r \in Requests, Dispatch(r)  PROVE TypeInv'
  BY <1>1 DEF Dispatch, SetStream
<1>2. ASSUME NEW r \in Requests, StreamEnds(r)  PROVE TypeInv'
  BY <1>2 DEF StreamEnds, SetStream
<1>3. ASSUME NEW c \in Conns, ConnEnds(c)  PROVE TypeInv'
  BY <1>3 DEF ConnEnds
<1>4. ASSUME NEW c \in Conns, TaskDisconnect(c)  PROVE TypeInv'
  BY <1>4, DisconnectTypeOK DEF TaskDisconnect
<1>5. CASE ForceDisconnect  BY <1>5, LoseSlotTypeOK DEF ForceDisconnect
<1>6. CASE Dispose
  <2>1. reported \in Int
    OBVIOUS
  <2>2. LastReport \in Int
    BY ONLY <2>1 DEF LastReport
  <2> QED BY <1>6, <2>2 DEF Dispose
<1>7. CASE Tick  BY <1>7 DEF Tick, Older, Timeout, ShortTimeout
<1>8. CASE UNCHANGED vars  BY <1>8 DEF vars
<1> QED BY <1>1, <1>2, <1>3, <1>4, <1>5, <1>6, <1>7, <1>8

\* Every step is one of a caller or one of the rest.
LEMMA StepCases ==
    ASSUME [Next]_vars
    PROVE  \/ \E r \in Requests : Start(r) \/ CallerStep(r) \/ Abandon(r)
           \/ \E r \in Requests : Dispatch(r) \/ StreamEnds(r)
           \/ \E c \in Conns : ConnEnds(c) \/ TaskDisconnect(c)
           \/ ForceDisconnect \/ Dispose \/ Tick \/ UNCHANGED vars
BY DEF Next, Terminated

LEMMA NextTypeInv == TypeInv /\ [Next]_vars => TypeInv'
BY StepCases, CallerTypeInv, EnvironmentTypeInv

LEMMA SpecTypeInv == Spec => []TypeInv
BY InitTypeInv, NextTypeInv, PTL DEF Spec

\* Every variable of the HTTP/2 client has its type: no count leaves its bounds, in particular
\* that of timeouts (my_http2_client_inner.rs:177) and that of retries.
THEOREM TypeCorrect == Spec => []TypeOK
<1>1. TypeInv => TypeOK
  BY DEF TypeInv
<1> QED BY SpecTypeInv, <1>1, PTL
-----------------------------------------------------------------------------
(* A request that is not idempotent runs at most once *)

\* Such a request that was handed to the wire still waits on that stream, or its caller has
\* returned with a result that does not deny it.
WiredIsFinal ==
    \A r \in Requests \ Idempotent : wired[r] > 0 =>
      /\ wired[r] = 1
      /\ \/ pc[r] = "waiting" /\ stream[r] \in {"dispatched", "answered", "broken"}
         \/ pc[r] = "done" /\ result[r] \notin {"Disconnected", "Disposed", "CanNotConnectToRemoteHost"}

ResultMeansDone == \A r \in Requests : result[r] # "none" => pc[r] = "done"

OnceInv == TypeInv /\ WiredIsFinal /\ ResultMeansDone

LEMMA InitOnceInv == Init => OnceInv
BY InitTypeInv DEF Init, OnceInv, WiredIsFinal, ResultMeansDone

LEMMA CallerOnceInv ==
    ASSUME OnceInv, TypeInv', NEW r \in Requests, Start(r) \/ CallerStep(r) \/ Abandon(r)
    PROVE  OnceInv'
<1> USE DEF OnceInv, TypeInv, TypeOK, WiredIsFinal, ResultMeansDone, callerVars, streamVars, Goto,
        Finish, CloseStream
<1>1. CASE Start(r)  BY <1>1 DEF Start
<1>2. CASE Send(r)  BY <1>2 DEF Send
<1>3. CASE SendRejected(r)  BY <1>3 DEF SendRejected, Retry
<1>4. CASE TakeResponse(r)  BY <1>4 DEF TakeResponse
<1>5. CASE StreamFails(r)  BY <1>5 DEF StreamFails, Retry, MayReplay
<1>6. CASE RequestTimeout(r)  BY <1>6 DEF RequestTimeout
<1>7. CASE Connect(r)  BY <1>7 DEF Connect
<1>8. CASE Handshake(r)  BY <1>8 DEF Handshake
<1>9. CASE DialFails(r)  BY <1>9 DEF DialFails, Dialing
<1>10. CASE Store(r)  BY <1>10 DEF Store
<1>11. CASE Abandon(r)  BY <1>11 DEF Abandon
<1> QED BY <1>1, <1>2, <1>3, <1>4, <1>5, <1>6, <1>7, <1>8, <1>9, <1>10, <1>11 DEF CallerStep

LEMMA NextOnceInv == OnceInv /\ [Next]_vars => OnceInv'
<1> SUFFICES ASSUME OnceInv, [Next]_vars PROVE OnceInv'
  OBVIOUS
<1>0. TypeInv'
  BY NextTypeInv DEF OnceInv
<1> USE <1>0 DEF OnceInv, TypeInv, TypeOK, WiredIsFinal, ResultMeansDone, callerVars, streamVars
<1>1. ASSUME NEW r \in Requests, Start(r) \/ CallerStep(r) \/ Abandon(r)  PROVE OnceInv'
  BY <1>1, CallerOnceInv
<1>2. ASSUME NEW r \in Requests, Dispatch(r)  PROVE OnceInv'
  <2>1. r \notin Idempotent => wired[r] = 0
    BY <1>2 DEF Dispatch, Live
  <2>2. r \notin Idempotent => wired'[r] = 1
    BY <1>2, <2>1 DEF Dispatch
  <2> QED BY <1>2, <2>2 DEF Dispatch, SetStream, Live
<1>3. ASSUME NEW r \in Requests, StreamEnds(r)  PROVE OnceInv'
  BY <1>3 DEF StreamEnds, SetStream
<1>4. ASSUME NEW c \in Conns, ConnEnds(c)  PROVE OnceInv'
  BY <1>4 DEF ConnEnds, Live
<1>5. ASSUME NEW c \in Conns, TaskDisconnect(c)  PROVE OnceInv'
  BY <1>5 DEF TaskDisconnect
<1>6. CASE ForceDisconnect \/ Dispose \/ Tick \/ UNCHANGED vars
  BY <1>6 DEF ForceDisconnect, Dispose, Tick, vars
<1> QED BY StepCases, <1>1, <1>2, <1>3, <1>4, <1>5, <1>6

LEMMA SpecOnceInv == Spec => []OnceInv
BY InitOnceInv, NextOnceInv, PTL DEF Spec

\* No retry, reconnect, timeout or failure makes the client hand a request that is not
\* idempotent to the wire twice.
THEOREM NonIdempotentRunsAtMostOnce == Spec => []NonIdempotentAtMostOnce
<1>1. OnceInv => NonIdempotentAtMostOnce
  <2> SUFFICES ASSUME OnceInv, NEW r \in Requests \ Idempotent PROVE wired[r] <= 1
    BY DEF NonIdempotentAtMostOnce
  <2>1. wired[r] \in 0 .. 2
    BY DEF OnceInv, TypeInv, TypeOK
  <2> QED BY <2>1 DEF OnceInv, WiredIsFinal
<1> QED BY SpecOnceInv, <1>1, PTL

\* A caller told that its request was never sent may rely on it.
THEOREM UnsentErrorsAreAlwaysTrue == Spec => []UnsentErrorsAreTrue
<1>1. OnceInv => UnsentErrorsAreTrue
  BY DEF OnceInv, WiredIsFinal, ResultMeansDone, TypeInv, TypeOK, UnsentErrorsAreTrue
<1> QED BY SpecOnceInv, <1>1, PTL
-----------------------------------------------------------------------------
(* Every retry is on a newer connection, and the slot keeps its promise *)

\* connect_lock has one holder.
OneDialer == \A q, r \in Requests : Dialing(q) /\ Dialing(r) => q = r

\* Connections are numbered in the order of their dials.
IdsAreIssued ==
    /\ currentConnectionId <= connectionId
    /\ \A r \in Requests : conn[r] <= connectionId
    /\ \A c \in installed : c <= connectionId

\* A connection about to be stored was never in the slot nor used by anyone.
DialIsFresh ==
    \A q \in Requests : pc[q] = "storing" =>
      /\ connectionId \notin installed
      /\ currentConnectionId < connectionId
      /\ \A r \in Requests : conn[r] < connectionId

\* Nobody used a connection newer than that in the slot, and a caller that is not waiting for
\* a response only older ones: what failed it has left the slot.
FailedIsGone ==
    state = "Connected" => \A r \in Requests :
      /\ conn[r] <= currentConnectionId
      /\ pc[r] \notin {"waiting", "done"} => conn[r] < currentConnectionId

FreshInv == TypeInv /\ OneDialer /\ IdsAreIssued /\ DialIsFresh /\ FailedIsGone

LEMMA IdsAreNaturals ==
    ASSUME TypeInv
    PROVE  /\ connectionId \in Nat /\ currentConnectionId \in Nat
           /\ \A r \in Requests : conn[r] \in Nat
           /\ Conns \subseteq Nat \ {0}
BY BoundsAssumption DEF TypeInv, TypeOK, Conns

LEMMA InitFreshInv == Init => FreshInv
BY InitTypeInv DEF Init, FreshInv, OneDialer, IdsAreIssued, DialIsFresh, FailedIsGone, Dialing

\* A disconnect keeps the connection in the slot or empties it, and if it was of that
\* connection empties it.
LEMMA DisconnectCases ==
    ASSUME NEW c, Disconnect(c)
    PROVE  /\ currentConnectionId' = currentConnectionId
           /\ state' = "Connected" => state = "Connected" /\ currentConnectionId # c
BY DEF Disconnect, Holds, LoseSlot, slotVars

LEMMA CallerFreshInv ==
    ASSUME FreshInv, TypeInv', NEW r \in Requests, Start(r) \/ CallerStep(r) \/ Abandon(r)
    PROVE  FreshInv'
<1> USE DEF FreshInv, TypeInv, TypeOK, OneDialer, IdsAreIssued, DialIsFresh, FailedIsGone, Dialing,
        slotVars, connVars, Goto, Finish
<1>0. /\ connectionId \in Nat /\ currentConnectionId \in Nat
      /\ \A q \in Requests : conn[q] \in Nat
      /\ Conns \subseteq Nat \ {0}
  BY IdsAreNaturals
<1>1. CASE Start(r)  BY <1>0, <1>1 DEF Start
<1>2. CASE Send(r)  BY <1>0, <1>2 DEF Send
<1>3. CASE SendRejected(r)  BY <1>0, <1>3 DEF SendRejected, Retry
<1>4. CASE TakeResponse(r)  BY <1>0, <1>4 DEF TakeResponse
<1>5. CASE StreamFails(r)
  <2>1. /\ currentConnectionId' = currentConnectionId
        /\ state' = "Connected" => state = "Connected" /\ currentConnectionId # conn[r]
    BY <1>5, DisconnectCases DEF StreamFails, DropFailedConn
  <2>2. UNCHANGED <<connectionId, installed, conn>>
    BY <1>5 DEF StreamFails
  <2>3. /\ pc'[r] \in {"connecting", "done"}
        /\ \A q \in Requests \ {r} : pc'[q] = pc[q]
    BY <1>5 DEF StreamFails, Retry
  <2>4. OneDialer' /\ IdsAreIssued' /\ DialIsFresh'
    BY <1>0, <2>1, <2>2, <2>3
  <2>5. FailedIsGone'
    BY <1>0, <2>1, <2>2, <2>3
  <2> QED BY <2>4, <2>5
<1>6. CASE RequestTimeout(r)
  <2>1. LoseSlot \/ UNCHANGED slotVars
    BY <1>6 DEF RequestTimeout, RegisterRequestTimeout
  <2>2. /\ UNCHANGED <<connectionId, installed, conn>>
        /\ pc' = [pc EXCEPT ![r] = "done"]
    BY <1>6 DEF RequestTimeout
  <2>3. /\ currentConnectionId' = currentConnectionId
        /\ state' = "Connected" => state = "Connected"
    BY <2>1 DEF LoseSlot
  <2> QED BY <1>0, <2>2, <2>3
<1>7. CASE Connect(r)  BY <1>0, <1>7 DEF Connect
<1>8. CASE Handshake(r)
  <2>1. /\ connectionId' = connectionId + 1 /\ connectionId' \notin installed
        /\ connectionId < connectionId'
    BY <1>0, <1>8 DEF Handshake
  <2> QED BY <1>0, <1>8, <2>1 DEF Handshake
<1>9. CASE DialFails(r)  BY <1>0, <1>9 DEF DialFails
<1>10. CASE Store(r)
  <2>1. CASE CanStore
    <3>1. /\ currentConnectionId' = connectionId /\ connectionId' = connectionId
          /\ installed' = installed \cup {connectionId}
          /\ pc' = [pc EXCEPT ![r] = "sending"]
          /\ conn' = conn
      BY <1>10, <2>1 DEF Store
    <3>2. \A q \in Requests : pc'[q] # "storing" /\ conn[q] < connectionId
      BY <1>10, <3>1 DEF Store
    <3> QED BY <1>0, <3>1, <3>2
  <2>2. CASE ~CanStore
    BY <1>0, <1>10, <2>2 DEF Store
  <2> QED BY <2>1, <2>2
<1>11. CASE Abandon(r)  BY <1>0, <1>11 DEF Abandon
<1> QED BY <1>1, <1>2, <1>3, <1>4, <1>5, <1>6, <1>7, <1>8, <1>9, <1>10, <1>11 DEF CallerStep

LEMMA NextFreshInv == FreshInv /\ [Next]_vars => FreshInv'
<1> SUFFICES ASSUME FreshInv, [Next]_vars PROVE FreshInv'
  OBVIOUS
<1>0. TypeInv'
  BY NextTypeInv DEF FreshInv
<1>1. ASSUME NEW r \in Requests, Start(r) \/ CallerStep(r) \/ Abandon(r)  PROVE FreshInv'
  BY <1>0, <1>1, CallerFreshInv
<1>2. ASSUME UNCHANGED <<connectionId, installed, pc, conn, currentConnectionId>>,
             state' = "Connected" => state = "Connected"
      PROVE  FreshInv'
  BY <1>0, <1>2 DEF FreshInv, OneDialer, IdsAreIssued, DialIsFresh, FailedIsGone, Dialing
<1>3. ASSUME NEW r \in Requests, Dispatch(r) \/ StreamEnds(r)  PROVE FreshInv'
  BY <1>2, <1>3 DEF Dispatch, StreamEnds, slotVars, connVars, callerVars
<1>4. ASSUME NEW c \in Conns, ConnEnds(c)  PROVE FreshInv'
  BY <1>2, <1>4 DEF ConnEnds, slotVars, callerVars
<1>5. ASSUME NEW c \in Conns, TaskDisconnect(c)  PROVE FreshInv'
  BY <1>2, <1>5, DisconnectCases DEF TaskDisconnect, callerVars
<1>6. CASE ForceDisconnect \/ Dispose \/ Tick \/ UNCHANGED vars
  BY <1>2, <1>6 DEF ForceDisconnect, LoseSlot, Dispose, Tick, vars, slotVars, connVars, callerVars
<1> QED BY StepCases, <1>1, <1>3, <1>4, <1>5, <1>6

LEMMA SpecFreshInv == Spec => []FreshInv
BY InitFreshInv, NextFreshInv, PTL DEF Spec

\* Only Send brings a caller to wait, on the connection in the slot.
LEMMA OnlySendWaits ==
    ASSUME TypeInv, [Next]_vars, NEW r \in Requests, pc[r] = "sending", pc'[r] = "waiting"
    PROVE  state = "Connected" /\ conn'[r] = currentConnectionId
<1> USE DEF TypeInv, TypeOK, Goto, Finish, callerVars
<1>1. ASSUME NEW q \in Requests, Start(q) \/ CallerStep(q) \/ Abandon(q)
      PROVE  state = "Connected" /\ conn'[r] = currentConnectionId
  <2>1. CASE Send(q)  BY <2>1 DEF Send
  <2>2. CASE Start(q) \/ Connect(q) \/ Handshake(q)  BY <2>2 DEF Start, Connect, Handshake
  <2>3. CASE SendRejected(q) \/ StreamFails(q)  BY <2>3 DEF SendRejected, StreamFails, Retry
  <2>4. CASE TakeResponse(q) \/ RequestTimeout(q) \/ DialFails(q) \/ Abandon(q)
    BY <2>4 DEF TakeResponse, RequestTimeout, DialFails, Abandon
  <2>5. CASE Store(q)  BY <2>5 DEF Store
  <2> QED BY <1>1, <2>1, <2>2, <2>3, <2>4, <2>5 DEF CallerStep
<1>2. CASE UNCHANGED pc
  BY <1>2
<1>3. ASSUME ~\E q \in Requests : Start(q) \/ CallerStep(q) \/ Abandon(q)
      PROVE  UNCHANGED pc
  BY <1>3, StepCases
  DEF Dispatch, StreamEnds, ConnEnds, TaskDisconnect, ForceDisconnect, Dispose, Tick, vars
<1> QED BY <1>1, <1>2, <1>3

\* A retry never meets the connection that failed the caller, nor an older one.
THEOREM RetriesAlwaysUseFreshConnections == Spec => RetriesUseFreshConnections
<1>1. FreshInv /\ [Next]_vars =>
        [\A r \in Requests : pc[r] = "sending" /\ pc'[r] = "waiting" => conn'[r] > conn[r]]_vars
  <2> SUFFICES ASSUME FreshInv, [Next]_vars, NEW r \in Requests,
                      pc[r] = "sending", pc'[r] = "waiting"
               PROVE  conn'[r] > conn[r]
    OBVIOUS
  <2>1. state = "Connected" /\ conn'[r] = currentConnectionId
    BY OnlySendWaits DEF FreshInv
  <2>2. conn[r] < currentConnectionId
    BY <2>1 DEF FreshInv, FailedIsGone
  <2> QED BY <2>1, <2>2, IdsAreNaturals DEF FreshInv
<1> QED BY SpecFreshInv, <1>1, PTL DEF Spec, RetriesUseFreshConnections

\* What leaves the state of the slot alone, or only empties it, is a step of ConnectionSlot.
LEMMA EmptyingIsSlotStep ==
    ASSUME TypeInv, UNCHANGED <<currentConnectionId, installed>>,
           \/ state' = state
           \/ state = "Connected" /\ state' = "Disconnected"
           \/ state # "Disposed" /\ state' = "Disposed"
    PROVE  [Slot!SlotNext]_Slot!slotVars
BY DEF Slot!SlotNext, Slot!Leave, Slot!BeDisposed, Slot!Occupied, Slot!slotVars

\* The slot of the HTTP/2 client keeps the promise of ConnectionSlot: a connection enters it at
\* most once, and a disposed client never holds one again (my_http2_client.rs:336-341).
THEOREM SlotKeepsItsPromise == Spec => SlotSpec
<1>1. Init => Slot!SlotInit
  BY DEF Init, Slot!SlotInit
<1>2. FreshInv /\ [Next]_vars => [Slot!SlotNext]_Slot!slotVars
  <2> SUFFICES ASSUME FreshInv, [Next]_vars PROVE [Slot!SlotNext]_Slot!slotVars
    OBVIOUS
  <2>0. TypeInv
    BY DEF FreshInv
  <2>1. ASSUME NEW r \in Requests, Store(r), CanStore  PROVE Slot!SlotNext
    <3>1. connectionId \in Conns /\ connectionId \notin installed
      BY <2>1 DEF Store, FreshInv, TypeInv, StoringHasDialed, DialIsFresh
    <3>2. Slot!Enter(connectionId)
      BY <2>1, <3>1 DEF Store, CanStore, Slot!Enter
    <3> QED BY <3>1, <3>2 DEF Slot!SlotNext
  <2>2. ASSUME NEW r \in Requests, Store(r), ~CanStore  PROVE UNCHANGED <<slotVars, installed>>
    BY <2>2 DEF Store
  <2>3. ASSUME NEW r \in Requests, StreamFails(r) \/ RequestTimeout(r)
        PROVE  /\ UNCHANGED <<currentConnectionId, installed>>
               /\ state' = state \/ (state = "Connected" /\ state' = "Disconnected")
    BY <2>3 DEF StreamFails, DropFailedConn, Disconnect, RequestTimeout, RegisterRequestTimeout,
                CountsAgainstSlot, Holds, LoseSlot, slotVars, connVars
  <2>4. ASSUME NEW r \in Requests,
               \/ Start(r) \/ Send(r) \/ SendRejected(r) \/ TakeResponse(r) \/ Connect(r)
               \/ Handshake(r) \/ DialFails(r) \/ Abandon(r) \/ Dispatch(r) \/ StreamEnds(r)
        PROVE  UNCHANGED <<slotVars, installed>>
    BY <2>4 DEF Start, Send, SendRejected, TakeResponse, Connect, Handshake, DialFails, Abandon,
                Dispatch, StreamEnds, connVars
  <2>5. ASSUME NEW c \in Conns, ConnEnds(c) \/ TaskDisconnect(c)
        PROVE  /\ UNCHANGED <<currentConnectionId, installed>>
               /\ state' = state \/ (state = "Connected" /\ state' = "Disconnected")
    BY <2>5 DEF ConnEnds, TaskDisconnect, Disconnect, Holds, LoseSlot, slotVars
  <2>6. CASE ForceDisconnect \/ Dispose \/ Tick \/ UNCHANGED vars
    <3>1. /\ UNCHANGED <<currentConnectionId, installed>>
          /\ \/ state' = state
             \/ state = "Connected" /\ state' = "Disconnected"
             \/ state # "Disposed" /\ state' = "Disposed"
      BY <2>6 DEF ForceDisconnect, LoseSlot, Dispose, Tick, vars, slotVars, connVars
    <3> QED BY <2>0, <3>1, EmptyingIsSlotStep
  <2>7. ASSUME UNCHANGED <<slotVars, installed>>  PROVE [Slot!SlotNext]_Slot!slotVars
    BY <2>0, <2>7, EmptyingIsSlotStep DEF slotVars
  <2> QED BY StepCases, EmptyingIsSlotStep, <2>0, <2>1, <2>2, <2>3, <2>4, <2>5, <2>6, <2>7
          DEF CallerStep
<1> QED BY SpecFreshInv, <1>1, <1>2, PTL DEF Spec, SlotSpec, Slot!SlotSpec
-----------------------------------------------------------------------------
(* No connection is lost to a late task of another *)

\* A disconnect by id that empties the slot was of the connection in it.
LEMMA DisconnectEmpties ==
    ASSUME NEW c, Disconnect(c), state = "Connected", state' = "Disconnected"
    PROVE  currentConnectionId = c
BY DEF Disconnect, Holds, slotVars

\* The slot loses a connection only through what happened on that connection.
THEOREM SlotIsAlwaysLostForCause == Spec => SlotIsLostForCause
<1> DEFINE LostBy(r) ==
             /\ pc[r] = "waiting" /\ pc'[r] # "waiting" /\ conn[r] = currentConnectionId
             /\ \/ stream[r] \in {"canceled", "broken"}
                \/ consecutiveTimeouts = MaxConsecutiveTimeouts - 1
           Cause == \/ ForceDisconnect
                    \/ task[currentConnectionId] = "ended" /\ task'[currentConnectionId] = "done"
                    \/ \E r \in Requests : LostBy(r)
<1>1. TypeInv /\ [Next]_vars => (state = "Connected" /\ state' = "Disconnected" => Cause)
  <2> SUFFICES ASSUME TypeInv, [Next]_vars, state = "Connected", state' = "Disconnected"
               PROVE  Cause
    OBVIOUS
  <2>1. ASSUME NEW r \in Requests, StreamFails(r)  PROVE LostBy(r)
    <3>1. Disconnect(conn[r]) /\ pc[r] = "waiting" /\ stream[r] \in {"canceled", "broken"}
      BY <2>1 DEF StreamFails, DropFailedConn
    <3>2. conn[r] = currentConnectionId
      BY <3>1, DisconnectEmpties
    <3>3. pc'[r] # "waiting"
      BY <2>1 DEF StreamFails, Retry, Goto, Finish, TypeInv, TypeOK
    <3> QED BY <3>1, <3>2, <3>3
  <2>2. ASSUME NEW r \in Requests, RequestTimeout(r)  PROVE LostBy(r)
    <3>1. /\ CountsAgainstSlot(r)
          /\ ~(consecutiveTimeouts + 1 < MaxConsecutiveTimeouts)
      BY <2>2 DEF RequestTimeout, RegisterRequestTimeout, slotVars
    <3>2. consecutiveTimeouts = MaxConsecutiveTimeouts - 1
      BY <3>1, BoundsAssumption DEF TypeInv, TypeOK, ConnectedHasRounds
    <3>3. pc[r] = "waiting" /\ pc'[r] # "waiting" /\ conn[r] = currentConnectionId
      BY <2>2, <3>1 DEF RequestTimeout, Finish, CountsAgainstSlot, Holds, TypeInv, TypeOK
    <3> QED BY <3>2, <3>3
  <2>3. ASSUME NEW c \in Conns, TaskDisconnect(c)  PROVE Cause
    <3>1. c = currentConnectionId
      BY <2>3, DisconnectEmpties DEF TaskDisconnect
    <3> QED BY <2>3, <3>1 DEF TaskDisconnect, TypeInv, TypeOK
  <2>4. ASSUME NEW r \in Requests,
               \/ Start(r) \/ Send(r) \/ SendRejected(r) \/ TakeResponse(r) \/ Connect(r)
               \/ Handshake(r) \/ DialFails(r) \/ Abandon(r) \/ Dispatch(r) \/ StreamEnds(r)
        PROVE  UNCHANGED slotVars
    BY <2>4 DEF Start, Send, SendRejected, TakeResponse, Connect, Handshake, DialFails, Abandon,
                Dispatch, StreamEnds
  <2>5. ASSUME NEW r \in Requests, Store(r)  PROVE state' # "Disconnected"
    BY <2>5 DEF Store, CanStore, slotVars
  <2>6. \A c \in Conns : ConnEnds(c) => UNCHANGED slotVars
    BY DEF ConnEnds
  <2>7. Dispose \/ Tick \/ UNCHANGED vars => state' # "Disconnected"
    BY DEF Dispose, Tick, vars, slotVars
  <2>8. UNCHANGED slotVars => state' # "Disconnected"
    BY DEF slotVars
  <2> QED BY StepCases, <2>1, <2>2, <2>3, <2>4, <2>5, <2>6, <2>7, <2>8 DEF CallerStep
<1>2. TypeInv /\ [Next]_vars => [state = "Connected" /\ state' = "Disconnected" => Cause]_vars
  BY <1>1
<1> QED BY SpecTypeInv, <1>2, PTL DEF Spec, SlotIsLostForCause
-----------------------------------------------------------------------------
(* The metrics and is_alive agree with the slot *)

\* connect_lock is only held across a dial while the slot has no connection, so that a Store
\* never reports a second one.
DialerFindsSlotEmpty == \A q \in Requests : Dialing(q) => state # "Connected"

ReportInv == DialerFindsSlotEmpty /\ ReportsAgree

\* Losing the connection in the slot is reported once.
LEMMA LoseSlotReports ==
    ASSUME TypeInv, ReportsAgree, state = "Connected", LoseSlot
    PROVE  ReportsAgree' /\ state' = "Disconnected"
<1>1. reported = 1 /\ state' = "Disconnected" /\ reported' = reported - 1 /\ isAlive' = FALSE
  BY DEF ReportsAgree, LoseSlot
<1> QED BY <1>1 DEF ReportsAgree

LEMMA DisconnectReports ==
    ASSUME TypeInv, ReportsAgree, NEW c, Disconnect(c)
    PROVE  ReportsAgree' /\ state' \in {state, "Disconnected"}
<1>1. CASE Holds(c)
  BY <1>1, LoseSlotReports DEF Disconnect, Holds
<1>2. CASE ~Holds(c)
  BY <1>2 DEF Disconnect, ReportsAgree, slotVars
<1> QED BY <1>1, <1>2

\* A step that fills no slot and starts no dial keeps the invariant, if it reports what it does.
LEMMA QuietStepReports ==
    ASSUME DialerFindsSlotEmpty, ReportsAgree', state' = "Connected" => state = "Connected",
           \A q \in Requests : Dialing(q)' => Dialing(q)
    PROVE  ReportInv'
BY DEF ReportInv, DialerFindsSlotEmpty

LEMMA CallerReports ==
    ASSUME TypeInv, OneDialer, ReportInv, NEW r \in Requests, Start(r) \/ CallerStep(r) \/ Abandon(r)
    PROVE  ReportInv'
<1>0. pc \in [Requests -> {"idle", "sending", "waiting", "connecting", "dialing", "storing", "done"}]
  BY DEF TypeInv, TypeOK
<1>1. CASE \/ Start(r) \/ Send(r) \/ SendRejected(r) \/ TakeResponse(r) \/ Handshake(r) \/ DialFails(r)
           \/ Abandon(r)
  <2>1. UNCHANGED slotVars
    BY <1>1 DEF Start, Send, SendRejected, TakeResponse, Handshake, DialFails, Abandon
  <2>2. /\ \A q \in Requests \ {r} : pc'[q] = pc[q]
        /\ Dialing(r)' => Dialing(r)
    BY <1>0, <1>1 DEF Start, Send, SendRejected, TakeResponse, Handshake, DialFails, Abandon, Retry,
                      Goto, Finish, Dialing
  <2>3. ReportsAgree'
    BY <2>1 DEF ReportInv, ReportsAgree, slotVars
  <2> QED BY <2>1, <2>2, <2>3, QuietStepReports DEF ReportInv, Dialing, slotVars
<1>2. CASE StreamFails(r)
  <2>1. ReportsAgree' /\ state' \in {state, "Disconnected"}
    BY <1>2, DisconnectReports DEF StreamFails, DropFailedConn, ReportInv
  <2>2. \A q \in Requests : Dialing(q)' => Dialing(q)
    BY <1>0, <1>2 DEF StreamFails, Retry, Goto, Finish, Dialing
  <2> QED BY <2>1, <2>2, QuietStepReports DEF ReportInv
<1>3. CASE RequestTimeout(r)
  <2>1. (state = "Connected" /\ LoseSlot) \/ UNCHANGED slotVars
    BY <1>3 DEF RequestTimeout, RegisterRequestTimeout, CountsAgainstSlot, Holds
  <2>2. ReportsAgree' /\ state' \in {state, "Disconnected"}
    <3>1. CASE state = "Connected" /\ LoseSlot
      BY <3>1, LoseSlotReports DEF ReportInv
    <3>2. CASE UNCHANGED slotVars
      BY <3>2 DEF ReportInv, ReportsAgree, slotVars
    <3> QED BY <2>1, <3>1, <3>2
  <2>3. \A q \in Requests : Dialing(q)' => Dialing(q)
    BY <1>0, <1>3 DEF RequestTimeout, Finish, Dialing
  <2> QED BY <2>2, <2>3, QuietStepReports DEF ReportInv
<1>4. CASE Connect(r)
  <2>1. UNCHANGED slotVars /\ \A q \in Requests \ {r} : pc'[q] = pc[q]
    BY <1>0, <1>4 DEF Connect, Goto, Finish
  <2>2. ReportsAgree' /\ state' = state
    BY <2>1 DEF ReportInv, ReportsAgree, slotVars
  <2>3. CASE state = "Disconnected"
    BY <2>2, <2>3 DEF ReportInv, DialerFindsSlotEmpty
  <2>4. CASE state # "Disconnected"
    <3>1. pc'[r] \in {"sending", "done"}
      BY <1>0, <1>4, <2>4 DEF Connect, MustDial, Goto, Finish
    <3> QED BY <2>1, <2>2, <3>1, QuietStepReports DEF ReportInv, Dialing
  <2> QED BY <2>3, <2>4
<1>5. CASE Store(r)
  <2>1. CASE CanStore
    <3>1. /\ state' = "Connected" /\ isAlive' = TRUE /\ reported' = reported + 1
          /\ pc' = [pc EXCEPT ![r] = "sending"]
      BY <1>5, <2>1 DEF Store, Goto
    <3>2. Dialing(r) /\ state # "Connected"
      BY <1>5 DEF Store, Dialing, ReportInv, DialerFindsSlotEmpty
    <3>3. reported' = 1
      BY <3>1, <3>2 DEF ReportInv, ReportsAgree
    <3>4. \A q \in Requests : ~Dialing(q)'
      BY <1>0, <3>1, <3>2 DEF OneDialer, Dialing
    <3> QED BY <3>1, <3>3, <3>4 DEF ReportInv, ReportsAgree, DialerFindsSlotEmpty
  <2>2. CASE ~CanStore
    <3>1. UNCHANGED slotVars /\ pc' = [pc EXCEPT ![r] = "done"]
      BY <1>5, <2>2 DEF Store, Finish
    <3>2. ReportsAgree' /\ \A q \in Requests : Dialing(q)' => Dialing(q)
      BY <1>0, <3>1 DEF ReportInv, ReportsAgree, Dialing, slotVars
    <3> QED BY <3>1, <3>2, QuietStepReports DEF ReportInv, slotVars
  <2> QED BY <2>1, <2>2
<1> QED BY <1>1, <1>2, <1>3, <1>4, <1>5 DEF CallerStep

LEMMA NextReports == TypeInv /\ OneDialer /\ ReportInv /\ [Next]_vars => ReportInv'
<1> SUFFICES ASSUME TypeInv, OneDialer, ReportInv, [Next]_vars PROVE ReportInv'
  OBVIOUS
<1>1. ASSUME UNCHANGED <<slotVars, pc>>  PROVE ReportInv'
  BY <1>1 DEF ReportInv, ReportsAgree, DialerFindsSlotEmpty, Dialing, slotVars
<1>2. ASSUME NEW r \in Requests, Dispatch(r) \/ StreamEnds(r)  PROVE ReportInv'
  BY <1>1, <1>2 DEF Dispatch, StreamEnds, callerVars
<1>3. ASSUME NEW c \in Conns, ConnEnds(c)  PROVE ReportInv'
  BY <1>1, <1>3 DEF ConnEnds, callerVars
<1>4. ASSUME NEW c \in Conns, TaskDisconnect(c)  PROVE ReportInv'
  <2>1. Disconnect(c) /\ pc' = pc
    BY <1>4 DEF TaskDisconnect, callerVars
  <2>2. ReportsAgree' /\ state' \in {state, "Disconnected"}
    BY <2>1, DisconnectReports DEF ReportInv
  <2> QED BY <2>1, <2>2, QuietStepReports DEF ReportInv, Dialing
<1>5. CASE ForceDisconnect
  <2>1. ReportsAgree' /\ state' = "Disconnected" /\ pc' = pc
    BY <1>5, LoseSlotReports DEF ForceDisconnect, ReportInv, callerVars
  <2> QED BY <2>1, QuietStepReports DEF ReportInv, Dialing
<1>6. CASE Dispose
  <2>1. state' = "Disposed" /\ isAlive' = FALSE /\ reported' = 0 /\ pc' = pc
    BY <1>6 DEF Dispose, LastReport, ReportInv, ReportsAgree, callerVars
  <2>2. ReportsAgree'
    BY <2>1 DEF ReportsAgree
  <2> QED BY <2>1, <2>2, QuietStepReports DEF ReportInv, Dialing
<1>7. CASE Tick \/ UNCHANGED vars
  BY <1>1, <1>7 DEF Tick, vars, callerVars
<1> QED BY StepCases, CallerReports, <1>2, <1>3, <1>4, <1>5, <1>6, <1>7

\* Whatever dials, disconnects, times out or is disposed of in whatever order, is_alive and the
\* metrics say what the slot holds: each connection is reported once and its loss once.
THEOREM ReportsAlwaysAgree == Spec => []ReportsAgree
<1>1. Init => ReportInv
  BY DEF Init, ReportInv, DialerFindsSlotEmpty, ReportsAgree, Dialing
<1>2. FreshInv => TypeInv /\ OneDialer
  BY DEF FreshInv
<1>3. ReportInv => ReportsAgree
  BY DEF ReportInv
<1> QED BY SpecFreshInv, <1>1, <1>2, <1>3, NextReports, PTL DEF Spec
-----------------------------------------------------------------------------
(* Timeouts cost a connection only in full rounds *)

\* The time since the last proof of life covers the rounds counted so far, less the first, and
\* what has passed of the current one; both clocks stop at Horizon.
RoundsTakeTime ==
    state = "Connected" /\ consecutiveTimeouts > 0
      => sinceProof = Horizon \/ sinceProof >= consecutiveTimeouts - 1 + sinceCounted

\* A timeout that counts starts a new round a full timeout after the one before it.
LEMMA CountedRoundTakesTime ==
    ASSUME TypeInv, RoundsTakeTime, NEW r \in Requests, CountsAgainstSlot(r), IsNewRound(r)
    PROVE  sinceProof = Horizon \/ sinceProof >= consecutiveTimeouts
<1>0. /\ consecutiveTimeouts \in Nat /\ sinceCounted \in 0 .. Horizon /\ sinceProof \in 0 .. Horizon
      /\ state = "Connected"
  BY BoundsAssumption DEF TypeInv, TypeOK, CountsAgainstSlot, Holds
<1>1. CASE consecutiveTimeouts = 0
  BY <1>0, <1>1 DEF Horizon
<1>2. CASE consecutiveTimeouts > 0
  <2>1. sinceCounted >= 1
    BY <1>0, <1>2 DEF IsNewRound, Timeout, ShortTimeout, Horizon
  <2> QED BY <1>0, <1>2, <2>1 DEF RoundsTakeTime, Horizon
<1> QED BY <1>0, <1>1, <1>2

LEMMA NextRoundsTakeTime == TypeInv /\ RoundsTakeTime /\ [Next]_vars => RoundsTakeTime'
<1> SUFFICES ASSUME TypeInv, RoundsTakeTime, [Next]_vars PROVE RoundsTakeTime'
  OBVIOUS
<1>0. /\ consecutiveTimeouts \in Nat /\ sinceCounted \in 0 .. Horizon /\ sinceProof \in 0 .. Horizon
  BY BoundsAssumption DEF TypeInv, TypeOK
<1>1. ASSUME UNCHANGED roundVars, state' = "Connected" => state = "Connected"  PROVE RoundsTakeTime'
  BY <1>1 DEF RoundsTakeTime, roundVars
<1>2. ASSUME NEW r \in Requests,
             \/ Start(r) \/ Send(r) \/ SendRejected(r) \/ StreamFails(r) \/ Connect(r)
             \/ Handshake(r) \/ DialFails(r) \/ Abandon(r) \/ Dispatch(r) \/ StreamEnds(r)
      PROVE  RoundsTakeTime'
  <2>1. UNCHANGED roundVars /\ (state' = "Connected" => state = "Connected")
    BY <1>2 DEF Start, Send, SendRejected, StreamFails, DropFailedConn, Disconnect, LoseSlot, Connect,
                Handshake, DialFails, Abandon, Dispatch, StreamEnds, slotVars
  <2> QED BY <1>1, <2>1
<1>3. ASSUME NEW r \in Requests, TakeResponse(r)  PROVE RoundsTakeTime'
  BY <1>3 DEF TakeResponse, RoundsTakeTime
<1>4. ASSUME NEW r \in Requests, RequestTimeout(r)  PROVE RoundsTakeTime'
  <2>1. CASE CountsAgainstSlot(r) /\ IsNewRound(r)
    <3>1. sinceCounted' = 0 /\ consecutiveTimeouts' = consecutiveTimeouts + 1 /\ sinceProof' = sinceProof
      BY <1>4, <2>1 DEF RequestTimeout, RegisterRequestTimeout
    <3> QED BY <1>0, <2>1, <3>1, CountedRoundTakesTime DEF RoundsTakeTime, Horizon
  <2>2. CASE ~(CountsAgainstSlot(r) /\ IsNewRound(r))
    BY <1>1, <1>4, <2>2 DEF RequestTimeout, RegisterRequestTimeout, slotVars
  <2> QED BY <2>1, <2>2
<1>5. ASSUME NEW r \in Requests, Store(r)  PROVE RoundsTakeTime'
  <2>1. CASE CanStore
    BY <1>5, <2>1 DEF Store, RoundsTakeTime
  <2>2. CASE ~CanStore
    <3>1. UNCHANGED roundVars /\ state' = state
      BY <1>5, <2>2 DEF Store, slotVars, roundVars
    <3> QED BY <1>1, <3>1
  <2> QED BY <2>1, <2>2
<1>6. ASSUME NEW c \in Conns, ConnEnds(c) \/ TaskDisconnect(c)  PROVE RoundsTakeTime'
  <2>1. UNCHANGED roundVars /\ (state' = "Connected" => state = "Connected")
    BY <1>6 DEF ConnEnds, TaskDisconnect, Disconnect, LoseSlot, slotVars
  <2> QED BY <1>1, <2>1
<1>7. CASE ForceDisconnect \/ Dispose \/ UNCHANGED vars
  <2>1. UNCHANGED roundVars /\ (state' = "Connected" => state = "Connected")
    BY <1>7 DEF ForceDisconnect, LoseSlot, Dispose, vars, slotVars
  <2> QED BY <1>1, <2>1
<1>8. CASE Tick
  <2>1. consecutiveTimeouts' = consecutiveTimeouts /\ state' = state
    BY <1>8 DEF Tick, slotVars
  <2>2. CASE state = "Connected" /\ consecutiveTimeouts > 0
    <3>1. sinceCounted' = Older(sinceCounted, Horizon) /\ sinceProof' = Older(sinceProof, Horizon)
      BY <1>8, <2>2 DEF Tick
    <3> QED BY <1>0, <2>1, <2>2, <3>1 DEF Older, RoundsTakeTime, Horizon
  <2>3. CASE ~(state = "Connected" /\ consecutiveTimeouts > 0)
    BY <2>1, <2>3 DEF RoundsTakeTime
  <2> QED BY <2>2, <2>3
<1> QED BY StepCases, <1>2, <1>3, <1>4, <1>5, <1>6, <1>7, <1>8 DEF CallerStep

\* A burst of parallel timeouts never costs the connection: the one that does comes that many
\* full timeouts, less one, after the connection was stored or last answered
\* (my_http2_client_inner.rs:131-139).
THEOREM TimeoutDropIsAlwaysEarned == Spec => TimeoutDropIsEarned
<1>1. Init => RoundsTakeTime
  BY DEF Init, RoundsTakeTime
<1>2. TypeInv /\ RoundsTakeTime /\ [Next]_vars
        => [state = "Connected" /\ state' = "Disconnected" /\ consecutiveTimeouts' > consecutiveTimeouts
              => sinceProof >= (MaxConsecutiveTimeouts - 1) * ShortTimeout]_vars
  <2> SUFFICES ASSUME TypeInv, RoundsTakeTime, [Next]_vars, state = "Connected",
                      state' = "Disconnected", consecutiveTimeouts' > consecutiveTimeouts
               PROVE  sinceProof >= MaxConsecutiveTimeouts - 1
    BY BoundsAssumption DEF ShortTimeout
  <2>0. /\ consecutiveTimeouts \in Nat /\ sinceProof \in 0 .. Horizon
        /\ consecutiveTimeouts < MaxConsecutiveTimeouts /\ MaxConsecutiveTimeouts \in 1 .. 3
    BY BoundsAssumption DEF TypeInv, TypeOK, ConnectedHasRounds
  <2>1. ASSUME NEW r \in Requests,
               \/ Start(r) \/ Send(r) \/ SendRejected(r) \/ StreamFails(r) \/ Connect(r) \/ TakeResponse(r)
               \/ Handshake(r) \/ DialFails(r) \/ Abandon(r) \/ Dispatch(r) \/ StreamEnds(r) \/ Store(r)
        PROVE  consecutiveTimeouts' = consecutiveTimeouts \/ consecutiveTimeouts' = 0
    BY <2>1 DEF Start, Send, SendRejected, StreamFails, Connect, TakeResponse, Handshake, DialFails,
                Abandon, Dispatch, StreamEnds, Store, roundVars
  <2>2. ASSUME NEW c \in Conns, ConnEnds(c) \/ TaskDisconnect(c)
        PROVE  consecutiveTimeouts' = consecutiveTimeouts
    BY <2>2 DEF ConnEnds, TaskDisconnect, roundVars
  <2>3. CASE ForceDisconnect \/ Dispose \/ Tick \/ UNCHANGED vars
    BY <2>0, <2>3 DEF ForceDisconnect, Dispose, Tick, vars, roundVars
  <2>4. ASSUME NEW r \in Requests, RequestTimeout(r)
        PROVE  sinceProof >= MaxConsecutiveTimeouts - 1
    <3>1. CountsAgainstSlot(r) /\ IsNewRound(r) /\ consecutiveTimeouts' = consecutiveTimeouts + 1
      BY <2>0, <2>4 DEF RequestTimeout, RegisterRequestTimeout, roundVars
    <3>2. ~(consecutiveTimeouts + 1 < MaxConsecutiveTimeouts)
      BY <2>4, <3>1 DEF RequestTimeout, RegisterRequestTimeout, slotVars
    <3>3. sinceProof = Horizon \/ sinceProof >= consecutiveTimeouts
      BY <3>1, CountedRoundTakesTime
    <3> QED BY <2>0, <3>2, <3>3 DEF Horizon
  <2> QED BY <2>0, <2>1, <2>2, <2>3, <2>4, StepCases DEF CallerStep
<1> QED BY SpecTypeInv, <1>1, <1>2, NextRoundsTakeTime, PTL DEF Spec, TimeoutDropIsEarned
=============================================================================
