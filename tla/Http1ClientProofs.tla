------------------------- MODULE Http1ClientProofs -------------------------
(***************************************************************************)
(* Theorems about Http1Client, for every set of requests, every first      *)
(* connection id and every bound.                                          *)
(***************************************************************************)
EXTENDS Http1Client, TLAPS

\* A read loop about to pop a response it has read has that response on its wire.
ReplyIsOnWire ==
    \A c \in Conns : loop[c] \in {"check", "take"} => reply[c] = "invalid" \/ wire[c] # <<>>

TypeInv == TypeOK /\ ReplyIsOnWire

LEMMA ConnIdsAreNaturals ==
    /\ ConnIds \subseteq Nat
    /\ FirstConnectionId \in Conns
    /\ \A c \in Conns : c + 1 \in Conns \cup {FirstConnectionId + MaxConnections}
BY BoundsAssumption DEF Conns, ConnIds

LEMMA InitTypeInv == Init => TypeInv
<1> SUFFICES ASSUME Init PROVE TypeInv
  OBVIOUS
<1>1. /\ 0 \in ConnIds /\ FirstConnectionId \in Conns
      /\ writer \in [at : {"none", "recv", "flush", "losing", "closed"}, id : ConnIds]
  BY ConnIdsAreNaturals DEF Init, Writer, ConnIds
<1>2. /\ queueToDeliver \in Seq(Requests) /\ queueOfRequests \in Seq(Entries)
      /\ channel \in Seq(Events) /\ Len(channel) <= ChannelCapacity
      /\ wire \in [Conns -> Seq(Requests)]
  BY BoundsAssumption DEF Init
<1> QED BY <1>1, <1>2 DEF Init, TypeInv, TypeOK, ReplyIsOnWire

\* process_disconnect leaves a well-formed FIFO and well-formed results.
LEMMA ProcessDisconnectTypeOK ==
    ASSUME TypeOK, NEW status, ProcessDisconnect(status)
    PROVE  /\ state' = status
           /\ queueToDeliver' \in Seq(Requests)
           /\ queueOfRequests' \in Seq(Entries)
           /\ result' \in [Requests -> Errors \cup {"none", "pending", "Response", "WebsocketUpgrade"}]
<1>1. CASE state = "Connected"
  BY <1>1 DEF TypeOK, ProcessDisconnect, NotifyConnectionLost, Errors
<1>2. CASE state # "Connected"
  BY <1>2 DEF TypeOK, ProcessDisconnect
<1> QED BY <1>1, <1>2

LEMMA PushEventTypeOK ==
    ASSUME TypeOK, NEW e \in Events, PushEvent(e)
    PROVE  channel' \in Seq(Events) /\ Len(channel') <= ChannelCapacity
<1>1. CASE writer.at = "closed" /\ UNCHANGED channel
  BY <1>1 DEF TypeOK
<1>2. CASE HasRoom /\ channel' = Append(channel, e)
  <2>1. channel \in Seq(Events) /\ Len(channel) < ChannelCapacity
    BY <1>2 DEF TypeOK, HasRoom
  <2>2. Append(channel, e) \in Seq(Events) /\ Len(Append(channel, e)) = Len(channel) + 1
    BY <2>1
  <2> QED BY <1>2, <2>1, <2>2, BoundsAssumption
<1> QED BY <1>1, <1>2 DEF PushEvent

LEMMA CallerTypeInv ==
    ASSUME TypeInv, NEW r \in Requests, Start(r) \/ CallerStep(r) \/ RequestTimeout(r) \/ Abandon(r)
    PROVE  TypeInv'
<1> USE RequestsAssumption, BoundsAssumption DEF TypeInv, TypeOK, ReplyIsOnWire, Errors, Replies, vars,
        mutexVars, queueVars, flagVars, writerVars, callerVars, loopVars, clientVars
<1>1. CASE Start(r)  BY <1>1 DEF Start
<1>2. CASE Send(r)  BY <1>2 DEF Send, Entries
<1>3. CASE SendRejected(r)  BY <1>3 DEF SendRejected, Fail, SendError
<1>4. CASE NotifyWriter(r)
  <2>1. Event("Flush", conn[r]) \in Events
    BY DEF Event, Events
  <2> QED BY <1>4, <2>1, PushEventTypeOK DEF NotifyWriter
<1>5. CASE TakeResult(r)  BY <1>5 DEF TakeResult
<1>6. CASE DialTimesOut(r)  BY <1>6 DEF DialTimesOut, Fail
<1>7. CASE DialRefused(r)  BY <1>7 DEF DialRefused, Fail, EnsureWriter, Writer, ConnIds
<1>8. CASE Dial(r)
  <2>1. /\ nextId \in ConnIds /\ nextId' \in Conns \cup {FirstConnectionId + MaxConnections}
        /\ writer' \in [at : {"none", "recv", "flush", "losing", "closed"}, id : ConnIds]
    BY <1>8, ConnIdsAreNaturals DEF Dial, EnsureWriter, Writer, ConnIds
  <2>2. /\ conn' = [conn EXCEPT ![r] = nextId] /\ pc' = [pc EXCEPT ![r] = "installing"]
        /\ UNCHANGED <<mutexVars, queueVars, flagVars, channel, result, loopVars, handles, dropped>>
    BY <1>8 DEF Dial
  <2>3. /\ conn' \in [Requests -> ConnIds]
        /\ pc' \in [Requests -> {"idle", "sending", "notifying", "waiting", "dialing",
                                 "installing", "replacing", "upgrading", "done"}]
    BY <2>1, <2>2
  <2> QED BY <2>1, <2>2, <2>3
<1>9. CASE Install(r)
  <2>1. ProcessDisconnect("Connected")
    BY <1>9 DEF Install
  <2>2. /\ state' = "Connected"
        /\ queueToDeliver' \in Seq(Requests)
        /\ queueOfRequests' \in Seq(Entries)
        /\ result' \in [Requests -> Errors \cup {"none", "pending", "Response", "WebsocketUpgrade"}]
    BY <2>1, ProcessDisconnectTypeOK
  <2>3. /\ stream' = conn[r] /\ connectionId' = conn[r] /\ lock' = "free"
        /\ writeStreamTaken' = FALSE /\ waitingWsUpgrade' = FALSE
        /\ loop' = [loop EXCEPT ![conn[r]] = "top"]
        /\ pc' = [pc EXCEPT ![r] = "sending"]
        /\ UNCHANGED <<delivered, outOfStep, writerVars, conn, reply, wire, clientVars>>
    BY <1>9 DEF Install
  <2> QED BY <2>2, <2>3
<1>10. CASE Upgrade(r)
  <2>1. handles' \subseteq ConnIds /\ outOfStep' \in BOOLEAN
    BY <1>10 DEF Upgrade
  <2>2. /\ state' = "UpgradedToWebSocket" /\ writeStreamTaken' = FALSE /\ queueToDeliver' = <<>>
        /\ pc' = [pc EXCEPT ![r] = "done"]
        /\ UNCHANGED <<stream, lock, queueOfRequests, delivered, flagVars, writerVars, conn, result,
                       loopVars, nextId, dropped>>
    BY <1>10 DEF Upgrade
  <2>3. ReplyIsOnWire'
    BY <2>2
  <2>4. pc' \in [Requests -> {"idle", "sending", "notifying", "waiting", "dialing",
                              "installing", "replacing", "upgrading", "done"}]
    BY <2>2
  <2>5. queueToDeliver' \in Seq(Requests)
    BY <2>2
  <2>6. TypeOK'
    BY <2>1, <2>2, <2>4, <2>5
  <2> QED BY <2>3, <2>6
<1>11. CASE UpgradeRejected(r)  BY <1>11 DEF UpgradeRejected, UpgradeError
<1>12. CASE RequestTimeout(r)  BY <1>12 DEF RequestTimeout, Fail
<1>13. CASE Abandon(r)  BY <1>13 DEF Abandon
<1>14. CASE Replace(r)  BY <1>14 DEF Replace
<1> QED BY <1>1, <1>2, <1>3, <1>4, <1>5, <1>6, <1>7, <1>8, <1>9, <1>10, <1>11, <1>12, <1>13, <1>14
   DEF CallerStep

LEMMA WriterTypeInv ==
    ASSUME TypeInv, WriterStep
    PROVE  TypeInv'
<1> USE DEF TypeInv, TypeOK, ReplyIsOnWire, Errors, Replies, vars,
        mutexVars, queueVars, flagVars, writerVars, callerVars, loopVars, clientVars, Writer
<1>0. 0 \in ConnIds
  BY DEF ConnIds
<1>1. CASE WriterRecv
  <2>1. /\ Head(channel) \in Events
        /\ Tail(channel) \in Seq(Events)
        /\ Len(Tail(channel)) <= ChannelCapacity
    BY <1>1, BoundsAssumption DEF WriterRecv
  <2>2. writer' \in [at : {"closed", "flush"}, id : ConnIds]
    BY <1>0, <1>1, <2>1 DEF WriterRecv, Events
  <2> QED BY <1>1, <2>1, <2>2 DEF WriterRecv
<1>2. CASE FlushBegin
  <2>1. \A s, t \in Seq(Requests) : s \o t \in Seq(Requests) /\ (s # <<>> => s \o t # <<>>)
    OBVIOUS
  <2>2. /\ wire' \in [Conns -> Seq(Requests)]
        /\ \A c \in Conns : wire[c] # <<>> => wire'[c] # <<>>
    BY <1>2, <2>1 DEF FlushBegin
  <2> QED BY <1>2, <2>2 DEF FlushBegin
<1>3. CASE FlushNothing
  BY <1>0, <1>3 DEF FlushNothing
<1>4. CASE FlushEnds
  BY <1>0, <1>4 DEF FlushEnds
<1>5. CASE FlushFails
  BY <1>0, <1>5 DEF FlushFails
<1>6. CASE FlushPanics
  <2>1. <<>> \in Seq(Events) /\ Len(<<>>) <= ChannelCapacity /\ <<>> \in Seq(Requests)
    BY BoundsAssumption
  <2> QED BY <1>0, <1>6, <2>1 DEF FlushPanics
<1> QED BY <1>1, <1>2, <1>3, <1>4, <1>5, <1>6 DEF WriterStep

\* A response that is consumed leaves a well-formed wire.
LEMMA ConsumeTypeOK ==
    ASSUME TypeInv, NEW c \in Conns, loop[c] \in {"check", "take"}, Consume(c)
    PROVE  /\ wire' \in [Conns -> Seq(Requests)]
           /\ reply' \in [Conns -> Replies \cup {"none"}]
           /\ \A d \in Conns \ {c} : wire'[d] = wire[d] /\ reply'[d] = reply[d]
<1>1. reply[c] # "invalid" => Tail(wire[c]) \in Seq(Requests)
  BY DEF TypeInv, TypeOK, ReplyIsOnWire
<1> QED BY <1>1 DEF TypeInv, TypeOK, Consume

\* What a pop does to the FIFO, the results and the history is well formed.
LEMMA DeliverTypeOK ==
    ASSUME TypeInv, NEW c \in Conns, loop[c] = "take", queueOfRequests # <<>>,
           Deliver(c, Head(queueOfRequests))
    PROVE  /\ queueOfRequests' \in Seq(Entries)
           /\ result' \in [Requests -> Errors \cup {"none", "pending", "Response", "WebsocketUpgrade"}]
           /\ delivered' \subseteq [to : Requests, sentOn : ConnIds, of : Requests, from : Conns]
           /\ outOfStep' \in BOOLEAN
<1> DEFINE e == Head(queueOfRequests)
<1>1. e \in Entries /\ Tail(queueOfRequests) \in Seq(Entries)
  BY DEF TypeInv, TypeOK
<1>2. e.req \in Requests /\ e.conn \in ConnIds
  BY <1>1 DEF Entries
<1>3. Outcome(reply[c]) \in {"WebsocketUpgrade", "CanNotExecuteRequest", "Response"}
  BY DEF Outcome
<1>4. reply[c] # "invalid" => Head(wire[c]) \in Requests
  BY DEF TypeInv, TypeOK, ReplyIsOnWire
<1>5. result' \in [Requests -> Errors \cup {"none", "pending", "Response", "WebsocketUpgrade"}]
  BY <1>2, <1>3 DEF TypeInv, TypeOK, Deliver, Errors
<1>6. delivered' \subseteq [to : Requests, sentOn : ConnIds, of : Requests, from : Conns]
  BY <1>2, <1>4 DEF TypeInv, TypeOK, Deliver
<1>7. outOfStep' \in BOOLEAN
  BY DEF Deliver
<1> QED BY <1>1, <1>5, <1>6, <1>7 DEF Deliver

LEMMA LoopTypeInv ==
    ASSUME TypeInv, NEW c \in Conns, LoopStep(c) \/ HandleDisconnect(c)
    PROVE  TypeInv'
<1> USE DEF TypeInv, TypeOK, ReplyIsOnWire, Errors, Replies, vars,
        mutexVars, queueVars, flagVars, writerVars, callerVars, loopVars, clientVars, LoopGoes
<1>0. 0 \in ConnIds
  BY DEF ConnIds
<1>1. CASE LoopCheck(c)
  BY <1>1 DEF LoopCheck
<1>2. CASE \E kind \in Replies : ReadReply(c, kind)
  BY <1>2 DEF ReadReply
<1>3. CASE ReadInvalid(c)
  BY <1>3 DEF ReadInvalid
<1>4. CASE ReadFails(c)
  BY <1>4 DEF ReadFails
<1>5. CASE BodyEnds(c)
  BY <1>5 DEF BodyEnds
<1>6. CASE PopCheck(c)
  <2>1. CASE IsMyConnectionId(c)
    <3>1. /\ loop' = [loop EXCEPT ![c] = "take"]
          /\ UNCHANGED <<mutexVars, queueVars, flagVars, writerVars, callerVars, reply, wire, clientVars>>
      BY <1>6, <2>1 DEF PopCheck
    <3> QED BY <1>6, <3>1 DEF PopCheck
  <2>2. CASE ~IsMyConnectionId(c)
    <3>1. AfterPop(reply[c], FALSE) \in {"disconnect", "stopped", "top", "body"}
      BY DEF AfterPop
    <3>2. Consume(c) /\ loop[c] = "check"
      BY <1>6, <2>2 DEF PopCheck
    <3>3. /\ loop' = [loop EXCEPT ![c] = AfterPop(reply[c], FALSE)]
          /\ UNCHANGED <<mutexVars, queueVars, flagVars, writerVars, callerVars, clientVars>>
      BY <1>6, <2>2 DEF PopCheck
    <3>4. /\ wire' \in [Conns -> Seq(Requests)]
          /\ reply' \in [Conns -> Replies \cup {"none"}]
          /\ \A d \in Conns \ {c} : wire'[d] = wire[d] /\ reply'[d] = reply[d]
      BY <3>2, ConsumeTypeOK
    <3>5. /\ loop'[c] \in {"disconnect", "stopped", "top", "body"}
          /\ \A d \in Conns \ {c} : loop'[d] = loop[d]
          /\ loop' \in [Conns -> {"none", "top", "read", "check", "take", "body", "disconnect",
                               "disconnecting", "stopped", "close", "closing", "ended"}]
      BY <3>1, <3>3
    <3>6. ReplyIsOnWire'
      <4>1. ReplyIsOnWire
        OBVIOUS
      <4> QED BY ONLY <3>4, <3>5, <4>1 DEF ReplyIsOnWire
    <3>7. /\ loop' \in [Conns -> {"none", "top", "read", "check", "take", "body", "disconnect",
                               "disconnecting", "stopped", "close", "closing", "ended"}]
          /\ wire' \in [Conns -> Seq(Requests)]
          /\ reply' \in [Conns -> Replies \cup {"none"}]
          /\ UNCHANGED <<mutexVars, queueVars, flagVars, writerVars, callerVars, clientVars>>
      BY ONLY <3>3, <3>4, <3>5
    <3> QED BY <3>6, <3>7
  <2> QED BY <2>1, <2>2
<1>7. CASE PopTake(c)
  <2> DEFINE next == AfterPop(reply[c], queueOfRequests # <<>> /\ ~Awaited(Head(queueOfRequests)))
  <2>1. next \in {"disconnect", "stopped", "top", "body"}
    BY DEF AfterPop
  <2>2. Consume(c) /\ loop[c] = "take"
    BY <1>7 DEF PopTake
  <2>3. /\ wire' \in [Conns -> Seq(Requests)]
        /\ reply' \in [Conns -> Replies \cup {"none"}]
        /\ \A d \in Conns \ {c} : wire'[d] = wire[d] /\ reply'[d] = reply[d]
    BY <2>2, ConsumeTypeOK
  <2>4. /\ queueOfRequests' \in Seq(Entries)
        /\ result' \in [Requests -> Errors \cup {"none", "pending", "Response", "WebsocketUpgrade"}]
        /\ delivered' \subseteq [to : Requests, sentOn : ConnIds, of : Requests, from : Conns]
        /\ outOfStep' \in BOOLEAN
    <3>1. CASE queueOfRequests = <<>>
      BY <1>7, <3>1 DEF PopTake
    <3>2. CASE queueOfRequests # <<>>
      <4>1. Deliver(c, Head(queueOfRequests))
        BY <1>7, <3>2 DEF PopTake
      <4> QED BY <2>2, <3>2, <4>1, DeliverTypeOK
    <3> QED BY <3>1, <3>2
  <2>5. /\ loop' = [loop EXCEPT ![c] = next]
        /\ UNCHANGED <<mutexVars, connectionId, writerVars, pc, conn, clientVars>>
        /\ waitingWsUpgrade' \in BOOLEAN
    BY <1>7 DEF PopTake, LoopGoes
  <2>6. /\ loop'[c] \in {"disconnect", "stopped", "top", "body"}
        /\ \A d \in Conns \ {c} : loop'[d] = loop[d]
        /\ loop' \in [Conns -> {"none", "top", "read", "check", "take", "body", "disconnect",
                               "disconnecting", "stopped", "close", "closing", "ended"}]
    BY <2>1, <2>5
  <2> HIDE DEF next
  <2>7. ReplyIsOnWire'
    <3>1. ReplyIsOnWire
      OBVIOUS
    <3> QED BY ONLY <2>3, <2>6, <3>1 DEF ReplyIsOnWire
  <2> QED BY <2>3, <2>4, <2>5, <2>6, <2>7
<1>8. CASE LoopDisconnect(c)
  <2>1. CASE CanDisconnect(c)
    <3>1. /\ loop' = [loop EXCEPT ![c] = "disconnecting"]
          /\ wire' = [wire EXCEPT ![c] = <<>>]
          /\ connectionId' = 0 /\ lock' = "lose"
          /\ UNCHANGED <<state, stream, writeStreamTaken, queueToDeliver, waitingWsUpgrade, queueVars, writerVars,
                         callerVars, reply, clientVars>>
      BY <1>8, <2>1 DEF LoopDisconnect, BeginDisconnect, DropReadHalf
    <3> QED BY <1>0, <3>1
  <2>2. CASE ~CanDisconnect(c)
    <3>1. /\ loop' = [loop EXCEPT ![c] = "stopped"]
          /\ wire' = [wire EXCEPT ![c] = <<>>]
          /\ UNCHANGED <<mutexVars, flagVars, queueVars, writerVars, callerVars, reply, clientVars>>
      BY <1>8, <2>2 DEF LoopDisconnect, DropReadHalf
    <3> QED BY <3>1
  <2> QED BY <2>1, <2>2
<1>9. CASE LoopStopped(c)
  BY <1>9 DEF LoopStopped, DropReadHalf
<1>10. CASE LoopClose(c)
  <2>1. CASE CanClose(c)
    <3>1. /\ loop' = [loop EXCEPT ![c] = "closing"]
          /\ connectionId' = 0 /\ lock' = "lose"
          /\ UNCHANGED <<state, stream, writeStreamTaken, queueToDeliver, waitingWsUpgrade, queueVars,
                         writerVars, callerVars, reply, wire, clientVars>>
      BY <1>10, <2>1 DEF LoopClose, BeginDisconnect
    <3> QED BY <1>0, <3>1
  <2>2. CASE ~CanClose(c)
    <3>1. /\ loop' = [loop EXCEPT ![c] = "ended"]
          /\ UNCHANGED <<mutexVars, flagVars, queueVars, writerVars, callerVars, reply, wire, clientVars>>
      BY <1>10, <2>2 DEF LoopClose
    <3> QED BY <3>1
  <2> QED BY <2>1, <2>2
<1>11. CASE HandleDisconnect(c)
  BY <1>0, <1>11 DEF HandleDisconnect, BeginDisconnect
<1> QED
  BY <1>1, <1>2, <1>3, <1>4, <1>5, <1>6, <1>7, <1>8, <1>9, <1>10, <1>11 DEF LoopStep

LEMMA DisposeTypeInv ==
    ASSUME TypeInv, DropClient \/ DisposeStep
    PROVE  TypeInv'
<1> USE DEF TypeInv, TypeOK, ReplyIsOnWire, Errors, Replies, vars,
        mutexVars, queueVars, flagVars, writerVars, callerVars, loopVars, clientVars
<1>0. 0 \in ConnIds
  BY DEF ConnIds
<1>1. CASE DropClient
  BY <1>1 DEF DropClient
<1>2. CASE DisposeBegin
  BY <1>0, <1>2 DEF DisposeBegin
<1>3. CASE FinishDisconnect
  BY <1>0, <1>3, ProcessDisconnectTypeOK DEF FinishDisconnect, Writer
<1>4. CASE SendClose
  <2>1. Event("Close", 0) \in Events
    BY <1>0 DEF Event, Events
  <2>2. channel' \in Seq(Events) /\ Len(channel') <= ChannelCapacity
    BY <1>4, <2>1, PushEventTypeOK DEF SendClose
  <2> QED BY <1>4, <2>2 DEF SendClose
<1> QED BY <1>1, <1>2, <1>3, <1>4 DEF DisposeStep

LEMMA NextTypeInv == TypeInv /\ [Next]_vars => TypeInv'
<1> SUFFICES ASSUME TypeInv, [Next]_vars PROVE TypeInv'
  OBVIOUS
<1>1. CASE Terminated \/ UNCHANGED vars
  BY <1>1 DEF Terminated, TypeInv, TypeOK, ReplyIsOnWire, vars, mutexVars, queueVars, flagVars,
              writerVars, callerVars, loopVars, clientVars
<1> QED BY <1>1, CallerTypeInv, WriterTypeInv, LoopTypeInv, DisposeTypeInv DEF Next

\* The client's variables keep their types: no index, identifier or event leaves its range, the
\* channel never holds more than its capacity, and no response is popped from an empty wire.
THEOREM TypeCorrect == Spec => []TypeOK
<1>1. Spec => []TypeInv
  BY InitTypeInv, NextTypeInv, PTL DEF Spec
<1> QED BY <1>1, PTL DEF TypeInv
-----------------------------------------------------------------------------
(* The mutex and the connection in the slot *)

\* A sender blocked on the channel and a caller that shuts a connection down hold the mutex.
CallerHoldsLock ==
    \A r \in Requests :
        /\ pc[r] = "notifying" => lock = "notify" /\ \A q \in Requests : pc[q] = "notifying" => q = r
        /\ pc[r] = "replacing" => lock = "replace" /\ \A q \in Requests : pc[q] = "replacing" => q = r

SlotInv == CallerHoldsLock /\ StreamIsCurrent

LEMMA CallerSlotInv ==
    ASSUME TypeInv, SlotInv, NEW r \in Requests, Start(r) \/ CallerStep(r) \/ RequestTimeout(r) \/ Abandon(r)
    PROVE  SlotInv'
<1> USE DEF SlotInv, CallerHoldsLock, StreamIsCurrent, TypeInv, TypeOK, vars,
        mutexVars, queueVars, flagVars, writerVars, callerVars, loopVars, clientVars
<1>1. CASE Start(r)  BY <1>1 DEF Start
<1>2. CASE Send(r)  BY <1>2 DEF Send
<1>3. CASE SendRejected(r)  BY <1>3 DEF SendRejected, Fail
<1>4. CASE NotifyWriter(r)  BY <1>4 DEF NotifyWriter
<1>5. CASE TakeResult(r)  BY <1>5 DEF TakeResult
<1>6. CASE DialTimesOut(r)  BY <1>6 DEF DialTimesOut, Fail
<1>7. CASE DialRefused(r)  BY <1>7 DEF DialRefused, Fail
<1>8. CASE Dial(r)  BY <1>8 DEF Dial
<1>9. CASE Install(r)  BY <1>9 DEF Install, ProcessDisconnect
<1>10. CASE Upgrade(r)  BY <1>10 DEF Upgrade, CanUpgrade
<1>11. CASE UpgradeRejected(r)  BY <1>11 DEF UpgradeRejected
<1>12. CASE RequestTimeout(r)  BY <1>12 DEF RequestTimeout, Fail
<1>13. CASE Abandon(r)  BY <1>13 DEF Abandon
<1>14. CASE Replace(r)  BY <1>14 DEF Replace
<1> QED BY <1>1, <1>2, <1>3, <1>4, <1>5, <1>6, <1>7, <1>8, <1>9, <1>10, <1>11, <1>12, <1>13, <1>14
   DEF CallerStep

LEMMA WriterSlotInv ==
    ASSUME TypeInv, SlotInv, WriterStep
    PROVE  SlotInv'
<1> USE DEF SlotInv, CallerHoldsLock, StreamIsCurrent,
        mutexVars, queueVars, flagVars, writerVars, callerVars, loopVars, clientVars
<1>1. CASE WriterRecv  BY <1>1 DEF WriterRecv
<1>2. CASE FlushBegin  BY <1>2 DEF FlushBegin
<1>3. CASE FlushNothing  BY <1>3 DEF FlushNothing
<1>4. CASE FlushEnds  BY <1>4 DEF FlushEnds
<1>5. CASE FlushFails  BY <1>5 DEF FlushFails
<1>6. CASE FlushPanics  BY <1>6 DEF FlushPanics
<1> QED BY <1>1, <1>2, <1>3, <1>4, <1>5, <1>6 DEF WriterStep

LEMMA LoopSlotInv ==
    ASSUME TypeInv, SlotInv, NEW c \in Conns, LoopStep(c) \/ HandleDisconnect(c)
    PROVE  SlotInv'
<1> USE DEF SlotInv, CallerHoldsLock, StreamIsCurrent,
        mutexVars, queueVars, flagVars, writerVars, callerVars, loopVars, clientVars
<1>1. CASE LoopCheck(c)  BY <1>1 DEF LoopCheck
<1>2. CASE \E kind \in Replies : ReadReply(c, kind)  BY <1>2 DEF ReadReply
<1>3. CASE ReadInvalid(c)  BY <1>3 DEF ReadInvalid
<1>4. CASE ReadFails(c)  BY <1>4 DEF ReadFails
<1>5. CASE BodyEnds(c)  BY <1>5 DEF BodyEnds
<1>6. CASE PopCheck(c)  BY <1>6 DEF PopCheck
<1>7. CASE PopTake(c)  BY <1>7 DEF PopTake
<1>8. CASE LoopDisconnect(c)  BY <1>8 DEF LoopDisconnect, BeginDisconnect
<1>9. CASE LoopStopped(c)  BY <1>9 DEF LoopStopped
<1>10. CASE LoopClose(c)  BY <1>10 DEF LoopClose, BeginDisconnect
<1>11. CASE HandleDisconnect(c)  BY <1>11 DEF HandleDisconnect, BeginDisconnect
<1> QED
  BY <1>1, <1>2, <1>3, <1>4, <1>5, <1>6, <1>7, <1>8, <1>9, <1>10, <1>11 DEF LoopStep

LEMMA DisposeSlotInv ==
    ASSUME TypeInv, SlotInv, DropClient \/ DisposeStep
    PROVE  SlotInv'
<1> USE DEF SlotInv, CallerHoldsLock, StreamIsCurrent,
        mutexVars, queueVars, flagVars, writerVars, callerVars, loopVars, clientVars
<1>1. CASE DropClient  BY <1>1 DEF DropClient
<1>2. CASE DisposeBegin  BY <1>2 DEF DisposeBegin
<1>3. CASE FinishDisconnect  BY <1>3 DEF FinishDisconnect, ProcessDisconnect
<1>4. CASE SendClose  BY <1>4 DEF SendClose
<1> QED BY <1>1, <1>2, <1>3, <1>4 DEF DisposeStep

LEMMA NextSlotInv == TypeInv /\ SlotInv /\ [Next]_vars => SlotInv'
<1> SUFFICES ASSUME TypeInv, SlotInv, [Next]_vars PROVE SlotInv'
  OBVIOUS
<1>1. CASE Terminated \/ UNCHANGED vars
  BY <1>1 DEF Terminated, SlotInv, CallerHoldsLock, StreamIsCurrent, vars, mutexVars, queueVars,
              flagVars, writerVars, callerVars, loopVars, clientVars
<1> QED BY <1>1, CallerSlotInv, WriterSlotInv, LoopSlotInv, DisposeSlotInv DEF Next

\* The id that every task compares with its own is the id of the connection the slot holds, so
\* that a task which passed the comparison under the lock acts on its own connection.
THEOREM StreamIsAlwaysCurrent == Spec => []StreamIsCurrent
<1>1. Init => TypeInv /\ SlotInv
  BY InitTypeInv DEF Init, SlotInv, CallerHoldsLock, StreamIsCurrent
<1>2. Spec => [](TypeInv /\ SlotInv)
  BY <1>1, NextTypeInv, NextSlotInv, PTL DEF Spec
<1> QED BY <1>2, PTL DEF SlotInv
-----------------------------------------------------------------------------
(* No caller is forgotten *)

\* The awaiter of a caller is unresolved only while the caller is in send or waits on it, and
\* meanwhile its entry, in Entry(r), is in the FIFO.
PendingCallersWait == \A r \in Requests : Pending(r) => pc[r] \in {"notifying", "waiting"}

WaitInv == PendingCallersWait /\ WaitersAreTracked

LEMMA RangeOfAppend ==
    ASSUME NEW S, NEW s \in Seq(S), NEW e \in S
    PROVE  \A x : x \in Range(s) \/ x = e => x \in Range(Append(s, e))
<1>1. \A i \in DOMAIN s : i \in DOMAIN Append(s, e) /\ Append(s, e)[i] = s[i]
  OBVIOUS
<1>2. Len(s) + 1 \in DOMAIN Append(s, e) /\ Append(s, e)[Len(s) + 1] = e
  OBVIOUS
<1> QED BY <1>1, <1>2 DEF Range

LEMMA RangeOfTail ==
    ASSUME NEW S, NEW s \in Seq(S), s # <<>>
    PROVE  \A x \in Range(s) : x = Head(s) \/ x \in Range(Tail(s))
<1> SUFFICES ASSUME NEW i \in DOMAIN s, i # 1
             PROVE  s[i] \in Range(Tail(s))
  BY DEF Range
<1>1. i - 1 \in DOMAIN Tail(s) /\ Tail(s)[i - 1] = s[i]
  OBVIOUS
<1> QED BY <1>1 DEF Range

\* Once the callers in the FIFO were told that the connection is lost, nobody is left waiting.
LEMMA NotifiedCallersAreNotPending ==
    ASSUME TypeOK, WaitersAreTracked, NotifyConnectionLost
    PROVE  \A r \in Requests : result'[r] # "pending"
<1> SUFFICES ASSUME NEW r \in Requests PROVE result'[r] # "pending"
  OBVIOUS
<1>1. CASE Pending(r)
  <2>1. WaitsInQueue(r)
    BY <1>1 DEF WaitersAreTracked, WaitsInQueue, Awaited, Pending
  <2> QED BY <2>1 DEF NotifyConnectionLost
<1>2. CASE ~Pending(r)
  BY <1>2 DEF Pending, NotifyConnectionLost
<1> QED BY <1>1, <1>2

\* Giving the front entry its response takes nobody else's entry away.
LEMMA DeliverKeepsOthers ==
    ASSUME TypeOK, WaitersAreTracked, NEW c \in Conns, queueOfRequests # <<>>,
           Deliver(c, Head(queueOfRequests)), NEW r \in Requests, result'[r] = "pending"
    PROVE  Pending(r) /\ [req |-> r, conn |-> conn[r]] \in Range(queueOfRequests')
<1> DEFINE e == Head(queueOfRequests)
           own == [req |-> r, conn |-> conn[r]]
<1>1. e \in Entries
  BY DEF TypeOK
<1>2. Outcome(reply[c]) # "pending"
  BY DEF Outcome
<1>3. Pending(r) /\ ~(Awaited(e) /\ e.req = r)
  BY <1>1, <1>2 DEF Deliver, Pending, TypeOK, Entries
<1>4. own # e
  BY <1>3 DEF Pending, Awaited
<1>5. own \in Range(queueOfRequests)
  BY <1>3 DEF WaitersAreTracked
<1>6. own \in Range(Tail(queueOfRequests))
  BY <1>4, <1>5, RangeOfTail DEF TypeOK
<1> QED BY <1>3, <1>6 DEF Deliver

LEMMA ProcessDisconnectWaitInv ==
    ASSUME TypeOK, WaitInv, NEW status, ProcessDisconnect(status), conn' = conn,
           \A r \in Requests : Pending(r) => pc'[r] = pc[r]
    PROVE  WaitInv'
<1>1. CASE state = "Connected"
  BY <1>1, NotifiedCallersAreNotPending
     DEF ProcessDisconnect, WaitInv, PendingCallersWait, WaitersAreTracked, Pending
<1>2. CASE state # "Connected"
  BY <1>2 DEF ProcessDisconnect, WaitInv, PendingCallersWait, WaitersAreTracked, Pending
<1> QED BY <1>1, <1>2

LEMMA CallerWaitInv ==
    ASSUME TypeInv, WaitInv, NEW r \in Requests, Start(r) \/ CallerStep(r) \/ RequestTimeout(r) \/ Abandon(r)
    PROVE  WaitInv'
<1> USE DEF WaitInv, PendingCallersWait, WaitersAreTracked, Pending, TypeInv, TypeOK, vars,
        mutexVars, queueVars, flagVars, writerVars, callerVars, loopVars, clientVars
<1>1. CASE Start(r)  BY <1>1 DEF Start
<1>2. CASE Send(r)
  <2> DEFINE e == [req |-> r, conn |-> connectionId]
  <2>1. e \in Entries
    BY DEF Entries
  <2>2. \A x : x \in Range(queueOfRequests) \/ x = e => x \in Range(queueOfRequests')
    BY <1>2, <2>1, RangeOfAppend DEF Send
  <2>3. /\ conn' = [conn EXCEPT ![r] = connectionId]
        /\ result' = [result EXCEPT ![r] = "pending"]
        /\ pc' = [pc EXCEPT ![r] = "notifying"]
    BY <1>2 DEF Send
  <2> QED BY <2>2, <2>3
<1>3. CASE SendRejected(r)  BY <1>3 DEF SendRejected, Fail, SendError
<1>4. CASE NotifyWriter(r)  BY <1>4 DEF NotifyWriter
<1>5. CASE TakeResult(r)  BY <1>5 DEF TakeResult
<1>6. CASE DialTimesOut(r)  BY <1>6 DEF DialTimesOut, Fail
<1>7. CASE DialRefused(r)  BY <1>7 DEF DialRefused, Fail
<1>8. CASE Dial(r)  BY <1>8 DEF Dial
<1>9. CASE Install(r)
  <2>1. ProcessDisconnect("Connected") /\ conn' = conn
    BY <1>9 DEF Install
  <2>2. \A q \in Requests : Pending(q) => pc'[q] = pc[q]
    BY <1>9 DEF Install
  <2> QED BY <2>1, <2>2, ProcessDisconnectWaitInv
<1>10. CASE Upgrade(r)  BY <1>10 DEF Upgrade
<1>11. CASE UpgradeRejected(r)  BY <1>11 DEF UpgradeRejected, UpgradeError
<1>12. CASE RequestTimeout(r)  BY <1>12 DEF RequestTimeout, Fail
<1>13. CASE Abandon(r)  BY <1>13 DEF Abandon
<1>14. CASE Replace(r)  BY <1>14 DEF Replace
<1> QED BY <1>1, <1>2, <1>3, <1>4, <1>5, <1>6, <1>7, <1>8, <1>9, <1>10, <1>11, <1>12, <1>13, <1>14
   DEF CallerStep

LEMMA WriterWaitInv ==
    ASSUME WaitInv, WriterStep
    PROVE  WaitInv'
BY DEF WaitInv, PendingCallersWait, WaitersAreTracked, Pending, WriterStep, WriterRecv, FlushBegin,
       FlushNothing, FlushEnds, FlushFails, FlushPanics, mutexVars, queueVars, callerVars

LEMMA LoopWaitInv ==
    ASSUME TypeInv, WaitInv, NEW c \in Conns, LoopStep(c) \/ HandleDisconnect(c)
    PROVE  WaitInv'
<1> USE DEF WaitInv, PendingCallersWait, WaitersAreTracked, Pending, queueVars, callerVars
<1>1. CASE PopTake(c)
  <2>1. CASE queueOfRequests = <<>>
    BY <1>1, <2>1 DEF PopTake
  <2>2. CASE queueOfRequests # <<>>
    <3>1. Deliver(c, Head(queueOfRequests)) /\ conn' = conn /\ pc' = pc
      BY <1>1, <2>2 DEF PopTake
    <3> QED BY <2>2, <3>1, DeliverKeepsOthers DEF TypeInv
  <2> QED BY <2>1, <2>2
<1>2. CASE ~PopTake(c)
  BY <1>2 DEF LoopStep, LoopCheck, ReadReply, ReadInvalid, ReadFails, BodyEnds, PopCheck,
              LoopDisconnect, LoopStopped, LoopClose, HandleDisconnect
<1> QED BY <1>1, <1>2

LEMMA DisposeWaitInv ==
    ASSUME TypeInv, WaitInv, DropClient \/ DisposeStep
    PROVE  WaitInv'
<1>1. CASE FinishDisconnect
  <2>1. PICK status : ProcessDisconnect(status) /\ conn' = conn /\ pc' = pc
    BY <1>1 DEF FinishDisconnect
  <2> QED BY <2>1, ProcessDisconnectWaitInv DEF TypeInv
<1>2. CASE ~FinishDisconnect
  BY <1>2 DEF DropClient, DisposeStep, DisposeBegin, SendClose, WaitInv, PendingCallersWait,
              WaitersAreTracked, Pending, queueVars, callerVars
<1> QED BY <1>1, <1>2

LEMMA NextWaitInv == TypeInv /\ WaitInv /\ [Next]_vars => WaitInv'
<1> SUFFICES ASSUME TypeInv, WaitInv, [Next]_vars PROVE WaitInv'
  OBVIOUS
<1>1. CASE Terminated \/ UNCHANGED vars
  BY <1>1 DEF Terminated, WaitInv, PendingCallersWait, WaitersAreTracked, Pending, vars,
              queueVars, callerVars
<1> QED BY <1>1, CallerWaitInv, WriterWaitInv, LoopWaitInv, DisposeWaitInv DEF Next

\* Every caller that waits can still be reached: whatever the read loops, the reconnects, the
\* time-outs and the upgrades do, its own entry is in the FIFO.
THEOREM WaitersAreAlwaysTracked == Spec => []WaitersAreTracked
<1>1. Init => TypeInv /\ WaitInv
  BY InitTypeInv DEF Init, WaitInv, PendingCallersWait, WaitersAreTracked, Pending
<1>2. Spec => [](TypeInv /\ WaitInv)
  BY <1>1, NextTypeInv, NextWaitInv, PTL DEF Spec
<1> QED BY <1>2, PTL DEF WaitInv
-----------------------------------------------------------------------------
(* Nobody waits on a connection that was lost *)

\* A caller that asks for its WebSocket was told so.
UpgradesWereAnswered ==
    \A r \in Requests : pc[r] = "upgrading" => result[r] = "WebsocketUpgrade"

LostInv == UpgradesWereAnswered /\ NobodyWaitsOnLostConnection

LEMMA ProcessDisconnectLostInv ==
    ASSUME TypeOK, WaitInv, LostInv, NEW status, ProcessDisconnect(status), conn' = conn,
           \A r \in Requests : pc[r] = "done" => pc'[r] = "done",
           \A r \in Requests : pc'[r] = "upgrading" => pc[r] = "upgrading"
    PROVE  LostInv'
<1> USE DEF LostInv, UpgradesWereAnswered, NobodyWaitsOnLostConnection, Pending
<1>1. CASE state = "Connected"
  <2>1. NotifyConnectionLost
    BY <1>1 DEF ProcessDisconnect
  <2>2. \A r \in Requests : result'[r] # "pending"
    BY <2>1, NotifiedCallersAreNotPending DEF WaitInv
  <2>3. \A r \in Requests : result[r] = "WebsocketUpgrade" => result'[r] = result[r]
    BY <2>1 DEF NotifyConnectionLost, WaitsInQueue, Awaited
  <2> QED BY <2>2, <2>3
<1>2. CASE state # "Connected"
  <2>1. result' = result
    BY <1>2 DEF ProcessDisconnect
  <2>2. \A r \in Requests : BehindUpgrade(r) => BehindUpgrade(r)'
    BY <2>1 DEF BehindUpgrade
  <2> QED BY <1>2, <2>1, <2>2
<1> QED BY <1>1, <1>2

\* A step of one caller that leaves the slot alone and makes that caller wait for nothing new
\* keeps the invariant.
LEMMA LocalStepLostInv ==
    ASSUME LostInv, NEW r \in Requests, pc[r] # "done", state' = state, stream' = stream,
           \A q \in Requests \ {r} : pc'[q] = pc[q] /\ result'[q] = result[q] /\ conn'[q] = conn[q],
           Pending(r)' => Pending(r) /\ conn'[r] = conn[r],
           pc'[r] = "upgrading" => result'[r] = "WebsocketUpgrade"
    PROVE  LostInv'
<1>1. UpgradesWereAnswered'
  BY DEF LostInv, UpgradesWereAnswered
<1>2. ASSUME NEW q \in Requests, Pending(q)'
      PROVE  (state' = "Connected" /\ conn'[q] = stream') \/ BehindUpgrade(q)'
  <2>1. Pending(q) /\ conn'[q] = conn[q]
    BY <1>2 DEF Pending
  <2>2. CASE state = "Connected" /\ conn[q] = stream
    BY <2>1, <2>2
  <2>3. CASE BehindUpgrade(q)
    <3>1. PICK p \in Requests : pc[p] = "done" /\ result[p] = "WebsocketUpgrade" /\ conn[p] = conn[q]
      BY <2>3 DEF BehindUpgrade
    <3>2. pc'[p] = "done" /\ result'[p] = "WebsocketUpgrade" /\ conn'[p] = conn'[q]
      BY <2>1, <3>1
    <3> QED BY <3>2 DEF BehindUpgrade
  <2> QED BY <2>1, <2>2, <2>3 DEF LostInv, NobodyWaitsOnLostConnection
<1> QED BY <1>1, <1>2 DEF LostInv, NobodyWaitsOnLostConnection

LEMMA CallerLostInv ==
    ASSUME TypeInv, SlotInv, WaitInv, LostInv, NEW r \in Requests,
           Start(r) \/ CallerStep(r) \/ RequestTimeout(r) \/ Abandon(r)
    PROVE  LostInv'
<1>0. /\ pc \in [Requests -> {"idle", "sending", "notifying", "waiting", "dialing", "installing",
                           "replacing", "upgrading", "done"}]
      /\ result \in [Requests -> Errors \cup {"none", "pending", "Response", "WebsocketUpgrade"}]
      /\ conn \in [Requests -> ConnIds]
  BY DEF TypeInv, TypeOK
<1>1. CASE \/ Start(r) \/ SendRejected(r) \/ NotifyWriter(r) \/ TakeResult(r) \/ DialTimesOut(r)
           \/ DialRefused(r) \/ Dial(r) \/ UpgradeRejected(r) \/ RequestTimeout(r) \/ Abandon(r)
           \/ Replace(r)
  <2>1. state' = state /\ stream' = stream /\ pc[r] # "done"
    BY <1>1 DEF Start, SendRejected, NotifyWriter, TakeResult, DialTimesOut, DialRefused, Dial,
                UpgradeRejected, RequestTimeout, Abandon, Replace, mutexVars
  <2>2. \A q \in Requests \ {r} : pc'[q] = pc[q] /\ result'[q] = result[q] /\ conn'[q] = conn[q]
    BY <1>0, <1>1 DEF Start, SendRejected, NotifyWriter, TakeResult, DialTimesOut, DialRefused, Dial,
                      UpgradeRejected, RequestTimeout, Abandon, Replace, Fail
  <2>3. Pending(r)' => Pending(r) /\ conn'[r] = conn[r]
    <3>1. CASE Start(r) \/ NotifyWriter(r) \/ TakeResult(r) \/ Replace(r)
      BY <3>1 DEF Start, NotifyWriter, TakeResult, Replace, Pending
    <3>2. CASE \/ SendRejected(r) \/ DialTimesOut(r) \/ DialRefused(r) \/ UpgradeRejected(r)
               \/ RequestTimeout(r) \/ Abandon(r)
      <4>1. state # "pending"
        BY DEF TypeInv, TypeOK
      <4>2. result'[r] # "pending"
        BY <1>0, <3>2, <4>1 DEF SendRejected, DialTimesOut, DialRefused, UpgradeRejected, RequestTimeout,
                                Abandon, Fail, SendError, UpgradeError
      <4> QED BY <4>2 DEF Pending
    <3>3. CASE Dial(r)
      BY <3>3 DEF Dial, WaitInv, PendingCallersWait, Pending
    <3> QED BY <1>1, <3>1, <3>2, <3>3
  <2>4. pc'[r] = "upgrading" => result'[r] = "WebsocketUpgrade"
    BY <1>0, <1>1 DEF Start, SendRejected, NotifyWriter, TakeResult, DialTimesOut, DialRefused, Dial,
                      UpgradeRejected, RequestTimeout, Abandon, Replace, Fail
  <2> QED BY <2>1, <2>2, <2>3, <2>4, LocalStepLostInv
<1>2. CASE Install(r)
  <2>1. ProcessDisconnect("Connected") /\ conn' = conn /\ pc' = [pc EXCEPT ![r] = "sending"]
        /\ pc[r] \notin {"done", "upgrading"}
    BY <1>2 DEF Install
  <2>2. /\ \A q \in Requests : pc[q] = "done" => pc'[q] = "done"
        /\ \A q \in Requests : pc'[q] = "upgrading" => pc[q] = "upgrading"
    BY <1>0, <2>1
  <2> QED BY <2>1, <2>2, ProcessDisconnectLostInv DEF TypeInv
<1>3. CASE Upgrade(r)
  <2>1. connectionId = stream /\ conn[r] = stream
    BY <1>3 DEF Upgrade, CanUpgrade, IsMyConnectionId, SlotInv, StreamIsCurrent
  <2>2. /\ pc[r] = "upgrading" /\ result[r] = "WebsocketUpgrade"
        /\ pc' = [pc EXCEPT ![r] = "done"] /\ conn' = conn /\ result' = result
    BY <1>3 DEF Upgrade, LostInv, UpgradesWereAnswered, callerVars
  <2>3. pc'[r] = "done" /\ \A q \in Requests \ {r} : pc'[q] = pc[q]
    BY <1>0, <2>2
  <2>4. UpgradesWereAnswered'
    BY <2>2, <2>3 DEF LostInv, UpgradesWereAnswered
  <2>5. ASSUME NEW q \in Requests, Pending(q)'  PROVE BehindUpgrade(q)'
    <3>1. Pending(q)
      BY <2>2, <2>5 DEF Pending
    <3>2. CASE BehindUpgrade(q)
      <4>1. PICK p \in Requests : pc[p] = "done" /\ result[p] = "WebsocketUpgrade" /\ conn[p] = conn[q]
        BY <3>2 DEF BehindUpgrade
      <4>2. pc'[p] = "done" /\ result'[p] = "WebsocketUpgrade" /\ conn'[p] = conn'[q]
        BY <2>2, <2>3, <4>1
      <4> QED BY <4>2 DEF BehindUpgrade
    <3>3. CASE conn[q] = stream
      <4>1. pc'[r] = "done" /\ result'[r] = "WebsocketUpgrade" /\ conn'[r] = conn'[q]
        BY <2>1, <2>2, <2>3, <3>3
      <4> QED BY <4>1 DEF BehindUpgrade
    <3> QED BY <3>1, <3>2, <3>3 DEF LostInv, NobodyWaitsOnLostConnection
  <2> QED BY <2>4, <2>5 DEF LostInv, NobodyWaitsOnLostConnection
<1> USE DEF LostInv, UpgradesWereAnswered, NobodyWaitsOnLostConnection, BehindUpgrade, Pending,
        TypeInv, TypeOK, vars, mutexVars, queueVars, flagVars, writerVars, callerVars, loopVars, clientVars
<1>4. CASE Send(r)
  <2>1. connectionId = stream
    BY <1>4 DEF Send, SlotInv, StreamIsCurrent
  <2>2. \A q \in Requests \ {r} : pc'[q] = pc[q] /\ result'[q] = result[q] /\ conn'[q] = conn[q]
    BY <1>4 DEF Send
  <2>3. pc[r] = "sending" /\ pc'[r] = "notifying" /\ conn'[r] = stream /\ state' = "Connected" /\ stream' = stream
        /\ state = "Connected"
    BY <1>4, <2>1 DEF Send
  <2>4. UpgradesWereAnswered'
    BY ONLY <2>2, <2>3, LostInv DEF LostInv, UpgradesWereAnswered
  <2>5. ASSUME NEW q \in Requests \ {r}, BehindUpgrade(q)
        PROVE  BehindUpgrade(q)'
    <3>1. PICK p \in Requests : pc[p] = "done" /\ result[p] = "WebsocketUpgrade" /\ conn[p] = conn[q]
      BY <2>5
    <3>2. p # r
      BY <2>3, <3>1
    <3>3. pc'[p] = "done" /\ result'[p] = "WebsocketUpgrade" /\ conn'[p] = conn'[q]
      BY ONLY <2>2, <3>1, <3>2
    <3> QED BY <3>3
  <2>6. ASSUME NEW q \in Requests \ {r}, Pending(q)'
        PROVE  (state' = "Connected" /\ conn'[q] = stream') \/ BehindUpgrade(q)'
    <3>1. Pending(q) /\ conn'[q] = conn[q]
      BY <2>2, <2>6
    <3>2. CASE conn[q] = stream
      BY <2>3, <3>1, <3>2
    <3>3. CASE conn[q] # stream
      <4>1. BehindUpgrade(q)
        BY <3>1, <3>3
      <4> QED BY <2>5, <4>1
    <3> QED BY <3>2, <3>3
  <2> QED BY <2>3, <2>4, <2>6
<1> QED BY <1>1, <1>2, <1>3, <1>4 DEF CallerStep

LEMMA WriterLostInv ==
    ASSUME LostInv, WriterStep
    PROVE  LostInv'
BY DEF LostInv, UpgradesWereAnswered, NobodyWaitsOnLostConnection, BehindUpgrade, Pending, WriterStep,
       WriterRecv, FlushBegin, FlushNothing, FlushEnds, FlushFails, FlushPanics,
       mutexVars, queueVars, callerVars

LEMMA LoopLostInv ==
    ASSUME TypeInv, WaitInv, LostInv, NEW c \in Conns, LoopStep(c) \/ HandleDisconnect(c)
    PROVE  LostInv'
<1> USE DEF LostInv, UpgradesWereAnswered, NobodyWaitsOnLostConnection, BehindUpgrade, Pending,
        mutexVars, queueVars, callerVars
<1>1. CASE PopTake(c)
  <2>1. UNCHANGED <<state, stream, pc, conn>>
    BY <1>1 DEF PopTake
  <2>2. \A r \in Requests : /\ result'[r] = "pending" => Pending(r)
                            /\ result[r] = "WebsocketUpgrade" => result'[r] = result[r]
    <3>1. CASE queueOfRequests = <<>>
      BY <1>1, <3>1 DEF PopTake
    <3>2. CASE queueOfRequests # <<>>
      <4>1. Deliver(c, Head(queueOfRequests))
        BY <1>1, <3>2 DEF PopTake
      <4>2. \A r \in Requests : result'[r] = "pending" => Pending(r)
        BY <3>2, <4>1, DeliverKeepsOthers DEF WaitInv, TypeInv
      <4>3. \A r \in Requests : result[r] = "WebsocketUpgrade" => result'[r] = result[r]
        BY <4>1 DEF Deliver, Awaited, TypeInv, TypeOK
      <4> QED BY <4>2, <4>3
    <3> QED BY <3>1, <3>2
  <2> QED BY <2>1, <2>2
<1>2. CASE ~PopTake(c)
  <2>1. UNCHANGED <<state, stream, callerVars>>
    BY <1>2 DEF LoopStep, LoopCheck, ReadReply, ReadInvalid, ReadFails, BodyEnds, PopCheck,
                LoopDisconnect, LoopStopped, LoopClose, HandleDisconnect, BeginDisconnect
  <2> QED BY <2>1
<1> QED BY <1>1, <1>2

LEMMA DisposeLostInv ==
    ASSUME TypeInv, WaitInv, LostInv, DropClient \/ DisposeStep
    PROVE  LostInv'
<1>1. CASE FinishDisconnect
  <2>1. PICK status : ProcessDisconnect(status) /\ conn' = conn /\ pc' = pc
    BY <1>1 DEF FinishDisconnect
  <2> QED BY <2>1, ProcessDisconnectLostInv DEF TypeInv
<1>2. CASE DropClient \/ DisposeBegin \/ SendClose
  BY <1>2 DEF DropClient, DisposeBegin, SendClose, LostInv, UpgradesWereAnswered, BehindUpgrade,
              NobodyWaitsOnLostConnection, Pending, mutexVars, queueVars, callerVars
<1> QED BY <1>1, <1>2 DEF DisposeStep

LEMMA NextLostInv ==
    ASSUME TypeInv, SlotInv, WaitInv, LostInv, [Next]_vars
    PROVE  LostInv'
<1>1. CASE Terminated \/ UNCHANGED vars
  BY <1>1 DEF Terminated, LostInv, UpgradesWereAnswered, NobodyWaitsOnLostConnection, BehindUpgrade,
              Pending, vars, mutexVars, callerVars
<1> QED BY <1>1, CallerLostInv, WriterLostInv, LoopLostInv, DisposeLostInv DEF Next

\* A caller only waits on the connection the slot holds, also when several callers dial at once
\* and replace each other's connections, and when callers vanish; the exception are callers that
\* were sent behind a WebSocket upgrade.
THEOREM NobodyEverWaitsOnLostConnection == Spec => []NobodyWaitsOnLostConnection
<1> DEFINE Inv == TypeInv /\ SlotInv /\ WaitInv /\ LostInv
<1>1. Init => Inv
  BY InitTypeInv DEF Init, SlotInv, CallerHoldsLock, StreamIsCurrent, WaitInv, PendingCallersWait,
     WaitersAreTracked, Pending, LostInv, UpgradesWereAnswered, NobodyWaitsOnLostConnection
<1>2. Inv /\ [Next]_vars => Inv'
  BY NextTypeInv, NextSlotInv, NextWaitInv, NextLostInv
<1>3. Inv => NobodyWaitsOnLostConnection
  BY DEF LostInv
<1> QED BY <1>1, <1>2, <1>3, PTL DEF Spec
=============================================================================
