--------------------------- MODULE Http1FifoProofs ---------------------------
(***************************************************************************)
(* Theorems about Http1Client: a read loop that matches responses with     *)
(* requests by their position in the FIFO gives every caller its own.      *)
(***************************************************************************)
EXTENDS Http1SlotProofs

Reqs(queue) == [i \in DOMAIN queue |-> queue[i].req]

\* A loop whose next pop is for connection c, and acts.
PopsFor(c) == loop[c] = "take" \/ (IsMyConnectionId(c) /\ IsReading(c))

\* The FIFO lists what is on the wire of the slot's connection, then what is still to be written.
InStep ==
    ~outOfStep =>
        /\ state = "Connected" => \A i \in DOMAIN queueOfRequests : queueOfRequests[i].conn = stream
        /\ state # "Connected" => queueOfRequests = <<>>
        /\ state = "Connected" /\ PopsFor(stream) =>
               Reqs(queueOfRequests) = wire[stream] \o queueToDeliver

UnusedWiresAreEmpty == \A c \in Conns : loop[c] = "none" => wire[c] = <<>>

FifoInv == InStep /\ OwnResponseInStep /\ UnusedWiresAreEmpty

LEMMA ReqsElements ==
    ASSUME NEW queue \in Seq(Entries), NEW s \in Seq(Requests)
    PROVE  Reqs(queue) = s <=>
               Len(queue) = Len(s) /\ \A i \in 1 .. Len(s) : queue[i].req = s[i]
<1>1. Reqs(queue) = [i \in 1 .. Len(queue) |-> queue[i].req]
  BY DEF Reqs
<1>2. s = [i \in 1 .. Len(s) |-> s[i]]
  OBVIOUS
<1>3. Len(queue) \in Nat /\ Len(s) \in Nat
  OBVIOUS
<1>4. ASSUME Reqs(queue) = s
      PROVE  Len(queue) = Len(s) /\ \A i \in 1 .. Len(s) : queue[i].req = s[i]
  <2>1. 1 .. Len(queue) = 1 .. Len(s)
    <3>1. DOMAIN Reqs(queue) = 1 .. Len(queue)
      BY <1>1
    <3>2. DOMAIN s = 1 .. Len(s)
      OBVIOUS
    <3> QED BY <1>4, <3>1, <3>2
  <2>2. Len(queue) = Len(s)
    BY <1>3, <2>1
  <2> QED BY <1>1, <1>4, <2>1, <2>2
<1>5. ASSUME Len(queue) = Len(s), \A i \in 1 .. Len(s) : queue[i].req = s[i]
      PROVE  Reqs(queue) = s
  BY <1>1, <1>2, <1>5
<1> QED BY <1>4, <1>5

LEMMA ReqsAppend ==
    ASSUME NEW queue \in Seq(Entries), NEW e \in Entries,
           NEW w \in Seq(Requests), NEW d \in Seq(Requests), Reqs(queue) = w \o d
    PROVE  Reqs(Append(queue, e)) = w \o Append(d, e.req)
<1>1. e.req \in Requests
  BY DEF Entries
<1> DEFINE s == w \o d
<1>0. s \in Seq(Requests)
  OBVIOUS
<1>2. Len(queue) = Len(s) /\ \A i \in 1 .. Len(s) : queue[i].req = s[i]
  BY <1>0, ReqsElements
<1>3. w \o Append(d, e.req) \in Seq(Requests) /\ Append(queue, e) \in Seq(Entries)
  BY <1>1
<1>4. w \o Append(d, e.req) = Append(w \o d, e.req)
  BY <1>1
<1> HIDE DEF s
<1>5. \A i \in 1 .. Len(Append(s, e.req)) : Append(queue, e)[i].req = Append(s, e.req)[i]
  <2> SUFFICES ASSUME NEW i \in 1 .. Len(Append(s, e.req))
               PROVE  Append(queue, e)[i].req = Append(s, e.req)[i]
    OBVIOUS
  <2>1. CASE i = Len(s) + 1
    <3>1. Append(s, e.req)[i] = e.req /\ Append(queue, e)[i] = e
      BY <1>0, <1>1, <1>2, <2>1
    <3> QED BY <3>1
  <2>2. CASE i # Len(s) + 1
    <3>1. i \in 1 .. Len(s)
      BY <1>0, <1>1, <2>2
    <3>2. Append(s, e.req)[i] = s[i] /\ Append(queue, e)[i] = queue[i]
      BY <1>0, <1>1, <1>2, <3>1
    <3> QED BY <1>2, <3>1, <3>2
  <2> QED BY <2>1, <2>2
<1>6. Len(Append(queue, e)) = Len(Append(s, e.req))
  BY <1>0, <1>1, <1>2
<1> USE DEF s
<1> QED BY <1>3, <1>4, <1>5, <1>6, ReqsElements

LEMMA ReqsTail ==
    ASSUME NEW queue \in Seq(Entries), queue # <<>>,
           NEW w \in Seq(Requests), NEW d \in Seq(Requests), w # <<>>, Reqs(queue) = w \o d
    PROVE  Head(queue).req = Head(w) /\ Reqs(Tail(queue)) = Tail(w) \o d
<1> DEFINE s == w \o d
<1>0. s \in Seq(Requests)
  OBVIOUS
<1>1. Len(queue) = Len(s) /\ \A i \in 1 .. Len(s) : queue[i].req = s[i]
  BY <1>0, ReqsElements
<1>2. Len(w) > 0 /\ Len(queue) = Len(w) + Len(d)
  BY <1>1
<1>3. Head(queue).req = Head(w)
  BY <1>1, <1>2
<1>4. Tail(w) \o d \in Seq(Requests) /\ Tail(queue) \in Seq(Entries)
  OBVIOUS
<1>5. Len(Tail(queue)) = Len(Tail(w) \o d)
  BY <1>2
<1>6. \A i \in 1 .. Len(Tail(w) \o d) : Tail(queue)[i].req = (Tail(w) \o d)[i]
  <2> SUFFICES ASSUME NEW i \in 1 .. Len(Tail(w) \o d) PROVE Tail(queue)[i].req = (Tail(w) \o d)[i]
    OBVIOUS
  <2>1. i + 1 \in 1 .. Len(w \o d) /\ Tail(queue)[i] = queue[i + 1]
    BY <1>2
  <2>2. (Tail(w) \o d)[i] = (w \o d)[i + 1]
    BY <1>2
  <2> QED BY <1>1, <2>1, <2>2
<1> QED BY <1>3, <1>4, <1>5, <1>6, ReqsElements
-----------------------------------------------------------------------------
(* Steps that leave the FIFO and the wires alone *)

LEMMA FifoUntouched ==
    ASSUME ReaderInv, FifoInv,
           UNCHANGED <<state, stream, queueOfRequests, queueToDeliver, delivered, outOfStep, wire>>,
           \A c \in Conns : /\ PopsFor(c)' => PopsFor(c)
                            /\ loop'[c] = "none" => loop[c] = "none"
    PROVE  FifoInv'
<1>1. InStep'
  BY DEF FifoInv, InStep, ReaderInv, LockFitsState
<1>2. OwnResponseInStep' /\ UnusedWiresAreEmpty'
  BY DEF FifoInv, OwnResponseInStep, OwnResponse, UnusedWiresAreEmpty
<1> QED BY <1>1, <1>2 DEF FifoInv

\* Clearing the id does not make a loop pop for the connection in the slot: whoever clears it
\* holds the mutex, and until then the id was the slot's.
LEMMA FifoUntouchedByClearing ==
    ASSUME SlotInv, ReaderInv, FifoInv, lock \notin {"lose", "dispose"}, connectionId' = 0,
           UNCHANGED <<state, stream, queueOfRequests, queueToDeliver, delivered, outOfStep>>,
           \A c \in Conns : /\ PopsFor(c)' => loop[c] = "take" \/ (IsReading(c) /\ connectionId' = c)
                            /\ loop'[c] = "none" => loop[c] = "none"
                            /\ wire'[c] = wire[c] \/ (wire'[c] = <<>> /\ ~PopsFor(c)')
    PROVE  FifoInv'
<1>1. state = "Connected" => stream \in Conns /\ connectionId = stream
  BY DEF SlotInv, StreamIsCurrent, ReaderInv, LockFitsState
<1>2. state = "Connected" /\ PopsFor(stream)' => PopsFor(stream) /\ wire'[stream] = wire[stream]
  BY <1>1 DEF PopsFor, IsMyConnectionId
<1>3. InStep'
  BY <1>2 DEF FifoInv, InStep
<1>4. OwnResponseInStep' /\ UnusedWiresAreEmpty'
  BY DEF FifoInv, OwnResponseInStep, OwnResponse, UnusedWiresAreEmpty
<1> QED BY <1>3, <1>4 DEF FifoInv

-----------------------------------------------------------------------------
(* Steps that change them *)

LEMMA SendFifoInv ==
    ASSUME TypeInv, SlotInv, ReaderInv, FifoInv, NEW r \in Requests, Send(r)
    PROVE  FifoInv'
<1> DEFINE e == [req |-> r, conn |-> connectionId]
<1>1. /\ state = "Connected" /\ state' = "Connected" /\ stream' = stream
      /\ queueOfRequests' = Append(queueOfRequests, e)
      /\ queueToDeliver' = Append(queueToDeliver, r)
      /\ UNCHANGED <<connectionId, loop, wire, delivered, outOfStep>>
  BY DEF Send, flagVars, loopVars
<1>2. connectionId = stream /\ stream \in Conns
  BY <1>1 DEF Send, SlotInv, StreamIsCurrent, ReaderInv, LockFitsState
<1>3. e \in Entries /\ e.req = r /\ e.conn = stream
  BY <1>2 DEF Entries, TypeInv, TypeOK
<1>4. queueOfRequests \in Seq(Entries) /\ queueToDeliver \in Seq(Requests) /\ wire[stream] \in Seq(Requests)
  BY <1>2 DEF TypeInv, TypeOK
<1>5. PopsFor(stream)' <=> PopsFor(stream)
  BY <1>1 DEF PopsFor, IsMyConnectionId, IsReading
<1>6. ASSUME Reqs(queueOfRequests) = wire[stream] \o queueToDeliver
      PROVE  Reqs(queueOfRequests') = wire[stream] \o queueToDeliver'
  BY <1>1, <1>3, <1>4, <1>6, ReqsAppend
<1>7. ASSUME \A i \in DOMAIN queueOfRequests : queueOfRequests[i].conn = stream
      PROVE  \A i \in DOMAIN queueOfRequests' : queueOfRequests'[i].conn = stream
  <2> SUFFICES ASSUME NEW i \in DOMAIN queueOfRequests' PROVE queueOfRequests'[i].conn = stream
    OBVIOUS
  <2>1. i \in DOMAIN queueOfRequests \/ queueOfRequests'[i] = e
    BY <1>1, <1>3, <1>4
  <2>2. i \in DOMAIN queueOfRequests => queueOfRequests'[i] = queueOfRequests[i]
    BY <1>1, <1>3, <1>4
  <2> QED BY <1>3, <1>7, <2>1, <2>2
<1>8. InStep'
  BY <1>1, <1>5, <1>6, <1>7 DEF FifoInv, InStep
<1>9. OwnResponseInStep' /\ UnusedWiresAreEmpty'
  BY <1>1 DEF FifoInv, OwnResponseInStep, OwnResponse, UnusedWiresAreEmpty
<1> QED BY <1>8, <1>9 DEF FifoInv

\* After process_disconnect the FIFO is empty, unless it had parted from the wire.
LEMMA ProcessDisconnectFifo ==
    ASSUME FifoInv, NEW status, ProcessDisconnect(status), ~outOfStep
    PROVE  queueOfRequests' = <<>> /\ queueToDeliver' = <<>> /\ state' = status
BY DEF FifoInv, InStep, ProcessDisconnect, NotifyConnectionLost

LEMMA InstallFifoInv ==
    ASSUME TypeInv, ReaderInv, FifoInv, NEW r \in Requests, Install(r)
    PROVE  FifoInv'
<1>1. /\ ProcessDisconnect("Connected") /\ stream' = conn[r]
      /\ loop' = [loop EXCEPT ![conn[r]] = "top"]
      /\ UNCHANGED <<delivered, outOfStep, wire>>
  BY DEF Install
<1>2. conn[r] \in Conns /\ loop[conn[r]] = "none"
  BY DEF Install, Dialed, ReaderInv, DialIsFresh
<1>3. wire'[stream'] = <<>>
  BY <1>1, <1>2 DEF FifoInv, UnusedWiresAreEmpty
<1>4. Reqs(<<>>) = <<>> \o <<>>
  BY DEF Reqs
<1>5. ~outOfStep => queueOfRequests' = <<>> /\ queueToDeliver' = <<>> /\ state' = "Connected"
  BY <1>1, ProcessDisconnectFifo
<1>6. InStep'
  BY <1>1, <1>3, <1>4, <1>5 DEF InStep
<1>7. OwnResponseInStep'
  BY <1>1 DEF FifoInv, OwnResponseInStep, OwnResponse
<1>8. UnusedWiresAreEmpty'
  BY <1>1, <1>2 DEF FifoInv, UnusedWiresAreEmpty, TypeInv, TypeOK
<1> QED BY <1>6, <1>7, <1>8 DEF FifoInv

LEMMA CallerFifoInv ==
    ASSUME TypeInv, SlotInv, ReaderInv, FifoInv, NEW r \in Requests,
           Start(r) \/ CallerStep(r) \/ RequestTimeout(r) \/ Abandon(r)
    PROVE  FifoInv'
<1>1. CASE Send(r)  BY <1>1, SendFifoInv
<1>2. CASE Install(r)  BY <1>2, InstallFifoInv
<1>3. CASE Upgrade(r)
  <2>1. /\ state' = "UpgradedToWebSocket"
        /\ outOfStep' = (outOfStep \/ queueOfRequests # <<>>)
        /\ UNCHANGED <<queueOfRequests, delivered, loop, wire>>
    BY <1>3 DEF Upgrade, loopVars
  <2> QED BY <2>1 DEF FifoInv, InStep, OwnResponseInStep, OwnResponse, UnusedWiresAreEmpty
<1>4. CASE Start(r) \/ SendRejected(r) \/ NotifyWriter(r) \/ TakeResult(r) \/ DialTimesOut(r)
           \/ DialRefused(r) \/ Dial(r) \/ Replace(r) \/ UpgradeRejected(r) \/ RequestTimeout(r)
           \/ Abandon(r)
  <2>1. UNCHANGED <<state, stream, queueToDeliver, queueVars, flagVars, loopVars>>
    BY <1>4 DEF Start, SendRejected, NotifyWriter, TakeResult, DialTimesOut, DialRefused, Dial,
                Replace, UpgradeRejected, RequestTimeout, Abandon, mutexVars
  <2> QED BY <2>1, FifoUntouched DEF PopsFor, IsMyConnectionId, IsReading, queueVars, flagVars, loopVars
<1> QED BY <1>1, <1>2, <1>3, <1>4 DEF CallerStep

LEMMA WriterFifoInv ==
    ASSUME TypeInv, SlotInv, ReaderInv, FifoInv, WriterStep
    PROVE  FifoInv'
<1>1. CASE FlushBegin
  <2>1. /\ state = "Connected"
        /\ wire' = [wire EXCEPT ![stream] = @ \o queueToDeliver] /\ queueToDeliver' = <<>>
        /\ UNCHANGED <<state, stream, queueVars, flagVars, loop>>
    BY <1>1 DEF FlushBegin, HasPayload
  <2>2. stream \in Conns /\ loop[stream] # "none"
    BY <2>1 DEF ReaderInv, LockFitsState
  <2>3. wire[stream] \in Seq(Requests) /\ queueToDeliver \in Seq(Requests)
    BY <2>2 DEF TypeInv, TypeOK
  <2>4. wire'[stream] = wire[stream] \o queueToDeliver
    BY <2>1, <2>2 DEF TypeInv, TypeOK
  <2>5. wire'[stream] \o queueToDeliver' = wire[stream] \o queueToDeliver
    BY <2>1, <2>3, <2>4
  <2>6. PopsFor(stream)' => PopsFor(stream)
    BY <2>1 DEF PopsFor, IsMyConnectionId, IsReading, flagVars
  <2>7. InStep'
    BY <2>1, <2>5, <2>6 DEF FifoInv, InStep, queueVars
  <2>8. OwnResponseInStep'
    BY <2>1 DEF FifoInv, OwnResponseInStep, OwnResponse, queueVars
  <2>9. UnusedWiresAreEmpty'
    BY <2>1, <2>2 DEF FifoInv, UnusedWiresAreEmpty, TypeInv, TypeOK
  <2> QED BY <2>7, <2>8, <2>9 DEF FifoInv
<1>2. CASE FlushPanics
  <2>1. outOfStep' = TRUE /\ UNCHANGED <<loop, wire>>
    BY <1>2 DEF FlushPanics, loopVars
  <2> QED BY <2>1 DEF FifoInv, InStep, OwnResponseInStep, UnusedWiresAreEmpty
<1>3. CASE WriterRecv \/ FlushNothing \/ FlushEnds
  <2>1. UNCHANGED <<state, stream, queueToDeliver, queueVars, flagVars, loopVars>>
    BY <1>3 DEF WriterRecv, FlushNothing, FlushEnds, mutexVars
  <2> QED BY <2>1, FifoUntouched DEF PopsFor, IsMyConnectionId, IsReading, queueVars, flagVars, loopVars
<1>4. CASE FlushFails
  <2>1. /\ lock = "write" /\ connectionId' = 0
        /\ UNCHANGED <<state, stream, queueToDeliver, queueVars, loopVars>>
    BY <1>4 DEF FlushFails
  <2>2. \A c \in Conns : PopsFor(c)' => loop[c] = "take" \/ (IsReading(c) /\ connectionId' = c)
    BY <2>1 DEF PopsFor, IsMyConnectionId, IsReading, loopVars
  <2> QED BY <2>1, <2>2, FifoUntouchedByClearing DEF queueVars, loopVars
<1> QED BY <1>1, <1>2, <1>3, <1>4 DEF WriterStep

\* A response that was popped: the front of the FIFO and of the wire go together.
LEMMA DeliverFifo ==
    ASSUME TypeInv, ReaderInv, FifoInv, NEW c \in Conns, loop[c] = "take",
           queueOfRequests # <<>>, Deliver(c, Head(queueOfRequests)), Consume(c), ~outOfStep',
           UNCHANGED <<state, stream, queueToDeliver>>
    PROVE  /\ OwnResponse'
           /\ state = "Connected" /\ c = stream
           /\ \A i \in DOMAIN queueOfRequests' : queueOfRequests'[i].conn = stream
           /\ reply[c] # "invalid" =>
                  Reqs(queueOfRequests') = wire'[stream] \o queueToDeliver
<1> DEFINE e == Head(queueOfRequests)
<1>1. ~outOfStep /\ stream = c
  BY DEF Deliver
<1>2. state = "Connected"
  BY <1>1 DEF FifoInv, InStep
<1>3. /\ queueOfRequests \in Seq(Entries) /\ e \in Entries
      /\ wire[c] \in Seq(Requests) /\ queueToDeliver \in Seq(Requests)
  BY DEF TypeInv, TypeOK
<1>4. Reqs(queueOfRequests) = wire[c] \o queueToDeliver
  BY <1>1, <1>2 DEF FifoInv, InStep, PopsFor
<1>5. \A i \in DOMAIN queueOfRequests : queueOfRequests[i].conn = c
  BY <1>1, <1>2 DEF FifoInv, InStep
<1>6. e.conn = c
  BY <1>3, <1>5
<1>7. queueOfRequests' = Tail(queueOfRequests)
  BY DEF Deliver
<1>8. \A i \in DOMAIN queueOfRequests' : queueOfRequests'[i].conn = c
  <2> SUFFICES ASSUME NEW i \in DOMAIN queueOfRequests' PROVE queueOfRequests'[i].conn = c
    OBVIOUS
  <2>1. i + 1 \in DOMAIN queueOfRequests /\ queueOfRequests'[i] = queueOfRequests[i + 1]
    BY <1>3, <1>7
  <2> QED BY <1>5, <2>1
<1>9. CASE reply[c] = "invalid"
  <2>1. delivered' = delivered
    BY <1>9 DEF Deliver
  <2> QED BY <1>1, <1>2, <1>8, <1>9, <2>1 DEF FifoInv, OwnResponseInStep, OwnResponse
<1>10. CASE reply[c] # "invalid"
  <2>1. wire[c] # <<>>
    BY <1>10 DEF TypeInv, ReplyIsOnWire
  <2>2. e.req = Head(wire[c]) /\ Reqs(queueOfRequests') = Tail(wire[c]) \o queueToDeliver
    BY <1>3, <1>4, <1>7, <2>1, ReqsTail
  <2>3. wire'[c] = Tail(wire[c])
    BY <1>10 DEF Consume, TypeInv, TypeOK
  <2>4. \A d \in delivered' : d \in delivered \/ (d.of = d.to /\ d.from = d.sentOn)
    BY <1>6, <2>2 DEF Deliver
  <2>5. OwnResponse'
    BY <1>1, <2>4 DEF FifoInv, OwnResponseInStep, OwnResponse
  <2> QED BY <1>1, <1>2, <1>8, <2>2, <2>3, <2>5
<1> QED BY <1>9, <1>10

LEMMA PopTakeFifoInv ==
    ASSUME TypeInv, ReaderInv, FifoInv, NEW c \in Conns, PopTake(c)
    PROVE  FifoInv'
<1> DEFINE next == AfterPop(reply[c], queueOfRequests # <<>> /\ ~Awaited(Head(queueOfRequests)))
<1>1. /\ loop[c] = "take" /\ loop' = [loop EXCEPT ![c] = next] /\ Consume(c)
      /\ UNCHANGED <<state, stream, queueToDeliver, connectionId>>
  BY DEF PopTake, LoopGoes, mutexVars
<1>2. \A d \in Conns \ {c} : wire'[d] = wire[d] /\ loop'[d] = loop[d]
  BY <1>1 DEF Consume, TypeInv, TypeOK
<1>3. next \in {"disconnect", "stopped", "top", "body"} /\ (reply[c] = "invalid" => next = "disconnect")
  BY DEF AfterPop
<1>4. UnusedWiresAreEmpty'
  BY <1>1, <1>2, <1>3 DEF FifoInv, UnusedWiresAreEmpty, TypeInv, TypeOK
<1>5. loop'[c] = next
  BY <1>1 DEF TypeInv, TypeOK
<1>6. PopsFor(c)' => reply[c] # "invalid"
  BY <1>3, <1>5 DEF PopsFor, IsReading
<1>7. CASE queueOfRequests # <<>>
  <2>1. Deliver(c, Head(queueOfRequests))
    BY <1>7 DEF PopTake
  <2>2. CASE outOfStep'
    BY <1>4, <2>2 DEF FifoInv, InStep, OwnResponseInStep
  <2>3. CASE ~outOfStep'
    <3>1. /\ OwnResponse' /\ state = "Connected" /\ c = stream
          /\ \A i \in DOMAIN queueOfRequests' : queueOfRequests'[i].conn = stream
          /\ reply[c] # "invalid" => Reqs(queueOfRequests') = wire'[stream] \o queueToDeliver
      BY <1>1, <1>7, <2>1, <2>3, DeliverFifo
    <3>2. InStep'
      BY <1>1, <1>6, <3>1 DEF InStep
    <3> QED BY <1>4, <3>1, <3>2 DEF FifoInv, OwnResponseInStep
  <2> QED BY <2>2, <2>3
<1>8. CASE queueOfRequests = <<>>
  <2>1. UNCHANGED <<queueOfRequests, outOfStep, delivered>>
    BY <1>8 DEF PopTake
  <2>2. ASSUME ~outOfStep, state = "Connected", stream = c, reply[c] # "invalid"
        PROVE  FALSE
    <3>1. Reqs(queueOfRequests) = wire[c] \o queueToDeliver
      BY <1>1, <2>2 DEF FifoInv, InStep, PopsFor
    <3>2. wire[c] # <<>> /\ wire[c] \in Seq(Requests) /\ queueToDeliver \in Seq(Requests)
          /\ queueOfRequests \in Seq(Entries)
      BY <1>1, <2>2 DEF TypeInv, TypeOK, ReplyIsOnWire
    <3>3. wire[c] \o queueToDeliver \in Seq(Requests) /\ Len(wire[c] \o queueToDeliver) # 0
      BY <3>2
    <3> QED BY <1>8, <3>1, <3>2, <3>3, ReqsElements
  <2>3. ASSUME ~outOfStep, state = "Connected", PopsFor(stream)'
        PROVE  Reqs(queueOfRequests) = wire'[stream] \o queueToDeliver
    <3>1. stream # c
      BY <1>1, <1>6, <2>2, <2>3
    <3>2. stream \in Conns /\ loop'[stream] = loop[stream] /\ wire'[stream] = wire[stream]
      BY <1>2, <2>3, <3>1 DEF ReaderInv, LockFitsState
    <3>3. PopsFor(stream)
      BY <1>1, <2>3, <3>2 DEF PopsFor, IsMyConnectionId, IsReading
    <3> QED BY <2>3, <3>2, <3>3 DEF FifoInv, InStep
  <2>4. InStep'
    BY <1>1, <2>1, <2>3 DEF FifoInv, InStep
  <2> QED BY <1>4, <2>1, <2>4 DEF FifoInv, OwnResponseInStep, OwnResponse
<1> QED BY <1>7, <1>8

LEMMA PopCheckFifoInv ==
    ASSUME TypeInv, ReaderInv, FifoInv, NEW c \in Conns, PopCheck(c)
    PROVE  FifoInv'
<1>1. loop[c] = "check" /\ UNCHANGED <<state, stream, queueToDeliver, queueVars, flagVars>>
  BY DEF PopCheck, mutexVars
<1>2. CASE IsMyConnectionId(c)
  <2>1. loop' = [loop EXCEPT ![c] = "take"] /\ wire' = wire
    BY <1>2 DEF PopCheck, LoopGoes
  <2>2. \A d \in Conns : PopsFor(d)' => PopsFor(d)
    BY <1>1, <1>2, <2>1 DEF PopsFor, IsMyConnectionId, IsReading, TypeInv, TypeOK, flagVars
  <2>3. \A d \in Conns : loop'[d] = "none" => loop[d] = "none"
    BY <2>1 DEF TypeInv, TypeOK
  <2> QED BY <1>1, <2>1, <2>2, <2>3, FifoUntouched DEF queueVars
<1>3. CASE ~IsMyConnectionId(c)
  <2>1. loop' = [loop EXCEPT ![c] = AfterPop(reply[c], FALSE)] /\ Consume(c)
    BY <1>3 DEF PopCheck, LoopGoes
  <2>2. AfterPop(reply[c], FALSE) \in {"disconnect", "stopped", "top", "body"}
    BY DEF AfterPop
  <2>3. /\ \A d \in Conns \ {c} : wire'[d] = wire[d] /\ loop'[d] = loop[d]
        /\ loop'[c] \in {"disconnect", "stopped", "top", "body"}
    BY <2>1, <2>2 DEF Consume, TypeInv, TypeOK
  <2>4. ~PopsFor(c)'
    BY <1>1, <1>3, <2>3 DEF PopsFor, IsMyConnectionId, flagVars
  <2>5. ASSUME ~outOfStep, state = "Connected", PopsFor(stream)'
        PROVE  Reqs(queueOfRequests) = wire'[stream] \o queueToDeliver
    <3>1. stream \in Conns \ {c}
      BY <1>1, <2>4, <2>5 DEF ReaderInv, LockFitsState
    <3>2. PopsFor(stream)
      BY <1>1, <2>3, <2>5, <3>1 DEF PopsFor, IsMyConnectionId, IsReading, flagVars
    <3> QED BY <2>3, <2>5, <3>1, <3>2 DEF FifoInv, InStep
  <2>6. InStep'
    BY <1>1, <2>5 DEF FifoInv, InStep, queueVars
  <2>7. UnusedWiresAreEmpty'
    BY <2>3 DEF FifoInv, UnusedWiresAreEmpty
  <2> QED BY <1>1, <2>6, <2>7 DEF FifoInv, OwnResponseInStep, OwnResponse, queueVars
<1> QED BY <1>2, <1>3

LEMMA LoopFifoInv ==
    ASSUME TypeInv, SlotInv, ReaderInv, FifoInv, NEW c \in Conns, LoopStep(c) \/ HandleDisconnect(c)
    PROVE  FifoInv'
<1>1. CASE PopCheck(c)  BY <1>1, PopCheckFifoInv
<1>2. CASE PopTake(c)  BY <1>2, PopTakeFifoInv
<1>3. CASE \/ LoopCheck(c) \/ (\E kind \in Replies : ReadReply(c, kind)) \/ ReadInvalid(c)
           \/ ReadFails(c) \/ BodyEnds(c)
  <2>1. UNCHANGED <<state, stream, queueToDeliver, queueVars, flagVars, wire>>
    BY <1>3 DEF LoopCheck, ReadReply, ReadInvalid, ReadFails, BodyEnds, mutexVars
  <2>2. PICK at \in {"read", "check", "top", "disconnect", "stopped"} :
            /\ loop' = [loop EXCEPT ![c] = at]
            /\ loop[c] \in {"top", "read", "body"}
    BY <1>3 DEF LoopCheck, ReadReply, ReadInvalid, ReadFails, BodyEnds, LoopGoes
  <2>3. \A d \in Conns : d # c => loop'[d] = loop[d]
    BY <2>2 DEF TypeInv, TypeOK
  <2>4. loop'[c] = at
    BY <2>2 DEF TypeInv, TypeOK
  <2>5. \A d \in Conns : /\ PopsFor(d)' => PopsFor(d)
                         /\ loop'[d] = "none" => loop[d] = "none"
    BY <2>1, <2>2, <2>3, <2>4 DEF PopsFor, IsMyConnectionId, IsReading, flagVars
  <2> QED BY <2>1, <2>5, FifoUntouched DEF queueVars
<1>4. CASE LoopDisconnect(c) \/ LoopStopped(c) \/ LoopClose(c)
  <2>1. /\ UNCHANGED <<state, stream, queueToDeliver, queueVars>>
        /\ connectionId' = connectionId \/ (connectionId' = 0 /\ lock = "free")
    BY <1>4 DEF LoopDisconnect, LoopStopped, LoopClose, BeginDisconnect, mutexVars, flagVars
  <2>2. PICK at \in {"disconnecting", "stopped", "ended", "close", "closing"} :
            /\ loop' = [loop EXCEPT ![c] = at]
            /\ loop[c] \in {"disconnect", "stopped", "close"}
    BY <1>4 DEF LoopDisconnect, LoopStopped, LoopClose, LoopGoes
  <2>3. /\ \A d \in Conns : d # c => loop'[d] = loop[d]
        /\ loop'[c] = at
    BY <2>2 DEF TypeInv, TypeOK
  <2>4. wire' = [wire EXCEPT ![c] = <<>>] \/ wire' = wire
    BY <1>4 DEF LoopDisconnect, LoopStopped, LoopClose, DropReadHalf
  <2>5. \A d \in Conns : d # c => wire'[d] = wire[d]
    BY <2>4 DEF TypeInv, TypeOK
  <2>6. ~PopsFor(c)' /\ ~PopsFor(c)
    BY <2>2, <2>3 DEF PopsFor, IsReading
  <2>7. wire'[c] = wire[c] \/ wire'[c] = <<>>
    BY <2>4 DEF TypeInv, TypeOK
  <2>8. CASE connectionId' = connectionId
    <3>1. \A d \in Conns : PopsFor(d)' => PopsFor(d) /\ d # c
      BY <2>3, <2>6, <2>8 DEF PopsFor, IsMyConnectionId, IsReading
    <3>2. state = "Connected" => stream \in Conns
      BY DEF ReaderInv, LockFitsState
    <3>3. InStep'
      BY <2>1, <2>5, <3>1, <3>2 DEF FifoInv, InStep, queueVars
    <3>4. UnusedWiresAreEmpty'
      BY <2>2, <2>3, <2>5 DEF FifoInv, UnusedWiresAreEmpty
    <3> QED BY <2>1, <3>3, <3>4 DEF FifoInv, OwnResponseInStep, OwnResponse, queueVars
  <2>9. CASE connectionId' = 0 /\ lock = "free"
    <3>1. \A d \in Conns : PopsFor(d)' => loop[d] = "take" \/ (IsReading(d) /\ connectionId' = d)
      BY <2>3, <2>6 DEF PopsFor, IsMyConnectionId, IsReading
    <3>2. \A d \in Conns : /\ loop'[d] = "none" => loop[d] = "none"
                           /\ wire'[d] = wire[d] \/ (wire'[d] = <<>> /\ ~PopsFor(d)')
      BY <2>2, <2>3, <2>5, <2>6, <2>7
    <3> QED BY <2>1, <2>9, <3>1, <3>2, FifoUntouchedByClearing DEF queueVars
  <2> QED BY <2>1, <2>8, <2>9
<1>5. CASE HandleDisconnect(c)
  <2>1. /\ lock = "free" /\ connectionId' = 0
        /\ UNCHANGED <<state, stream, queueToDeliver, queueVars, loopVars>>
    BY <1>5 DEF HandleDisconnect, BeginDisconnect
  <2>2. \A d \in Conns : PopsFor(d)' => loop[d] = "take" \/ (IsReading(d) /\ connectionId' = d)
    BY <2>1 DEF PopsFor, IsMyConnectionId, IsReading, loopVars
  <2> QED BY <2>1, <2>2, FifoUntouchedByClearing DEF queueVars, loopVars
<1> QED BY <1>1, <1>2, <1>3, <1>4, <1>5 DEF LoopStep

LEMMA DisposeFifoInv ==
    ASSUME TypeInv, SlotInv, ReaderInv, FifoInv, DropClient \/ DisposeStep
    PROVE  FifoInv'
<1>1. CASE FinishDisconnect
  <2>1. PICK status \in {"Disconnected", "Disposed"} : ProcessDisconnect(status)
    BY <1>1 DEF FinishDisconnect
  <2>2. UNCHANGED <<delivered, outOfStep, wire>>
    BY <1>1 DEF FinishDisconnect
  <2>3. \A d \in Conns : loop'[d] = "none" => loop[d] = "none"
    BY <1>1 DEF FinishDisconnect, TypeInv, TypeOK
  <2>4. ~outOfStep => queueOfRequests' = <<>> /\ state' # "Connected"
    BY <2>1, ProcessDisconnectFifo
  <2> QED BY <2>2, <2>3, <2>4 DEF FifoInv, InStep, OwnResponseInStep, OwnResponse, UnusedWiresAreEmpty
<1>2. CASE DropClient \/ SendClose
  <2>1. UNCHANGED <<state, stream, queueToDeliver, queueVars, flagVars, loopVars>>
    BY <1>2 DEF DropClient, SendClose, mutexVars
  <2> QED BY <2>1, FifoUntouched DEF PopsFor, IsMyConnectionId, IsReading, queueVars, flagVars, loopVars
<1>3. CASE DisposeBegin
  <2>1. /\ lock = "free" /\ connectionId' = 0
        /\ UNCHANGED <<state, stream, queueToDeliver, queueVars, loopVars>>
    BY <1>3 DEF DisposeBegin
  <2>2. \A d \in Conns : PopsFor(d)' => loop[d] = "take" \/ (IsReading(d) /\ connectionId' = d)
    BY <2>1 DEF PopsFor, IsMyConnectionId, IsReading, loopVars
  <2> QED BY <2>1, <2>2, FifoUntouchedByClearing DEF queueVars, loopVars
<1> QED BY <1>1, <1>2, <1>3 DEF DisposeStep

LEMMA NextFifoInv == SlotReaderInv /\ FifoInv /\ [Next]_vars => FifoInv'
<1> SUFFICES ASSUME SlotReaderInv, FifoInv, [Next]_vars PROVE FifoInv'
  OBVIOUS
<1>1. CASE Terminated \/ UNCHANGED vars
  BY <1>1, FifoUntouched DEF Terminated, SlotReaderInv, PopsFor, IsMyConnectionId, IsReading, vars,
     mutexVars, queueVars, flagVars, loopVars
<1> QED BY <1>1, CallerFifoInv, WriterFifoInv, LoopFifoInv, DisposeFifoInv DEF Next, SlotReaderInv

LEMMA SpecFifoInv == Spec => [](SlotReaderInv /\ FifoInv)
<1>1. Init => FifoInv
  BY DEF Init, FifoInv, InStep, OwnResponseInStep, OwnResponse, UnusedWiresAreEmpty
<1> QED BY SpecReaderInv, <1>1, NextFifoInv, PTL DEF Spec
-----------------------------------------------------------------------------
(* Theorems *)

\* As long as the FIFO was not left behind by a pop for another connection, a WebSocket upgrade
\* or a panic, it lists what is on the wire and what is still to be written, in that order,
\* whatever is dialed, lost, timed out or abandoned meanwhile (queue_of_requests.rs:78-81).
THEOREM QueueAlwaysMatchesWireInStep == Spec => []QueueMatchesWireInStep
<1>1. SlotReaderInv /\ FifoInv => QueueMatchesWireInStep
  BY DEF FifoInv, InStep, QueueMatchesWireInStep, QueueMatchesWire, PopsFor, Reqs
<1> QED BY SpecFifoInv, <1>1, PTL

\* Until then every caller is given the response to its own request, from the connection it was
\* sent on.
THEOREM ResponsesAlwaysFindTheirRequests == Spec => []OwnResponseInStep
<1>1. FifoInv => OwnResponseInStep
  BY DEF FifoInv
<1> QED BY SpecFifoInv, <1>1, PTL

\* And the two halves of a WebSocket are halves of one connection.
THEOREM HalvesAlwaysMatch == Spec => HalvesMatch
<1>1. SlotReaderInv /\ FifoInv /\ [Next]_vars =>
          \A r \in Requests, d \in delivered :
              Upgrade(r) /\ d.to = r /\ d.sentOn = conn[r] /\ ~outOfStep => d.from = stream
  BY DEF SlotReaderInv, FifoInv, OwnResponseInStep, OwnResponse, Upgrade, CanUpgrade, IsMyConnectionId,
         SlotInv, StreamIsCurrent
<1> QED BY SpecFifoInv, <1>1, PTL DEF Spec, HalvesMatch
=============================================================================
