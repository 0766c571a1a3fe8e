--------------------------- MODULE Http1SlotProofs ---------------------------
(***************************************************************************)
(* More theorems about Http1Client: which connections enter the slot, that *)
(* they are read, and that what is queued for them is written.             *)
(***************************************************************************)
EXTENDS Http1ClientProofs

\* What is true of the slot, also while somebody holds the mutex across an await.
LockFitsState ==
    /\ state = "Connected" => stream \in Conns /\ loop[stream] # "none"
    /\ lock \in {"replace", "write"} => state = "Connected"
    /\ lock = "lose" => state \in {"Connected", "UpgradedToWebSocket"}
    /\ lock = "dispose" => state # "Disposed"

Dialed(r) == pc[r] \in {"installing", "replacing"}

\* A connection that was dialed is its caller's alone, and has no read loop yet.
DialIsFresh ==
    \A r \in Requests : Dialed(r) =>
        /\ conn[r] \in Conns
        /\ conn[r] < nextId
        /\ loop[conn[r]] = "none"
        /\ \A q \in Requests : Dialed(q) /\ conn[q] = conn[r] => q = r

IdsAreIssued == \A c \in Conns : c >= nextId => loop[c] = "none"

ReaderInv == LockFitsState /\ DialIsFresh /\ IdsAreIssued /\ NoZombieUnlessUpgraded

LEMMA DialReaderInv ==
    ASSUME TypeInv, ReaderInv, NEW r \in Requests, Dial(r)
    PROVE  ReaderInv'
<1>1. /\ nextId' = nextId + 1
      /\ conn' = [conn EXCEPT ![r] = nextId]
      /\ pc' = [pc EXCEPT ![r] = "installing"]
      /\ pc[r] = "dialing" /\ nextId \in Conns
      /\ UNCHANGED <<state, stream, lock, waitingWsUpgrade, loop>>
  BY DEF Dial, mutexVars, loopVars, flagVars, queueVars
<1>2. nextId \in Nat /\ Conns \subseteq Nat
  BY <1>1, ConnIdsAreNaturals DEF ConnIds
<1>3. loop[nextId] = "none"
  <2>1. nextId >= nextId
    BY <1>2
  <2> QED BY <1>1, <2>1 DEF ReaderInv, IdsAreIssued
<1>4. \A q \in Requests \ {r} : pc'[q] = pc[q] /\ conn'[q] = conn[q]
  BY <1>1 DEF TypeInv, TypeOK
<1>5. conn'[r] = nextId /\ nextId < nextId' /\ ~Dialed(r)
  BY <1>1, <1>2 DEF TypeInv, TypeOK, Dialed
<1>6. ASSUME NEW q \in Requests \ {r}, Dialed(q)
      PROVE  conn[q] \in Conns /\ conn[q] < nextId' /\ conn[q] # nextId /\ loop[conn[q]] = "none"
  <2>1. conn[q] \in Conns /\ conn[q] < nextId /\ loop[conn[q]] = "none"
    BY <1>6 DEF ReaderInv, DialIsFresh
  <2>2. conn[q] \in Nat
    BY <1>2, <2>1
  <2> QED BY <1>1, <1>2, <2>1, <2>2
<1>7. \A q \in Requests \ {r} : Dialed(q)' <=> Dialed(q)
  BY <1>4 DEF Dialed
<1>8. DialIsFresh'
  <2> SUFFICES ASSUME NEW q \in Requests, Dialed(q)'
               PROVE  /\ conn'[q] \in Conns /\ conn'[q] < nextId' /\ loop[conn'[q]] = "none"
                      /\ \A p \in Requests : Dialed(p)' /\ conn'[p] = conn'[q] => p = q
    BY <1>1 DEF DialIsFresh
  <2>1. CASE q = r
    BY <1>1, <1>3, <1>4, <1>5, <1>6, <1>7, <2>1
  <2>2. CASE q # r
    <3>1. \A p \in Requests \ {r} : Dialed(p) /\ conn[p] = conn[q] => p = q
      BY <1>7, <2>2 DEF ReaderInv, DialIsFresh
    <3> QED BY <1>4, <1>5, <1>6, <1>7, <2>2, <3>1
  <2> QED BY <2>1, <2>2
<1>9. IdsAreIssued'
  <2>1. \A c \in Conns : c >= nextId + 1 => c >= nextId
    BY <1>2
  <2> QED BY <1>1, <2>1 DEF ReaderInv, IdsAreIssued
<1> QED BY <1>1, <1>8, <1>9 DEF ReaderInv, LockFitsState, NoZombieUnlessUpgraded

LEMMA InstallReaderInv ==
    ASSUME TypeInv, ReaderInv, NEW r \in Requests, Install(r)
    PROVE  ReaderInv'
<1>1. /\ Dialed(r) /\ state' = "Connected" /\ stream' = conn[r] /\ lock' = "free"
      /\ loop' = [loop EXCEPT ![conn[r]] = "top"] /\ pc' = [pc EXCEPT ![r] = "sending"]
      /\ UNCHANGED <<conn, nextId>>
  BY DEF Install, ProcessDisconnect, Dialed, clientVars
<1>2. conn[r] \in Conns /\ conn[r] < nextId
  BY <1>1 DEF ReaderInv, DialIsFresh
<1>3. \A c \in Conns \ {conn[r]} : loop'[c] = loop[c]
  BY <1>1 DEF TypeInv, TypeOK
<1>4. \A q \in Requests : Dialed(q)' => Dialed(q) /\ q # r
  BY <1>1 DEF Dialed, TypeInv, TypeOK
<1>5. \A q \in Requests : Dialed(q)' => conn[q] # conn[r]
  BY <1>1, <1>4 DEF ReaderInv, DialIsFresh
<1>6. DialIsFresh'
  BY <1>1, <1>3, <1>4, <1>5 DEF ReaderInv, DialIsFresh
<1>7. IdsAreIssued'
  <2>1. Conns \subseteq Nat /\ nextId \in Nat
    BY ConnIdsAreNaturals, BoundsAssumption DEF ConnIds, TypeInv, TypeOK, Conns
  <2>2. \A c \in Conns : c >= nextId => c # conn[r]
    BY <1>2, <2>1
  <2> QED BY <1>1, <1>3, <2>2 DEF ReaderInv, IdsAreIssued
<1>8. loop'[stream'] = "top"
  BY <1>1, <1>2 DEF TypeInv, TypeOK
<1>9. LockFitsState'
  BY <1>1, <1>2, <1>8 DEF LockFitsState
<1> QED BY <1>6, <1>7, <1>8, <1>9 DEF ReaderInv, NoZombieUnlessUpgraded

LEMMA CallerReaderInv ==
    ASSUME TypeInv, SlotInv, ReaderInv, NEW r \in Requests,
           Start(r) \/ CallerStep(r) \/ RequestTimeout(r) \/ Abandon(r)
    PROVE  ReaderInv'
<1> USE ConnIdsAreNaturals DEF ReaderInv, LockFitsState, DialIsFresh, Dialed, IdsAreIssued, NoZombieUnlessUpgraded,
        SlotInv, CallerHoldsLock, TypeInv, TypeOK, vars, mutexVars, queueVars, flagVars, writerVars,
        callerVars, loopVars, clientVars
<1>1. CASE Start(r)  BY <1>1 DEF Start
<1>2. CASE Send(r)  BY <1>2 DEF Send
<1>3. CASE SendRejected(r)  BY <1>3 DEF SendRejected, Fail
<1>4. CASE NotifyWriter(r)  BY <1>4 DEF NotifyWriter
<1>5. CASE TakeResult(r)  BY <1>5 DEF TakeResult
<1>6. CASE DialTimesOut(r)  BY <1>6 DEF DialTimesOut, Fail
<1>7. CASE DialRefused(r)  BY <1>7 DEF DialRefused, Fail
<1>8. CASE Dial(r)  BY <1>8, DialReaderInv
<1>9. CASE Install(r)  BY <1>9, InstallReaderInv
<1>10. CASE Upgrade(r)  BY <1>10 DEF Upgrade
<1>11. CASE UpgradeRejected(r)  BY <1>11 DEF UpgradeRejected
<1>12. CASE RequestTimeout(r)  BY <1>12 DEF RequestTimeout, Fail
<1>13. CASE Abandon(r)  BY <1>13 DEF Abandon
<1>14. CASE Replace(r)  BY <1>14 DEF Replace
<1> QED BY <1>1, <1>2, <1>3, <1>4, <1>5, <1>6, <1>7, <1>8, <1>9, <1>10, <1>11, <1>12, <1>13, <1>14
   DEF CallerStep

LEMMA WriterReaderInv ==
    ASSUME TypeInv, ReaderInv, WriterStep
    PROVE  ReaderInv'
<1> USE DEF ReaderInv, LockFitsState, DialIsFresh, Dialed, IdsAreIssued, NoZombieUnlessUpgraded,
        mutexVars, queueVars, flagVars, writerVars, callerVars, loopVars, clientVars
<1>1. CASE WriterRecv  BY <1>1 DEF WriterRecv
<1>2. CASE FlushBegin  BY <1>2 DEF FlushBegin, HasPayload
<1>3. CASE FlushNothing  BY <1>3 DEF FlushNothing
<1>4. CASE FlushEnds  BY <1>4 DEF FlushEnds
<1>5. CASE FlushFails  BY <1>5 DEF FlushFails
<1>6. CASE FlushPanics  BY <1>6 DEF FlushPanics
<1> QED BY <1>1, <1>2, <1>3, <1>4, <1>5, <1>6 DEF WriterStep

LEMMA LoopReaderInv ==
    ASSUME TypeInv, SlotInv, ReaderInv, NEW c \in Conns, LoopStep(c) \/ HandleDisconnect(c)
    PROVE  ReaderInv'
<1> USE DEF ReaderInv, LockFitsState, DialIsFresh, Dialed, IdsAreIssued, NoZombieUnlessUpgraded, LoopGoes,
        SlotInv, StreamIsCurrent, IsMyConnectionId, TypeInv, TypeOK,
        mutexVars, queueVars, flagVars, writerVars, callerVars, loopVars, clientVars
<1>1. CASE LoopCheck(c)  BY <1>1 DEF LoopCheck
<1>2. CASE \E kind \in Replies : ReadReply(c, kind)  BY <1>2 DEF ReadReply
<1>3. CASE ReadInvalid(c)  BY <1>3 DEF ReadInvalid
<1>4. CASE ReadFails(c)  BY <1>4 DEF ReadFails
<1>5. CASE BodyEnds(c)  BY <1>5 DEF BodyEnds
<1>6. CASE PopCheck(c)  BY <1>6 DEF PopCheck, AfterPop
<1>7. CASE PopTake(c)  BY <1>7 DEF PopTake, AfterPop
<1>8. CASE LoopDisconnect(c)  BY <1>8 DEF LoopDisconnect, BeginDisconnect, CanDisconnect
<1>9. CASE LoopStopped(c)  BY <1>9 DEF LoopStopped
<1>10. CASE LoopClose(c)  BY <1>10 DEF LoopClose, BeginDisconnect, CanClose
<1>11. CASE HandleDisconnect(c)  BY <1>11 DEF HandleDisconnect, BeginDisconnect, CanDisconnect
<1> QED
  BY <1>1, <1>2, <1>3, <1>4, <1>5, <1>6, <1>7, <1>8, <1>9, <1>10, <1>11 DEF LoopStep

LEMMA DisposeReaderInv ==
    ASSUME TypeInv, ReaderInv, DropClient \/ DisposeStep
    PROVE  ReaderInv'
<1> USE DEF ReaderInv, LockFitsState, DialIsFresh, Dialed, IdsAreIssued, NoZombieUnlessUpgraded,
        TypeInv, TypeOK, mutexVars, queueVars, flagVars, writerVars, callerVars, loopVars, clientVars
<1>1. CASE DropClient  BY <1>1 DEF DropClient
<1>2. CASE DisposeBegin  BY <1>2 DEF DisposeBegin
<1>3. CASE FinishDisconnect  BY <1>3 DEF FinishDisconnect, ProcessDisconnect
<1>4. CASE SendClose  BY <1>4 DEF SendClose
<1> QED BY <1>1, <1>2, <1>3, <1>4 DEF DisposeStep

LEMMA NextReaderInv == TypeInv /\ SlotInv /\ ReaderInv /\ [Next]_vars => ReaderInv'
<1> SUFFICES ASSUME TypeInv, SlotInv, ReaderInv, [Next]_vars PROVE ReaderInv'
  OBVIOUS
<1>1. CASE Terminated \/ UNCHANGED vars
  BY <1>1 DEF Terminated, ReaderInv, LockFitsState, DialIsFresh, Dialed, IdsAreIssued,
              NoZombieUnlessUpgraded, vars, mutexVars, flagVars, callerVars, loopVars, clientVars
<1> QED BY <1>1, CallerReaderInv, WriterReaderInv, LoopReaderInv, DisposeReaderInv DEF Next

SlotReaderInv == TypeInv /\ SlotInv /\ ReaderInv

LEMMA SpecReaderInv == Spec => []SlotReaderInv
<1>1. Init => SlotReaderInv
  BY InitTypeInv DEF Init, SlotReaderInv, SlotInv, CallerHoldsLock, StreamIsCurrent, ReaderInv,
     LockFitsState, DialIsFresh, Dialed, IdsAreIssued, NoZombieUnlessUpgraded
<1>2. SlotReaderInv /\ [Next]_vars => SlotReaderInv'
  BY NextTypeInv, NextSlotInv, NextReaderInv DEF SlotReaderInv
<1> QED BY <1>1, <1>2, PTL DEF Spec

\* Unless a response was taken for a WebSocket upgrade, a connected slot has a read loop, or one
\* that is still to report that it stopped (my_http_client.rs:180-186).
THEOREM NeverZombieUnlessUpgraded == Spec => []NoZombieUnlessUpgraded
<1>1. SlotReaderInv => NoZombieUnlessUpgraded
  BY DEF SlotReaderInv, ReaderInv
<1> QED BY SpecReaderInv, <1>1, PTL
-----------------------------------------------------------------------------
(* The promise of ConnectionSlot *)

\* What leaves the connection in the slot alone, or only takes it out, starts no read loop and is
\* a step of ConnectionSlot.
LEMMA EmptyingIsSlotStep ==
    ASSUME stream' = stream,
           \A c \in Conns : loop'[c] # "none" <=> loop[c] # "none",
           \/ state' = state
           \/ state \in {"Connected", "UpgradedToWebSocket"} /\ state' = "Disconnected"
           \/ state = "Connected" /\ state' = "UpgradedToWebSocket"
           \/ state # "Disposed" /\ state' = "Disposed"
    PROVE  [Slot!SlotNext]_Slot!slotVars
<1>1. {c \in Conns : loop'[c] # "none"} = {c \in Conns : loop[c] # "none"}
  OBVIOUS
<1> QED BY <1>1 DEF Slot!SlotNext, Slot!Leave, Slot!BeDisposed, Slot!BecomeWebSocket, Slot!Occupied,
                    Slot!slotVars

LEMMA InstallIsSlotStep ==
    ASSUME TypeInv, SlotInv, ReaderInv, NEW r \in Requests, Install(r)
    PROVE  [Slot!SlotNext]_Slot!slotVars
<1>1. /\ Dialed(r) /\ state # "Disposed" /\ state' = "Connected" /\ stream' = conn[r]
      /\ loop' = [loop EXCEPT ![conn[r]] = "top"]
  BY DEF Install, ProcessDisconnect, Dialed, SlotInv, CallerHoldsLock, ReaderInv, LockFitsState
<1>2. conn[r] \in Conns /\ loop[conn[r]] = "none"
  BY <1>1 DEF ReaderInv, DialIsFresh
<1>3. {c \in Conns : loop'[c] # "none"} = {c \in Conns : loop[c] # "none"} \cup {conn[r]}
  BY <1>1, <1>2 DEF TypeInv, TypeOK
<1>4. PICK c \in Conns : c = conn[r]
  BY <1>2
<1>5. Slot!Enter(c)
  BY <1>1, <1>2, <1>3, <1>4 DEF Slot!Enter
<1> QED BY <1>5 DEF Slot!SlotNext

LEMMA CallerIsSlotStep ==
    ASSUME TypeInv, SlotInv, ReaderInv, NEW r \in Requests,
           Start(r) \/ CallerStep(r) \/ RequestTimeout(r) \/ Abandon(r)
    PROVE  [Slot!SlotNext]_Slot!slotVars
<1>1. CASE Install(r)
  BY <1>1, InstallIsSlotStep
<1>2. CASE Upgrade(r)
  <2>1. state = "Connected" /\ state' = "UpgradedToWebSocket" /\ stream' = stream /\ loop' = loop
    BY <1>2 DEF Upgrade, CanUpgrade, loopVars
  <2> QED BY <2>1, EmptyingIsSlotStep
<1>3. CASE Start(r) \/ Send(r) \/ SendRejected(r) \/ NotifyWriter(r) \/ TakeResult(r) \/ DialTimesOut(r)
           \/ DialRefused(r) \/ Dial(r) \/ Replace(r) \/ UpgradeRejected(r) \/ RequestTimeout(r)
           \/ Abandon(r)
  <2>1. state' = state /\ stream' = stream /\ loop' = loop
    BY <1>3 DEF Start, Send, SendRejected, NotifyWriter, TakeResult, DialTimesOut, DialRefused, Dial,
                Replace, UpgradeRejected, RequestTimeout, Abandon, mutexVars, loopVars
  <2> QED BY <2>1, EmptyingIsSlotStep
<1> QED BY <1>1, <1>2, <1>3 DEF CallerStep

LEMMA TaskIsSlotStep ==
    ASSUME TypeInv, ReaderInv,
           \/ WriterStep
           \/ \E c \in Conns : LoopStep(c) \/ HandleDisconnect(c)
           \/ DropClient
           \/ DisposeStep
    PROVE  [Slot!SlotNext]_Slot!slotVars
<1>1. CASE FinishDisconnect
  <2>1. stream' = stream /\ \A c \in Conns : loop'[c] # "none" <=> loop[c] # "none"
    BY <1>1 DEF FinishDisconnect, TypeInv, TypeOK
  <2>2. \/ state \in {"Connected", "UpgradedToWebSocket"} /\ state' = "Disconnected"
        \/ state # "Disposed" /\ state' = "Disposed"
    BY <1>1 DEF FinishDisconnect, ProcessDisconnect, ReaderInv, LockFitsState
  <2> QED BY <2>1, <2>2, EmptyingIsSlotStep
<1>2. CASE WriterStep \/ DropClient \/ DisposeBegin \/ SendClose
  <2>1. state' = state /\ stream' = stream /\ loop' = loop
    BY <1>2 DEF WriterStep, WriterRecv, FlushBegin, FlushPanics, FlushNothing, FlushEnds, FlushFails,
                DropClient, DisposeBegin, SendClose, mutexVars, loopVars
  <2> QED BY <2>1, EmptyingIsSlotStep
<1>3. ASSUME NEW c \in Conns, LoopStep(c) \/ HandleDisconnect(c)
      PROVE  [Slot!SlotNext]_Slot!slotVars
  <2>1. state' = state /\ stream' = stream
    BY <1>3 DEF LoopStep, LoopCheck, ReadReply, ReadInvalid, ReadFails, BodyEnds, PopCheck, PopTake,
                LoopDisconnect, LoopStopped, LoopClose, HandleDisconnect, BeginDisconnect, mutexVars
  <2>2. loop' = loop \/ (loop[c] # "none" /\ \E at : at # "none" /\ loop' = [loop EXCEPT ![c] = at])
    BY <1>3 DEF LoopStep, LoopCheck, ReadReply, ReadInvalid, ReadFails, BodyEnds, PopCheck, PopTake,
                LoopDisconnect, LoopStopped, LoopClose, HandleDisconnect, LoopGoes, AfterPop, loopVars
  <2>3. \A d \in Conns : loop'[d] # "none" <=> loop[d] # "none"
    BY <2>2 DEF TypeInv, TypeOK
  <2> QED BY <2>1, <2>3, EmptyingIsSlotStep
<1> QED BY <1>1, <1>2, <1>3 DEF DisposeStep

\* The slot of the HTTP/1.1 client keeps the promise of ConnectionSlot: however many callers dial
\* at once, a connection enters it at most once and never comes back, and a disposed client
\* never holds one again (my_http_client_inner.rs:114-135).
THEOREM SlotKeepsItsPromise == Spec => SlotSpec
<1>1. Init => Slot!SlotInit
  BY DEF Init, Slot!SlotInit
<1>2. SlotReaderInv /\ [Next]_vars => [Slot!SlotNext]_Slot!slotVars
  <2> SUFFICES ASSUME SlotReaderInv, [Next]_vars PROVE [Slot!SlotNext]_Slot!slotVars
    OBVIOUS
  <2>1. CASE Terminated \/ UNCHANGED vars
    BY <2>1, EmptyingIsSlotStep DEF Terminated, vars, mutexVars, loopVars
  <2> QED BY <2>1, CallerIsSlotStep, TaskIsSlotStep DEF Next, SlotReaderInv
<1> QED BY SpecReaderInv, <1>1, <1>2, PTL DEF Spec, SlotSpec, Slot!SlotSpec
-----------------------------------------------------------------------------
(* No bytes are left in the slot without a Flush *)

FlushComing ==
    \/ writer = Writer("flush", stream)
    \/ Event("Flush", stream) \in Range(channel)
    \/ writer.at = "closed"

BytesAreAnnounced ==
    state = "Connected" /\ lock \notin {"lose", "dispose"} =>
        \A r \in Range(queueToDeliver) : Pending(r) => pc[r] = "notifying" \/ FlushComing

\* A sender announces its bytes under the connection that will take them.
SendersAreCurrent == \A r \in Requests : pc[r] = "notifying" => conn[r] = stream

NothingIsWrittenTwice == lock = "write" => queueToDeliver = <<>>

BytesInv == BytesAreAnnounced /\ SendersAreCurrent /\ NothingIsWrittenTwice

LEMMA AppendedRange ==
    ASSUME NEW S, NEW s \in Seq(S), NEW e \in S
    PROVE  \A x \in Range(Append(s, e)) : x \in Range(s) \/ x = e
<1> SUFFICES ASSUME NEW i \in DOMAIN Append(s, e), i \notin DOMAIN s PROVE Append(s, e)[i] = e
  BY DEF Range
<1> QED OBVIOUS

LEMMA RangeOfEmpty == Range(<<>>) = {}
BY DEF Range

\* The channel keeps what is in it.
LEMMA PushEventKeeps ==
    ASSUME TypeOK, NEW e \in Events, PushEvent(e)
    PROVE  \/ writer.at = "closed"
           \/ e \in Range(channel') /\ \A x \in Range(channel) : x \in Range(channel')
<1>1. channel \in Seq(Events)
  BY DEF TypeOK
<1>2. ASSUME channel' = Append(channel, e)
      PROVE  \A x : x \in Range(channel) \/ x = e => x \in Range(channel')
  BY <1>1, <1>2, RangeOfAppend
<1> QED BY <1>2 DEF PushEvent

LEMMA CallerBytesInv ==
    ASSUME TypeInv, SlotInv, BytesInv, NEW r \in Requests,
           Start(r) \/ CallerStep(r) \/ RequestTimeout(r) \/ Abandon(r)
    PROVE  BytesInv'
<1> USE DEF BytesInv, BytesAreAnnounced, SendersAreCurrent, NothingIsWrittenTwice, FlushComing, Pending,
        SlotInv, CallerHoldsLock, TypeInv, TypeOK, vars, mutexVars, queueVars, flagVars, writerVars,
        callerVars, loopVars, clientVars
<1>1. CASE Start(r)  BY <1>1 DEF Start
<1>2. CASE Send(r)
  <2>1. \A q \in Range(queueToDeliver') : q \in Range(queueToDeliver) \/ q = r
    BY <1>2, AppendedRange DEF Send
  <2>2. connectionId = stream
    BY <1>2 DEF Send, StreamIsCurrent
  <2> QED BY <1>2, <2>1, <2>2 DEF Send
<1>3. CASE SendRejected(r)  BY <1>3 DEF SendRejected, Fail, SendError
<1>4. CASE NotifyWriter(r)
  <2>1. Event("Flush", conn[r]) \in Events
    BY DEF Event, Events
  <2>2. conn[r] = stream /\ UNCHANGED <<stream, writer>>
    BY <1>4 DEF NotifyWriter
  <2>3. FlushComing'
    BY <1>4, <2>1, <2>2, PushEventKeeps DEF NotifyWriter
  <2> QED BY <1>4, <2>3 DEF NotifyWriter
<1>5. CASE TakeResult(r)  BY <1>5 DEF TakeResult
<1>6. CASE DialTimesOut(r)  BY <1>6 DEF DialTimesOut, Fail
<1>7. CASE DialRefused(r)  BY <1>7 DEF DialRefused, Fail, EnsureWriter, Writer
<1>8. CASE Dial(r)  BY <1>8 DEF Dial, EnsureWriter, Writer
<1>9. CASE Install(r)
  <2>1. queueToDeliver' = <<>> /\ lock' = "free" /\ pc' = [pc EXCEPT ![r] = "sending"]
    BY <1>9 DEF Install, ProcessDisconnect
  <2>2. \A q \in Requests : pc'[q] # "notifying"
    BY <1>9, <2>1 DEF Install
  <2> QED BY <2>1, <2>2, RangeOfEmpty
<1>10. CASE Upgrade(r)  BY <1>10 DEF Upgrade
<1>11. CASE UpgradeRejected(r)  BY <1>11 DEF UpgradeRejected, UpgradeError
<1>12. CASE RequestTimeout(r)  BY <1>12 DEF RequestTimeout, Fail
<1>13. CASE Abandon(r)  BY <1>13 DEF Abandon
<1>14. CASE Replace(r)  BY <1>14 DEF Replace
<1> QED BY <1>1, <1>2, <1>3, <1>4, <1>5, <1>6, <1>7, <1>8, <1>9, <1>10, <1>11, <1>12, <1>13, <1>14
   DEF CallerStep

LEMMA WriterBytesInv ==
    ASSUME TypeInv, SlotInv, BytesInv, WriterStep
    PROVE  BytesInv'
<1> USE RangeOfEmpty DEF BytesInv, BytesAreAnnounced, SendersAreCurrent, NothingIsWrittenTwice, FlushComing,
        Pending, mutexVars, queueVars, flagVars, writerVars, callerVars, loopVars, clientVars
<1>1. CASE WriterRecv
  <2>1. \A x \in Range(channel) : x = Head(channel) \/ x \in Range(channel')
    BY <1>1, RangeOfTail DEF WriterRecv, TypeInv, TypeOK
  <2>2. FlushComing => FlushComing'
    BY <1>1, <2>1 DEF WriterRecv, Writer, Event
  <2> QED BY <1>1, <2>2 DEF WriterRecv
<1>2. CASE FlushBegin  BY <1>2 DEF FlushBegin
<1>3. CASE FlushNothing
  <2>1. CASE writer = Writer("flush", stream) /\ state = "Connected"
    <3>1. IsMyConnectionId(stream) /\ writer.id = stream
      BY <1>3, <2>1 DEF FlushNothing, SlotInv, StreamIsCurrent, IsMyConnectionId, Writer
    <3>2. queueToDeliver = <<>>
      BY <1>3, <2>1, <3>1 DEF FlushNothing, HasPayload
    <3> QED BY <1>3, <3>2 DEF FlushNothing
  <2>2. CASE writer # Writer("flush", stream)
    BY <1>3, <2>2 DEF FlushNothing
  <2>3. CASE state # "Connected"
    BY <1>3, <2>3 DEF FlushNothing
  <2> QED BY <2>1, <2>2, <2>3
<1>4. CASE FlushEnds  BY <1>4 DEF FlushEnds
<1>5. CASE FlushFails  BY <1>5 DEF FlushFails
<1>6. CASE FlushPanics  BY <1>6 DEF FlushPanics
<1> QED BY <1>1, <1>2, <1>3, <1>4, <1>5, <1>6 DEF WriterStep

LEMMA LoopBytesInv ==
    ASSUME TypeInv, WaitInv, BytesInv, NEW c \in Conns, LoopStep(c) \/ HandleDisconnect(c)
    PROVE  BytesInv'
<1> USE DEF BytesInv, BytesAreAnnounced, SendersAreCurrent, NothingIsWrittenTwice, FlushComing,
        Pending, mutexVars, queueVars, flagVars, writerVars, callerVars, loopVars, clientVars
<1>1. CASE PopTake(c)
  <2>1. UNCHANGED <<mutexVars, writerVars, pc, conn>>
    BY <1>1 DEF PopTake
  <2>2. \A r \in Requests : result'[r] = "pending" => Pending(r)
    <3>1. CASE queueOfRequests = <<>>
      BY <1>1, <3>1 DEF PopTake
    <3>2. CASE queueOfRequests # <<>>
      BY <1>1, <3>2, DeliverKeepsOthers DEF PopTake, WaitInv, TypeInv
    <3> QED BY <3>1, <3>2
  <2>3. \A r \in Range(queueToDeliver) : r \in Requests
    BY DEF TypeInv, TypeOK, Range
  <2> QED BY <2>1, <2>2, <2>3
<1>2. CASE ~PopTake(c)
  <2>1. UNCHANGED <<stream, state, queueToDeliver, writerVars, callerVars>>
        /\ (lock' = lock \/ lock' = "lose")
    BY <1>2 DEF LoopStep, LoopCheck, ReadReply, ReadInvalid, ReadFails, BodyEnds, PopCheck,
                LoopDisconnect, LoopStopped, LoopClose, HandleDisconnect, BeginDisconnect
  <2> QED BY <2>1
<1> QED BY <1>1, <1>2

LEMMA DisposeBytesInv ==
    ASSUME TypeInv, BytesInv, DropClient \/ DisposeStep
    PROVE  BytesInv'
<1> USE DEF BytesInv, BytesAreAnnounced, SendersAreCurrent, NothingIsWrittenTwice, FlushComing,
        Pending, mutexVars, queueVars, flagVars, writerVars, callerVars, loopVars, clientVars
<1>1. CASE DropClient  BY <1>1 DEF DropClient
<1>2. CASE DisposeBegin  BY <1>2 DEF DisposeBegin
<1>3. CASE FinishDisconnect  BY <1>3 DEF FinishDisconnect, ProcessDisconnect
<1>4. CASE SendClose
  <2>1. Event("Close", 0) \in Events
    BY DEF Event, Events, ConnIds
  <2>2. FlushComing => FlushComing'
    BY <1>4, <2>1, PushEventKeeps DEF SendClose, TypeInv
  <2> QED BY <1>4, <2>2 DEF SendClose
<1> QED BY <1>1, <1>2, <1>3, <1>4 DEF DisposeStep

LEMMA NextBytesInv ==
    ASSUME TypeInv, SlotInv, WaitInv, BytesInv, [Next]_vars
    PROVE  BytesInv'
<1>1. CASE Terminated \/ UNCHANGED vars
  BY <1>1 DEF Terminated, BytesInv, BytesAreAnnounced, SendersAreCurrent, NothingIsWrittenTwice,
              FlushComing, Pending, vars, mutexVars, queueVars, writerVars, callerVars
<1> QED BY <1>1, CallerBytesInv, WriterBytesInv, LoopBytesInv, DisposeBytesInv DEF Next

\* The bytes of a caller that waits are always announced to the write loop, also when the sender
\* behind whose Flush they were queued vanished, or the connection was replaced meanwhile.
THEOREM NoFlushIsEverLost == Spec => []NoLostFlush
<1> DEFINE Inv == TypeInv /\ SlotInv /\ WaitInv /\ BytesInv
<1>1. Init => Inv
  BY InitTypeInv DEF Init, SlotInv, CallerHoldsLock, StreamIsCurrent, WaitInv, PendingCallersWait,
     WaitersAreTracked, Pending, BytesInv, BytesAreAnnounced, SendersAreCurrent, NothingIsWrittenTwice
<1>2. Inv /\ [Next]_vars => Inv'
  BY NextTypeInv, NextSlotInv, NextWaitInv, NextBytesInv
<1>3. Inv => NoLostFlush
  BY DEF BytesInv, BytesAreAnnounced, FlushComing, NoLostFlush, SlotInv, CallerHoldsLock,
         TypeInv, TypeOK, Range
<1> QED BY <1>1, <1>2, <1>3, PTL DEF Spec
=============================================================================
