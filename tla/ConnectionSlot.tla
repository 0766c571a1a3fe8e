-------------------------- MODULE ConnectionSlot --------------------------
(***************************************************************************)
(* What a client of this crate promises about the one connection it keeps: *)
(* the state enum the clients guard with their mutex, seen from outside.   *)
(* A connection enters the slot at most once, is upgraded to a WebSocket   *)
(* only while the slot is connected to it, leaves when it is lost, and is  *)
(* never installed again; a disposed slot stays disposed.                  *)
(* WritePartState of http1, MyHttp2ConnectionState of http2 and            *)
(* MyHttpHyperConnectionState of http1_hyper implement it (Slot in         *)
(* Http1Client, Http2Client and HyperClient).                              *)
(***************************************************************************)
CONSTANT Connections

VARIABLES
    status,  \* of the slot
    holder,  \* the connection in the slot, or the last one that was
    used     \* the connections that were ever in the slot

slotVars == <<status, holder, used>>

Occupied == status \in {"Connected", "UpgradedToWebSocket"}

SlotInit ==
    /\ status = "Disconnected"
    /\ used = {}

\* A new connection replaces whatever the slot holds.
Enter(c) ==
    /\ status # "Disposed"
    /\ c \notin used
    /\ status' = "Connected"
    /\ holder' = c
    /\ used' = used \cup {c}

BecomeWebSocket ==
    /\ status = "Connected"
    /\ status' = "UpgradedToWebSocket"
    /\ UNCHANGED <<holder, used>>

Leave ==
    /\ Occupied
    /\ status' = "Disconnected"
    /\ UNCHANGED <<holder, used>>

BeDisposed ==
    /\ status # "Disposed"
    /\ status' = "Disposed"
    /\ UNCHANGED <<holder, used>>

SlotNext == (\E c \in Connections : Enter(c)) \/ BecomeWebSocket \/ Leave \/ BeDisposed

SlotSpec == SlotInit /\ [][SlotNext]_slotVars
=============================================================================
