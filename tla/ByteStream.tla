----------------------------- MODULE ByteStream -----------------------------
(***************************************************************************)
(* What a reader of a connection promises: whatever the sizes in which the *)
(* bytes arrive, it hands out the stream of the server from its first byte *)
(* on, in order, each byte once, and a line ends at the first CR LF.       *)
(* TcpBuffer, with the timed reads around it, implements it                *)
(* (TcpBuffer!Bytes).                                                      *)
(***************************************************************************)
EXTENDS Integers

CONSTANT StreamLength

VARIABLES
    text,      \* what every byte of the stream is; bytes are numbered from 1
    position,  \* bytes taken off the stream
    given      \* the bytes handed out last, by their numbers

streamVars == <<text, position, given>>

Kinds == {"cr", "lf", "other"}

Segment(from, n) == [i \in 1 .. n |-> from + i]

CrlfAt(p) == p + 1 <= StreamLength /\ text[p] = "cr" /\ text[p + 1] = "lf"

StreamInit ==
    /\ text \in [1 .. StreamLength -> Kinds]
    /\ position = 0
    /\ given = <<>>

\* The line of n bytes, without its end.
Line(n) ==
    /\ CrlfAt(position + n + 1)
    /\ \A k \in 1 .. n : ~CrlfAt(position + k)
    /\ given' = Segment(position, n)
    /\ position' = position + n + 2
    /\ UNCHANGED text

Bytes(n) ==
    /\ position + n <= StreamLength
    /\ given' = Segment(position, n)
    /\ position' = position + n
    /\ UNCHANGED text

Skip(n) ==
    /\ position + n <= StreamLength
    /\ given' = <<>>
    /\ position' = position + n
    /\ UNCHANGED text

StreamNext == \E n \in 0 .. StreamLength : Line(n) \/ Bytes(n) \/ Skip(n)

StreamSpec == StreamInit /\ [][StreamNext]_streamVars
=============================================================================
