------------------------------ MODULE TcpBuffer ------------------------------
(***************************************************************************)
(* The read side of an HTTP/1.1 connection below the parsers: TcpBuffer    *)
(* (tcp_buffer.rs), the reads with a time-out that fill it                 *)
(* (read_with_timeout.rs), and the order in which read_loop, read_headers  *)
(* and the body readers call them.                                         *)
(*                                                                         *)
(* The server's bytes are numbered, and a cell of the buffer holds the     *)
(* number of the byte that was read into it, so that a stale, lost or      *)
(* misplaced byte is visible.  Of its value only CR and LF matter.  How    *)
(* long a body is, and what follows a line, is for the parsers to say      *)
(* (ResponseFraming): any choice is allowed here.  An action is one call   *)
(* on the buffer, one read of the socket, or one block that compact moves. *)
(***************************************************************************)
EXTENDS Integers

CONSTANTS
    BufferSize,    \* BUFFER_SIZE, 512 KiB
    BlockSize,     \* TEMP_BUFFER_SIZE, what compact moves at once
    StreamLength,  \* bound on what the server sends
    MaxBody        \* bound on the length of a body or chunk

ASSUME BufferAssumption ==
    /\ BufferSize \in Nat /\ BufferSize >= 2
    /\ BlockSize \in Nat \ {0}
    /\ StreamLength \in Nat
    /\ MaxBody \in Nat

VARIABLES
    text,          \* what the server sends: is byte i a CR, a LF or another one
    received,      \* bytes read off the socket
    buffer,        \* its cells; 0 is the initial content
    read_pos,      \* end of what was read into the buffer
    consumed_pos,  \* end of what was taken out of it
    move,          \* the local variables of compact
    at,            \* where the reader is
    resume,        \* the loop that called read_to_buffer
    want,          \* bytes that read_exact has still to read
    given,         \* history: the bytes handed out last
    taken          \* history: how many were taken off the stream

stream == <<text, received>>
positions == <<read_pos, consumed_pos>>
reader == <<at, resume, want>>
history == <<given, taken>>
vars == <<stream, buffer, positions, move, reader, history>>

Cells == 0 .. BufferSize - 1
Kinds == {"cr", "lf", "other"}
Loops == {"scan", "skipSeparator", "skipEnd"}
Moves == [pos : Nat, dest_pos : Nat, remains_to_move : Nat, size : Nat]
NoMove == [pos |-> 0, dest_pos |-> 0, remains_to_move |-> 0, size |-> 0]

Init ==
    /\ text \in [1 .. StreamLength -> Kinds]
    /\ received = 0
    /\ buffer = [i \in Cells |-> 0]
    /\ read_pos = 0
    /\ consumed_pos = 0
    /\ move = NoMove
    /\ at = "top"
    /\ resume = "scan"
    /\ want = 0
    /\ given = <<>>
    /\ taken = 0

TypeOK ==
    /\ text \in [1 .. StreamLength -> Kinds]
    /\ received \in 0 .. StreamLength
    /\ buffer \in [Cells -> 0 .. StreamLength]
    /\ read_pos \in 0 .. BufferSize
    /\ consumed_pos \in 0 .. read_pos
    /\ move \in Moves
    /\ at \in Loops \cup {"top", "line", "fill", "move", "await", "rest", "chunk",
                          "close", "refused", "ended"}
    /\ resume \in Loops
    /\ want \in 0 .. MaxBody
    /\ taken \in 0 .. StreamLength
-----------------------------------------------------------------------------
(* get_write_buf and compact *)

IsEmpty == read_pos = consumed_pos

\* Mutant: compact is not tried.
RefuseWhenFull ==
    /\ at = "fill"
    /\ read_pos = BufferSize
    /\ at' = "refused"
    /\ UNCHANGED <<stream, buffer, positions, move, resume, want, history>>

\* read_to_buffer gives up: there is no room to read into.
Refuse ==
    /\ at = "fill"
    /\ consumed_pos = 0
    /\ read_pos = BufferSize
    /\ at' = "refused"
    /\ UNCHANGED <<stream, buffer, positions, move, resume, want, history>>

\* The rest of the buffer is free.
WriteBehind ==
    /\ at = "fill"
    /\ consumed_pos = 0
    /\ read_pos # BufferSize
    /\ at' = "await"
    /\ UNCHANGED <<stream, buffer, positions, move, resume, want, history>>

IsDrained == consumed_pos >= read_pos

\* Everything was consumed: the whole buffer is free again.
Reset ==
    /\ at = "fill"
    /\ consumed_pos # 0
    /\ IsDrained
    /\ read_pos' = 0
    /\ consumed_pos' = 0
    /\ at' = "await"
    /\ UNCHANGED <<stream, buffer, move, resume, want, history>>

\* compact: what was not consumed is moved to the front, block by block.
CompactBegin ==
    /\ at = "fill"
    /\ consumed_pos # 0
    /\ ~IsDrained
    /\ move' = [pos |-> consumed_pos, dest_pos |-> 0,
                remains_to_move |-> read_pos - consumed_pos, size |-> read_pos - consumed_pos]
    /\ at' = "move"
    /\ UNCHANGED <<stream, buffer, positions, resume, want, history>>

\* The buffer with n cells copied from from to to, through a temporary one.
Moved(from, to, n) ==
    [i \in Cells |-> IF i \in to .. to + n - 1 THEN buffer[from + (i - to)] ELSE buffer[i]]

CompactBlock ==
    /\ at = "move"
    /\ move.remains_to_move >= BlockSize
    /\ buffer' = Moved(move.pos, move.dest_pos, BlockSize)
    /\ move' = [move EXCEPT !.pos = @ + BlockSize, !.dest_pos = @ + BlockSize,
                            !.remains_to_move = @ - BlockSize]
    /\ UNCHANGED <<stream, positions, reader, history>>

\* Mutant: the last, shorter block is forgotten.
CompactEndShort ==
    /\ at = "move"
    /\ move.remains_to_move < BlockSize
    /\ consumed_pos' = 0
    /\ read_pos' = move.size
    /\ move' = NoMove
    /\ at' = "await"
    /\ UNCHANGED <<stream, buffer, resume, want, history>>

CompactEnd ==
    /\ at = "move"
    /\ move.remains_to_move < BlockSize
    /\ buffer' = Moved(move.pos, move.dest_pos, move.remains_to_move)
    /\ consumed_pos' = 0
    /\ read_pos' = move.size
    /\ move' = NoMove
    /\ at' = "await"
    /\ UNCHANGED <<stream, resume, want, history>>
-----------------------------------------------------------------------------
(* Reads of the socket *)

\* read_to_buffer: the socket had n bytes; add_read_amount.
SocketRead(n) ==
    /\ at = "await"
    /\ n <= BufferSize - read_pos
    /\ received + n <= StreamLength
    /\ buffer' = [i \in Cells |-> IF i \in read_pos .. read_pos + n - 1
                                  THEN received + 1 + (i - read_pos) ELSE buffer[i]]
    /\ read_pos' = read_pos + n
    /\ received' = received + n
    /\ at' = resume
    /\ UNCHANGED <<text, consumed_pos, move, resume, want, history>>

\* read_exact: n bytes go past the buffer, straight into the body.
ExactRead(n) ==
    /\ at \in {"rest", "chunk"}
    /\ n <= want
    /\ received + n <= StreamLength
    /\ received' = received + n
    /\ want' = want - n
    /\ given' = [i \in 1 .. n |-> received + i]
    /\ taken' = taken + n
    /\ UNCHANGED <<text, buffer, positions, move, at, resume>>

\* read_until_close: so do the bytes of a body that ends with the connection.
CloseRead(n) ==
    /\ at = "close"
    /\ received + n <= StreamLength
    /\ received' = received + n
    /\ given' = [i \in 1 .. n |-> received + i]
    /\ taken' = taken + n
    /\ UNCHANGED <<text, buffer, positions, move, reader>>

\* The socket is closed or fails, or the read timed out.
ReadEnds ==
    /\ at \in {"await", "close"} \/ (at \in {"rest", "chunk"} /\ want > 0)
    /\ at' = "ended"
    /\ UNCHANGED <<stream, buffer, positions, move, resume, want, history>>
-----------------------------------------------------------------------------
(* The readers *)

\* do_read_to_buffer only matters for an empty buffer.
NeedsRead == IsEmpty

ReadToBuffer(loop) == at' = "fill" /\ resume' = loop

\* Top of read_loop.
Top ==
    /\ at = "top"
    /\ IF NeedsRead THEN ReadToBuffer("scan") ELSE at' = "scan" /\ UNCHANGED resume
    /\ UNCHANGED <<stream, buffer, positions, move, want, history>>

\* The buffer has CR LF at p.
CrlfIn(p) ==
    LET kind(i) == IF buffer[i] = 0 THEN "other" ELSE text[buffer[i]]
    IN  kind(p) = "cr" /\ kind(p + 1) = "lf"

\* Mutant: the scan reads one cell past what was read.
ScanEndBeyond == read_pos

ScanEnd == read_pos - 1

FoundAt(p) ==
    /\ p \in consumed_pos .. ScanEnd - 1
    /\ p + 1 \in Cells
    /\ CrlfIn(p)
    /\ \A q \in consumed_pos .. p - 1 : ~CrlfIn(q)

HasLine == \E p \in consumed_pos .. ScanEnd - 1 : p + 1 \in Cells /\ CrlfIn(p)

Unread(n) == [i \in 1 .. n |-> buffer[consumed_pos + i - 1]]

\* read_until_crlf finds a line.
ReadLine ==
    /\ at = "scan"
    /\ \E p \in Cells :
        /\ FoundAt(p)
        /\ given' = Unread(p - consumed_pos)
        /\ taken' = taken + (p - consumed_pos) + 2
        /\ consumed_pos' = p + 2
    /\ at' = "line"
    /\ UNCHANGED <<stream, buffer, read_pos, move, resume, want>>

\* read_until_crlf finds none: more is read.
NoLine ==
    /\ at = "scan"
    /\ ~HasLine
    /\ ReadToBuffer("scan")
    /\ UNCHANGED <<stream, buffer, positions, move, want, history>>

\* The line was a header or a status, the last line of a head without a body, or the size of the
\* last chunk.
AfterLine ==
    /\ at = "line"
    /\ at' \in {"scan", "top", "skipEnd"}
    /\ UNCHANGED <<stream, buffer, positions, move, resume, want, history>>

Smaller(m, n) == IF m <= n THEN m ELSE n

\* get_as_much_as_possible, then read_exact for the rest: a body or a chunk of size bytes.
TakeBody(size) ==
    /\ at = "line"
    /\ LET amount == Smaller(read_pos - consumed_pos, size)
       IN  /\ given' = Unread(amount)
           /\ taken' = taken + amount
           /\ consumed_pos' = consumed_pos + amount
           /\ want' = size - amount
    /\ at' \in {"rest", "chunk"}
    /\ UNCHANGED <<stream, buffer, read_pos, move, resume>>

BodyEnds ==
    /\ at \in {"rest", "chunk"}
    /\ want = 0
    /\ at' = IF at = "rest" THEN "top" ELSE "skipSeparator"
    /\ UNCHANGED <<stream, buffer, positions, move, resume, want, history>>

\* read_until_close takes all that is buffered first.
TakeUntilClose ==
    /\ at = "line"
    /\ given' = Unread(read_pos - consumed_pos)
    /\ taken' = taken + (read_pos - consumed_pos)
    /\ consumed_pos' = read_pos
    /\ at' = "close"
    /\ UNCHANGED <<stream, buffer, read_pos, move, resume, want>>

\* Mutant: off by one.
HasOne == consumed_pos + 1 <= read_pos

HasTwo == consumed_pos + 2 <= read_pos

\* skip_exactly(2): the CR LF behind a chunk, or behind the last one.
Skip ==
    /\ at \in {"skipSeparator", "skipEnd"}
    /\ HasTwo
    /\ consumed_pos' = consumed_pos + 2
    /\ given' = <<>>
    /\ taken' = taken + 2
    /\ at' = IF at = "skipSeparator" THEN "scan" ELSE "top"
    /\ UNCHANGED <<stream, buffer, read_pos, move, resume, want>>

SkipReadsMore ==
    /\ at \in {"skipSeparator", "skipEnd"}
    /\ ~HasTwo
    /\ ReadToBuffer(at)
    /\ UNCHANGED <<stream, buffer, positions, move, want, history>>

\* The loop returned.
Ended == at \in {"refused", "ended"} /\ UNCHANGED vars

Next ==
    \/ Refuse \/ WriteBehind \/ Reset \/ CompactBegin \/ CompactBlock \/ CompactEnd
    \/ \E n \in 1 .. StreamLength : SocketRead(n) \/ ExactRead(n) \/ CloseRead(n)
    \/ ReadEnds
    \/ Top \/ ReadLine \/ NoLine \/ AfterLine
    \/ \E size \in 1 .. MaxBody : TakeBody(size)
    \/ BodyEnds \/ TakeUntilClose \/ Skip \/ SkipReadsMore
    \/ Ended

Spec == Init /\ [][Next]_vars
-----------------------------------------------------------------------------
(* Properties *)

\* What is between the two positions is what was read off the socket and not taken yet, in
\* order: read_exact and read_until_close, which go past the buffer, find it drained, and no scan
\* starts at read_pos = 0, where read_pos - 1 would wrap round and the scan run over the stale
\* content of the buffer (tcp_buffer.rs:92).
UnreadIsTheStream ==
    at # "move" =>
        /\ received = taken + (read_pos - consumed_pos)
        /\ \A i \in consumed_pos .. read_pos - 1 : buffer[i] = taken + 1 + (i - consumed_pos)
        /\ at = "close" \/ (at \in {"rest", "chunk"} /\ want > 0) => IsEmpty
        /\ at = "scan" => read_pos > 0

\* A response is refused for its size only if its unread part fills the whole buffer and holds
\* no end of line: room that compact could make is never overlooked.
RefusedIsTooLong ==
    at = "refused" =>
        /\ received - taken = BufferSize
        /\ resume = "scan"
        /\ \A k \in taken + 1 .. received - 1 : ~(text[k] = "cr" /\ text[k + 1] = "lf")

\* Whatever the sizes of the reads, the readers are given the stream of the server.
Bytes == INSTANCE ByteStream WITH position <- taken

BytesSpec == Bytes!StreamSpec
=============================================================================
