--------------------------- MODULE TcpBufferProofs ---------------------------
(***************************************************************************)
(* Theorems about TcpBuffer, for every size of the buffer, every block of  *)
(* compact, every stream and every way the socket cuts it into reads.      *)
(***************************************************************************)
EXTENDS TcpBuffer, TLAPS

\* What was read and not taken is accounted for, also while it is moved.
Accounted == received = taken + (read_pos - consumed_pos)

Content ==
    at # "move" => \A i \in consumed_pos .. read_pos - 1 : buffer[i] = taken + 1 + (i - consumed_pos)

\* While compact runs, what it has moved is at the front, and what it has not is still in place.
Moving ==
    at = "move" =>
        /\ 0 < consumed_pos
        /\ move.size = read_pos - consumed_pos
        /\ move.pos = consumed_pos + move.dest_pos
        /\ move.dest_pos + move.remains_to_move = move.size
        /\ \A i \in 0 .. move.dest_pos - 1 : buffer[i] = taken + 1 + i
        /\ \A i \in move.pos .. read_pos - 1 : buffer[i] = taken + 1 + (i - consumed_pos)

Drained == at = "close" \/ (at \in {"rest", "chunk"} /\ want > 0) => IsEmpty

HasRead == at \in Loops \cup {"line", "rest", "chunk"} => read_pos > 0

NoLineInUnread ==
    \A k \in taken + 1 .. received - 1 : ~(text[k] = "cr" /\ text[k + 1] = "lf")

\* read_to_buffer is called for lack of bytes.
Lacks ==
    at = "fill" =>
        /\ resume = "scan" => NoLineInUnread
        /\ resume # "scan" => read_pos - consumed_pos < 2

BufferInv == /\ TypeOK /\ Accounted /\ Content /\ Moving /\ Drained /\ HasRead /\ Lacks
             /\ RefusedIsTooLong

LEMMA InitBufferInv == Init => BufferInv
<1> SUFFICES ASSUME Init PROVE BufferInv
  OBVIOUS
<1>1. TypeOK
  BY BufferAssumption DEF Init, TypeOK, Cells, Loops, Moves, NoMove
<1>2. Accounted /\ Content /\ Moving /\ Drained /\ HasRead /\ Lacks /\ RefusedIsTooLong
  BY DEF Init, Accounted, Content, Moving, Drained, IsEmpty, HasRead, Loops, Lacks, RefusedIsTooLong
<1> QED BY <1>1, <1>2 DEF BufferInv

\* The segment that is handed out from the buffer is the next one of the stream.
LEMMA UnreadIsSegment ==
    ASSUME BufferInv, at # "move", NEW n \in Nat, n <= read_pos - consumed_pos
    PROVE  Unread(n) = Bytes!Segment(taken, n)
<1> SUFFICES ASSUME NEW i \in 1 .. n
             PROVE  buffer[consumed_pos + i - 1] = taken + i
  BY DEF Unread, Bytes!Segment
<1>1. consumed_pos + i - 1 \in consumed_pos .. read_pos - 1
  BY DEF BufferInv, TypeOK
<1>2. buffer[consumed_pos + i - 1] = taken + 1 + ((consumed_pos + i - 1) - consumed_pos)
  BY <1>1 DEF BufferInv, Content
<1> QED BY <1>2 DEF BufferInv, TypeOK

\* A CR LF in the unread cells is one in the stream.
LEMMA CrlfInIsInStream ==
    ASSUME BufferInv, at # "move", NEW p \in consumed_pos .. read_pos - 2
    PROVE  /\ taken + 1 + (p - consumed_pos) \in 1 .. received - 1
           /\ CrlfIn(p) <=> /\ text[taken + 1 + (p - consumed_pos)] = "cr"
                            /\ text[taken + 2 + (p - consumed_pos)] = "lf"
<1>1. /\ buffer[p] = taken + 1 + (p - consumed_pos)
      /\ buffer[p + 1] = taken + 1 + ((p + 1) - consumed_pos)
  BY DEF BufferInv, Content, TypeOK
<1>2. /\ taken + 1 + (p - consumed_pos) \in 1 .. received - 1
      /\ taken + 1 + ((p + 1) - consumed_pos) = taken + 2 + (p - consumed_pos)
  BY DEF BufferInv, Accounted, TypeOK
<1>3. buffer[p] # 0 /\ buffer[p + 1] # 0
  BY <1>1, <1>2 DEF BufferInv, TypeOK
<1> QED BY <1>1, <1>2, <1>3 DEF CrlfIn

-----------------------------------------------------------------------------
(* Every action preserves the invariant *)

\* The steps that only move the reader.
MovesReader ==
    \/ WriteBehind \/ Refuse \/ ReadEnds \/ Top \/ NoLine \/ AfterLine \/ BodyEnds
    \/ SkipReadsMore \/ Ended

LEMMA MovesReaderKeeps == ASSUME BufferInv, MovesReader PROVE BufferInv'
<1>1. UNCHANGED <<stream, buffer, positions, move, want, history>>
  BY DEF MovesReader, WriteBehind, Refuse, ReadEnds, Top, NoLine, AfterLine, BodyEnds,
         SkipReadsMore, Ended, vars, reader
<1>2. (at' # "move" /\ at # "move") \/ UNCHANGED <<at, resume>>
  BY DEF MovesReader, WriteBehind, Refuse, ReadEnds, Top, NoLine, AfterLine, BodyEnds,
         SkipReadsMore, Ended, vars, reader, ReadToBuffer
<1>3. TypeOK'
  <2>1. at' \in Loops \cup {"top", "line", "fill", "move", "await", "rest", "chunk",
                           "close", "refused", "ended"} /\ resume' \in Loops
    BY DEF BufferInv, TypeOK, MovesReader, WriteBehind, Refuse, ReadEnds, Top, NoLine, AfterLine,
           BodyEnds, SkipReadsMore, Ended, vars, reader, ReadToBuffer, Loops
  <2> QED BY <1>1, <2>1 DEF BufferInv, TypeOK, stream, positions, history
<1>4. Accounted' /\ Content' /\ Moving'
  BY <1>1, <1>2 DEF BufferInv, Accounted, Content, Moving, stream, positions, history
<1>5. Drained'
  BY <1>1 DEF BufferInv, Drained, IsEmpty, MovesReader, WriteBehind, Refuse, ReadEnds, Top, NoLine,
         AfterLine, BodyEnds, SkipReadsMore, Ended, vars, reader, ReadToBuffer, positions
<1>6. HasRead'
  BY <1>1 DEF BufferInv, TypeOK, HasRead, IsEmpty, NeedsRead, MovesReader, WriteBehind, Refuse,
         ReadEnds, Top, NoLine, AfterLine, BodyEnds, SkipReadsMore, Ended, vars, reader,
         ReadToBuffer, positions, Loops
<1>7. Lacks'
  <2> SUFFICES ASSUME at' = "fill" PROVE Lacks'
    BY DEF Lacks
  <2>1. CASE Ended
    BY <2>1 DEF Ended, BufferInv, vars, reader
  <2>2. CASE Top
    <3>1. read_pos = consumed_pos /\ resume' = "scan"
      BY <2>2 DEF Top, NeedsRead, IsEmpty, ReadToBuffer
    <3>2. received = taken
      BY <3>1 DEF BufferInv, Accounted, TypeOK
    <3>3. NoLineInUnread'
      BY <3>2, <1>1 DEF NoLineInUnread, stream, history, BufferInv, TypeOK
    <3> QED BY <3>1, <3>3 DEF Lacks
  <2>3. CASE NoLine
    <3>1. NoLineInUnread'
      <4>1. SUFFICES ASSUME NEW k \in taken + 1 .. received - 1, text[k] = "cr", text[k + 1] = "lf"
                     PROVE  FALSE
        BY <1>1 DEF NoLineInUnread, stream, history
      <4> DEFINE p == consumed_pos + (k - taken - 1)
      <4>2. /\ p \in consumed_pos .. read_pos - 2
            /\ k = taken + 1 + (p - consumed_pos) /\ k + 1 = taken + 2 + (p - consumed_pos)
        BY DEF BufferInv, TypeOK, Accounted
      <4>3. at # "move"
        BY <2>3 DEF NoLine
      <4>4. CrlfIn(p)
        BY <4>1, <4>2, <4>3, CrlfInIsInStream
      <4>5. p \in consumed_pos .. ScanEnd - 1 /\ p + 1 \in Cells
        BY <4>2, BufferAssumption DEF ScanEnd, Cells, BufferInv, TypeOK
      <4> QED BY <4>4, <4>5, <2>3 DEF NoLine, HasLine
    <3>2. resume' = "scan"
      BY <2>3 DEF NoLine, ReadToBuffer
    <3> QED BY <3>1, <3>2 DEF Lacks
  <2>4. CASE SkipReadsMore
    <3>1. resume' # "scan" /\ read_pos - consumed_pos < 2
      BY <2>4 DEF SkipReadsMore, ReadToBuffer, HasTwo, BufferInv, TypeOK
    <3> QED BY <3>1, <1>1 DEF Lacks, positions
  <2> QED BY <2>1, <2>2, <2>3, <2>4 DEF MovesReader, WriteBehind, Refuse, ReadEnds, AfterLine, BodyEnds
<1>8. RefusedIsTooLong'
  <2> SUFFICES ASSUME at' = "refused" PROVE RefusedIsTooLong'
    BY DEF RefusedIsTooLong
  <2>1. CASE Ended
    BY <2>1, <1>1 DEF Ended, BufferInv, RefusedIsTooLong, vars, reader, stream, positions, history
  <2>2. CASE Refuse
    <3>1. received - taken = BufferSize
      BY <2>2 DEF Refuse, BufferInv, Accounted, TypeOK
    <3>2. resume = "scan" /\ NoLineInUnread
      BY <2>2, BufferAssumption DEF Refuse, BufferInv, Lacks, TypeOK
    <3> QED BY <3>1, <3>2, <2>2, <1>1 DEF RefusedIsTooLong, Refuse, NoLineInUnread, stream, history
  <2> QED
    BY <2>1, <2>2 DEF MovesReader, WriteBehind, ReadEnds, Top, NoLine, AfterLine, BodyEnds,
                      SkipReadsMore, ReadToBuffer
<1> QED BY <1>3, <1>4, <1>5, <1>6, <1>7, <1>8 DEF BufferInv

LEMMA ResetKeeps == ASSUME BufferInv, Reset PROVE BufferInv'
<1>1. read_pos = consumed_pos
  BY DEF Reset, IsDrained, BufferInv, TypeOK
<1>2. TypeOK'
  BY BufferAssumption DEF Reset, BufferInv, TypeOK, stream, history
<1>3. Accounted'
  BY <1>1 DEF Reset, BufferInv, Accounted, TypeOK, stream, history
<1>4. Content' /\ Moving' /\ Drained' /\ HasRead' /\ Lacks' /\ RefusedIsTooLong'
  BY DEF Reset, Content, Moving, Drained, HasRead, Loops, Lacks, RefusedIsTooLong
<1> QED BY <1>2, <1>3, <1>4 DEF BufferInv

LEMMA CompactBeginKeeps == ASSUME BufferInv, CompactBegin PROVE BufferInv'
<1>1. consumed_pos < read_pos /\ 0 < consumed_pos
  BY DEF CompactBegin, IsDrained, BufferInv, TypeOK
<1>2. TypeOK'
  BY <1>1 DEF CompactBegin, BufferInv, TypeOK, Moves, stream, positions, history
<1>3. Accounted'
  BY DEF CompactBegin, BufferInv, Accounted, stream, positions, history
<1>4. Moving'
  BY <1>1 DEF CompactBegin, BufferInv, TypeOK, Content, Moving, positions, history
<1>5. Content' /\ Drained' /\ HasRead' /\ Lacks' /\ RefusedIsTooLong'
  BY DEF CompactBegin, Content, Drained, HasRead, Loops, Lacks, RefusedIsTooLong
<1> QED BY <1>2, <1>3, <1>4, <1>5 DEF BufferInv

\* A block is copied in front of where it comes from, so what is still to be moved stays.
LEMMA BlockMoves ==
    ASSUME BufferInv, at = "move", NEW n \in Nat, n <= move.remains_to_move
    PROVE  LET b == Moved(move.pos, move.dest_pos, n)
           IN  /\ b \in [Cells -> 0 .. StreamLength]
               /\ \A i \in 0 .. move.dest_pos + n - 1 : b[i] = taken + 1 + i
               /\ \A i \in move.pos + n .. read_pos - 1 :
                      b[i] = taken + 1 + (i - consumed_pos)
<1> DEFINE b == Moved(move.pos, move.dest_pos, n)
<1>1. /\ move.pos \in Nat /\ move.dest_pos \in Nat /\ move.remains_to_move \in Nat
      /\ read_pos \in 0 .. BufferSize /\ consumed_pos \in 0 .. read_pos /\ 0 < consumed_pos
      /\ move.pos = consumed_pos + move.dest_pos
      /\ move.dest_pos + move.remains_to_move = read_pos - consumed_pos
      /\ BufferSize \in Nat /\ taken \in Nat
  BY BufferAssumption DEF BufferInv, TypeOK, Moving, Moves
<1>2. \A i \in Cells : b[i] = IF i \in move.dest_pos .. move.dest_pos + n - 1
                            THEN buffer[move.pos + (i - move.dest_pos)] ELSE buffer[i]
  BY DEF Moved
<1>3. \A i \in move.dest_pos .. move.dest_pos + n - 1 :
         /\ i \in Cells /\ move.pos + (i - move.dest_pos) \in Cells
         /\ move.pos + (i - move.dest_pos) \in move.pos .. read_pos - 1
         /\ (move.pos + (i - move.dest_pos)) - consumed_pos = i
  BY <1>1 DEF Cells
<1>4. b \in [Cells -> 0 .. StreamLength]
  <2>1. buffer \in [Cells -> 0 .. StreamLength]
    BY DEF BufferInv, TypeOK
  <2>2. \A i \in Cells : b[i] \in 0 .. StreamLength
    BY <1>2, <1>3, <2>1
  <2> QED BY <2>2 DEF Moved
<1>5. \A i \in 0 .. move.dest_pos + n - 1 : b[i] = taken + 1 + i
  <2> SUFFICES ASSUME NEW i \in 0 .. move.dest_pos + n - 1 PROVE b[i] = taken + 1 + i
    OBVIOUS
  <2>1. CASE i < move.dest_pos
    <3>1. i \in 0 .. move.dest_pos - 1 /\ i \in Cells /\ ~(i \in move.dest_pos .. move.dest_pos + n - 1)
      BY <1>1, <2>1 DEF Cells
    <3>2. buffer[i] = taken + 1 + i
      BY <3>1 DEF BufferInv, Moving
    <3> QED BY <3>1, <3>2, <1>2
  <2>2. CASE ~(i < move.dest_pos)
    <3>1. i \in move.dest_pos .. move.dest_pos + n - 1
      BY <1>1, <2>2
    <3>2. b[i] = buffer[move.pos + (i - move.dest_pos)]
      BY <3>1, <1>2, <1>3
    <3>3. buffer[move.pos + (i - move.dest_pos)]
             = taken + 1 + ((move.pos + (i - move.dest_pos)) - consumed_pos)
      BY <3>1, <1>3 DEF BufferInv, Moving
    <3>4. (move.pos + (i - move.dest_pos)) - consumed_pos = i
      BY <3>1, <1>3
    <3> QED BY <3>2, <3>3, <3>4
  <2> QED BY <2>1, <2>2
<1>6. \A i \in move.pos + n .. read_pos - 1 : b[i] = taken + 1 + (i - consumed_pos)
  <2> SUFFICES ASSUME NEW i \in move.pos + n .. read_pos - 1
               PROVE  b[i] = taken + 1 + (i - consumed_pos)
    OBVIOUS
  <2>1. /\ i \in Cells /\ i \in move.pos .. read_pos - 1
        /\ ~(i \in move.dest_pos .. move.dest_pos + n - 1)
    BY <1>1 DEF Cells
  <2>2. buffer[i] = taken + 1 + (i - consumed_pos)
    BY <2>1 DEF BufferInv, Moving
  <2> QED BY <2>1, <2>2, <1>2
<1> QED BY <1>4, <1>5, <1>6

LEMMA CompactBlockKeeps == ASSUME BufferInv, CompactBlock PROVE BufferInv'
<1>1. at = "move" /\ at' = "move" /\ BlockSize \in Nat /\ BlockSize <= move.remains_to_move
  BY BufferAssumption DEF CompactBlock, reader, BufferInv, TypeOK, Moves
<1>2. /\ buffer' \in [Cells -> 0 .. StreamLength]
      /\ \A i \in 0 .. move.dest_pos + BlockSize - 1 : buffer'[i] = taken + 1 + i
      /\ \A i \in move.pos + BlockSize .. read_pos - 1 :
             buffer'[i] = taken + 1 + (i - consumed_pos)
  BY <1>1, BlockMoves DEF CompactBlock
<1>3. move \in Moves
  BY DEF BufferInv, TypeOK
<1>4. /\ move'.pos = move.pos + BlockSize /\ move'.dest_pos = move.dest_pos + BlockSize
      /\ move'.remains_to_move = move.remains_to_move - BlockSize
      /\ move'.size = move.size /\ move' \in Moves
  <2>1. move' = [move EXCEPT !.pos = move.pos + BlockSize, !.dest_pos = move.dest_pos + BlockSize,
                             !.remains_to_move = move.remains_to_move - BlockSize]
    BY DEF CompactBlock
  <2>2. /\ move.pos + BlockSize \in Nat /\ move.dest_pos + BlockSize \in Nat
        /\ move.remains_to_move - BlockSize \in Nat
    BY <1>1, <1>3 DEF Moves
  <2> QED BY <1>3, <2>1, <2>2 DEF Moves
<1>5. TypeOK'
  BY <1>2, <1>4 DEF CompactBlock, BufferInv, TypeOK, stream, positions, reader, history
<1>6. Accounted'
  BY DEF CompactBlock, BufferInv, Accounted, stream, positions, history
<1>7. Moving'
  <2>1. /\ 0 < consumed_pos /\ move.size = read_pos - consumed_pos
        /\ move.pos = consumed_pos + move.dest_pos
        /\ move.dest_pos + move.remains_to_move = move.size
    BY <1>1 DEF BufferInv, Moving
  <2>2. UNCHANGED <<read_pos, consumed_pos, taken>>
    BY DEF CompactBlock, positions, history
  <2>3. /\ consumed_pos \in Nat /\ move.pos \in Nat /\ move.dest_pos \in Nat
        /\ move.remains_to_move \in Nat /\ read_pos \in Nat /\ taken \in Nat
    BY <1>3, BufferAssumption DEF BufferInv, TypeOK, Moves
  <2>4. /\ move'.pos = consumed_pos' + move'.dest_pos
        /\ move'.dest_pos + move'.remains_to_move = move'.size
    BY <1>1, <1>4, <2>1, <2>2, <2>3
  <2>5. \A i \in 0 .. move'.dest_pos - 1 : buffer'[i] = taken' + 1 + i
    BY <1>1, <1>2, <1>4, <2>2, <2>3
  <2>6. \A i \in move'.pos .. read_pos' - 1 : buffer'[i] = taken' + 1 + (i - consumed_pos')
    BY <1>2, <1>4, <2>2, <2>3
  <2> QED BY <1>4, <2>1, <2>2, <2>4, <2>5, <2>6 DEF Moving
<1>8. Content' /\ Drained' /\ HasRead' /\ Lacks' /\ RefusedIsTooLong'
  BY <1>1 DEF Content, Drained, HasRead, Loops, Lacks, RefusedIsTooLong
<1> QED BY <1>5, <1>6, <1>7, <1>8 DEF BufferInv

LEMMA CompactEndKeeps == ASSUME BufferInv, CompactEnd PROVE BufferInv'
<1>1. at = "move" /\ at' = "await" /\ move \in Moves
  BY DEF CompactEnd, BufferInv, TypeOK
<1>2. move.size = read_pos - consumed_pos /\ move.dest_pos + move.remains_to_move = move.size
  BY <1>1 DEF BufferInv, Moving
<1>3. /\ buffer' \in [Cells -> 0 .. StreamLength]
      /\ \A i \in 0 .. move.dest_pos + move.remains_to_move - 1 : buffer'[i] = taken + 1 + i
  BY <1>1, BlockMoves DEF CompactEnd, Moves
<1>4. TypeOK'
  BY <1>1, <1>2, <1>3, BufferAssumption
     DEF CompactEnd, BufferInv, TypeOK, Moves, NoMove, stream, history
<1>5. Accounted'
  BY <1>2 DEF CompactEnd, BufferInv, TypeOK, Accounted, stream, history
<1>6. Content'
  <2>1. consumed_pos' = 0 /\ read_pos' = move.dest_pos + move.remains_to_move /\ taken' = taken
    BY <1>2 DEF CompactEnd, history
  <2>2. \A i \in 0 .. read_pos' - 1 : buffer'[i] = taken' + 1 + (i - 0)
    <3> TAKE i \in 0 .. read_pos' - 1
    <3>1. buffer'[i] = taken + 1 + i
      BY <1>3, <2>1, <1>1 DEF Moves
    <3> QED BY <2>1, <3>1
  <2> QED BY <2>1, <2>2 DEF Content
<1>7. Moving' /\ Drained' /\ HasRead' /\ Lacks' /\ RefusedIsTooLong'
  BY <1>1 DEF Moving, Drained, HasRead, Loops, Lacks, RefusedIsTooLong
<1> QED BY <1>4, <1>5, <1>6, <1>7 DEF BufferInv

LEMMA SocketReadKeeps ==
    ASSUME BufferInv, NEW n \in 1 .. StreamLength, SocketRead(n) PROVE BufferInv'
<1>1. /\ at = "await" /\ at' \in Loops /\ at' = resume
      /\ read_pos \in 0 .. BufferSize /\ consumed_pos \in 0 .. read_pos
      /\ received \in 0 .. StreamLength /\ BufferSize \in Nat /\ StreamLength \in Nat
      /\ taken \in 0 .. StreamLength
      /\ n <= BufferSize - read_pos /\ received + n <= StreamLength
      /\ received = taken + (read_pos - consumed_pos)
  BY BufferAssumption DEF SocketRead, BufferInv, TypeOK, Accounted
<1>2. \A i \in Cells : buffer'[i] = IF i \in read_pos .. read_pos + n - 1
                                  THEN received + 1 + (i - read_pos) ELSE buffer[i]
  BY DEF SocketRead
<1>3. buffer' \in [Cells -> 0 .. StreamLength]
  <2>1. \A i \in Cells : buffer'[i] \in 0 .. StreamLength
    BY <1>1, <1>2 DEF BufferInv, TypeOK
  <2> QED BY <2>1 DEF SocketRead
<1>4. TypeOK'
  BY <1>1, <1>3 DEF SocketRead, BufferInv, TypeOK, history
<1>5. Accounted'
  BY <1>1 DEF SocketRead, Accounted, history
<1>6. Content'
  <2> SUFFICES ASSUME NEW i \in consumed_pos .. read_pos + n - 1
               PROVE  buffer'[i] = taken + 1 + (i - consumed_pos)
    <3>1. consumed_pos' = consumed_pos /\ read_pos' = read_pos + n /\ taken' = taken
      BY DEF SocketRead, history
    <3>2. \A i \in consumed_pos' .. read_pos' - 1 : buffer'[i] = taken' + 1 + (i - consumed_pos')
      BY <3>1, <1>1, <1>3
    <3> QED BY <3>2 DEF Content
  <2>1. i \in Cells
    BY <1>1 DEF Cells
  <2>2. CASE i < read_pos
    <3>1. buffer[i] = taken + 1 + (i - consumed_pos)
      BY <1>1, <2>2 DEF BufferInv, Content
    <3> QED BY <1>1, <1>2, <2>1, <2>2, <3>1
  <2>3. CASE ~(i < read_pos)
    BY <1>1, <1>2, <2>1, <2>3
  <2> QED BY <2>2, <2>3
<1>7. HasRead'
  BY <1>1 DEF HasRead, SocketRead
<1>8. Moving' /\ Drained' /\ Lacks' /\ RefusedIsTooLong'
  BY <1>1 DEF Moving, Drained, Lacks, RefusedIsTooLong, Loops
<1> QED BY <1>4, <1>5, <1>6, <1>7, <1>8 DEF BufferInv

\* What goes past the buffer goes past an empty one.
LEMMA ReadPastKeeps ==
    ASSUME BufferInv, NEW n \in 1 .. StreamLength, ExactRead(n) \/ CloseRead(n) PROVE BufferInv'
<1>1. /\ at \in {"rest", "chunk", "close"} /\ UNCHANGED <<at, buffer, positions, move, resume, text>>
      /\ received' = received + n /\ taken' = taken + n /\ received + n <= StreamLength
      /\ IF at = "close" THEN want' = want ELSE n <= want /\ want' = want - n
  BY DEF ExactRead, CloseRead, reader, stream
<1>2. read_pos = consumed_pos
  BY <1>1 DEF BufferInv, Drained, IsEmpty, TypeOK
<1>3. TypeOK' /\ Accounted'
  BY <1>1, <1>2, BufferAssumption DEF BufferInv, TypeOK, Accounted, positions
<1>4. Content'
  BY <1>1, <1>2 DEF Content, positions, BufferInv, TypeOK
<1>5. Moving' /\ Drained' /\ HasRead' /\ Lacks' /\ RefusedIsTooLong'
  BY <1>1, <1>2 DEF Moving, Drained, IsEmpty, HasRead, Loops, Lacks, RefusedIsTooLong, positions,
                    BufferInv
<1> QED BY <1>3, <1>4, <1>5 DEF BufferInv

\* Taking n bytes out of the buffer leaves the rest of the stream in it.
LEMMA TakingKeeps ==
    ASSUME BufferInv, at # "move", NEW n \in Nat, n <= read_pos - consumed_pos,
           consumed_pos' = consumed_pos + n, taken' = taken + n,
           UNCHANGED <<stream, buffer, read_pos, move, resume>>,
           want' \in 0 .. MaxBody,
           at' \in Loops \cup {"top", "line", "rest", "chunk", "close"},
           HasRead', Drained'
    PROVE  BufferInv'
<1>1. TypeOK'
  <2>1. consumed_pos' \in 0 .. read_pos' /\ taken' \in 0 .. StreamLength
    BY BufferAssumption DEF BufferInv, TypeOK, Accounted
  <2>2. at' \in Loops \cup {"top", "line", "fill", "move", "await", "rest", "chunk",
                           "close", "refused", "ended"}
    OBVIOUS
  <2> QED BY <2>1, <2>2 DEF BufferInv, TypeOK, stream
<1>2. Accounted'
  BY DEF BufferInv, TypeOK, Accounted, stream
<1>3. Content'
  BY DEF BufferInv, TypeOK, Content
<1>4. Moving' /\ Lacks' /\ RefusedIsTooLong'
  BY DEF Moving, Lacks, RefusedIsTooLong, Loops
<1> QED BY <1>1, <1>2, <1>3, <1>4 DEF BufferInv

\* The three reads of the buffer: a line, a body and what is skipped.
Takes ==
    \/ ReadLine \/ TakeUntilClose \/ Skip
    \/ \E size \in 1 .. MaxBody : TakeBody(size)

LEMMA TakesKeeps == ASSUME BufferInv, Takes PROVE BufferInv'
<1>1. /\ read_pos \in 0 .. BufferSize /\ consumed_pos \in 0 .. read_pos
      /\ BufferSize \in Nat /\ MaxBody \in Nat /\ want \in 0 .. MaxBody
      /\ taken \in 0 .. StreamLength /\ StreamLength \in Nat
  BY BufferAssumption DEF BufferInv, TypeOK
<1>2. CASE ReadLine
  <2>1. PICK p \in Cells : /\ FoundAt(p)
                          /\ taken' = taken + (p - consumed_pos) + 2
                          /\ consumed_pos' = p + 2
    BY <1>2 DEF ReadLine
  <2> DEFINE n == p - consumed_pos + 2
  <2>2. /\ n \in Nat /\ n <= read_pos - consumed_pos /\ 0 < read_pos
        /\ consumed_pos' = consumed_pos + n /\ taken' = taken + n
    BY <1>1, <2>1 DEF FoundAt, ScanEnd
  <2>3. /\ at = "scan" /\ at' = "line"
        /\ UNCHANGED <<stream, buffer, read_pos, move, resume, want>>
    BY <1>2 DEF ReadLine
  <2>4. HasRead' /\ Drained'
    BY <2>2, <2>3 DEF HasRead, Drained
  <2> HIDE DEF n
  <2> QED BY <1>1, <2>2, <2>3, <2>4, TakingKeeps
<1>3. CASE TakeUntilClose
  <2> DEFINE n == read_pos - consumed_pos
  <2>1. n \in Nat /\ consumed_pos' = consumed_pos + n /\ taken' = taken + n
    BY <1>1, <1>3 DEF TakeUntilClose
  <2>2. /\ at = "line" /\ at' = "close"
        /\ UNCHANGED <<stream, buffer, read_pos, move, resume, want>>
    BY <1>3 DEF TakeUntilClose
  <2>3. HasRead' /\ Drained'
    BY <1>3, <2>2 DEF HasRead, Drained, IsEmpty, Loops, TakeUntilClose
  <2> QED BY <1>1, <2>1, <2>2, <2>3, TakingKeeps
<1>4. CASE Skip
  <2>1. /\ consumed_pos' = consumed_pos + 2 /\ taken' = taken + 2 /\ 2 <= read_pos - consumed_pos
        /\ 0 < read_pos
    BY <1>1, <1>4 DEF Skip, HasTwo
  <2>2. /\ at # "move" /\ at' \in {"scan", "top"}
        /\ UNCHANGED <<stream, buffer, read_pos, move, resume, want>>
    BY <1>4 DEF Skip
  <2>3. HasRead' /\ Drained'
    BY <2>1, <2>2 DEF HasRead, Drained
  <2> QED BY <1>1, <2>1, <2>2, <2>3, TakingKeeps DEF Loops
<1>5. CASE \E size \in 1 .. MaxBody : TakeBody(size)
  <2>1. PICK size \in 1 .. MaxBody : TakeBody(size)
    BY <1>5
  <2> DEFINE n == Smaller(read_pos - consumed_pos, size)
  <2>2. /\ n \in Nat /\ n <= read_pos - consumed_pos /\ n <= size
        /\ n = read_pos - consumed_pos \/ n = size
    BY <1>1 DEF Smaller
  <2>3. consumed_pos' = consumed_pos + n /\ taken' = taken + n /\ want' = size - n
    BY <2>1 DEF TakeBody
  <2>4. /\ at = "line" /\ at' \in {"rest", "chunk"}
        /\ UNCHANGED <<stream, buffer, read_pos, move, resume>>
    BY <2>1 DEF TakeBody
  <2> HIDE DEF n
  <2>5. want' \in 0 .. MaxBody /\ (want' > 0 => consumed_pos' = read_pos)
    BY <1>1, <2>2, <2>3
  <2>6. HasRead' /\ Drained'
    BY <2>4, <2>5 DEF HasRead, Drained, IsEmpty, Loops, BufferInv
  <2> QED BY <1>1, <2>2, <2>3, <2>4, <2>5, <2>6, TakingKeeps
<1> QED BY <1>2, <1>3, <1>4, <1>5 DEF Takes

LEMMA NextKeepsBufferInv == BufferInv /\ [Next]_vars => BufferInv'
<1> SUFFICES ASSUME BufferInv, [Next]_vars PROVE BufferInv'
  OBVIOUS
<1>1. CASE MovesReader
  BY <1>1, MovesReaderKeeps
<1>2. CASE Takes
  BY <1>2, TakesKeeps
<1>3. CASE Reset
  BY <1>3, ResetKeeps
<1>4. CASE CompactBegin
  BY <1>4, CompactBeginKeeps
<1>5. CASE CompactBlock
  BY <1>5, CompactBlockKeeps
<1>6. CASE CompactEnd
  BY <1>6, CompactEndKeeps
<1>7. CASE \E n \in 1 .. StreamLength : SocketRead(n) \/ ExactRead(n) \/ CloseRead(n)
  BY <1>7, SocketReadKeeps, ReadPastKeeps
<1>8. CASE UNCHANGED vars
  <2>1. UNCHANGED <<text, received, buffer, read_pos, consumed_pos, move, at, resume, want, taken>>
    BY <1>8 DEF vars, stream, positions, reader, history
  <2>2. TypeOK' /\ Accounted' /\ HasRead' /\ Drained'
    BY <2>1 DEF BufferInv, TypeOK, Accounted, HasRead, Drained, IsEmpty
  <2>3. Content' /\ Moving' /\ Lacks' /\ RefusedIsTooLong'
    BY <2>1 DEF BufferInv, Content, Moving, Lacks, NoLineInUnread, RefusedIsTooLong
  <2> QED BY <2>2, <2>3 DEF BufferInv
<1> QED
  BY <1>1, <1>2, <1>3, <1>4, <1>5, <1>6, <1>7, <1>8 DEF Next, MovesReader, Takes

LEMMA BufferInvHolds == Spec => []BufferInv
BY InitBufferInv, NextKeepsBufferInv, PTL DEF Spec
-----------------------------------------------------------------------------
(* Theorems *)

\* Every variable keeps its type: in particular consumed_pos never passes read_pos, read_pos
\* never passes the end of the buffer, and no read takes more than is there.
THEOREM TypeCorrect == Spec => []TypeOK
<1>1. BufferInv => TypeOK
  BY DEF BufferInv
<1> QED BY <1>1, BufferInvHolds, PTL

\* The unread part of the buffer is always the next part of the stream, whatever the reads and
\* compactions that put it there, and read_until_crlf never computes read_pos - 1 of zero.
THEOREM UnreadIsAlwaysTheStream == Spec => []UnreadIsTheStream
<1>1. BufferInv => UnreadIsTheStream
  BY DEF BufferInv, UnreadIsTheStream, Accounted, Content, Drained, HasRead, Loops
<1> QED BY <1>1, BufferInvHolds, PTL

\* Only a line that does not fit into the whole buffer is refused.
THEOREM OnlyTooLongIsRefused == Spec => []RefusedIsTooLong
<1>1. BufferInv => RefusedIsTooLong
  BY DEF BufferInv
<1> QED BY <1>1, BufferInvHolds, PTL
-----------------------------------------------------------------------------
(* TcpBuffer implements ByteStream *)

LEMMA LineIsALine == ASSUME BufferInv, ReadLine PROVE Bytes!StreamNext
<1>1. /\ read_pos \in 0 .. BufferSize /\ consumed_pos \in 0 .. read_pos
      /\ taken \in 0 .. StreamLength /\ received \in 0 .. StreamLength
      /\ BufferSize \in Nat /\ StreamLength \in Nat
      /\ received = taken + (read_pos - consumed_pos) /\ at # "move"
  BY BufferAssumption DEF BufferInv, TypeOK, Accounted, ReadLine
<1>2. PICK p \in Cells : /\ FoundAt(p)
                        /\ given' = Unread(p - consumed_pos)
                        /\ taken' = taken + (p - consumed_pos) + 2
  BY DEF ReadLine
<1> DEFINE n == p - consumed_pos
<1>3. p \in consumed_pos .. read_pos - 2 /\ n \in 0 .. StreamLength /\ n <= read_pos - consumed_pos
  BY <1>1, <1>2 DEF FoundAt, ScanEnd
<1>4. Bytes!CrlfAt(taken + n + 1)
  <2>1. /\ taken + 1 + n \in 1 .. received - 1
        /\ text[taken + 1 + n] = "cr" /\ text[taken + 2 + n] = "lf"
    BY <1>1, <1>2, <1>3, CrlfInIsInStream DEF FoundAt
  <2>2. taken + n + 1 = taken + 1 + n /\ (taken + n + 1) + 1 = taken + 2 + n
    BY <1>1, <1>3
  <2> QED BY <1>1, <2>1, <2>2 DEF Bytes!CrlfAt
<1>5. ASSUME NEW k \in 1 .. n PROVE ~Bytes!CrlfAt(taken + k)
  <2> DEFINE q == consumed_pos + k - 1
  <2>1. q \in consumed_pos .. p - 1 /\ q \in consumed_pos .. read_pos - 2
    BY <1>1, <1>3
  <2>2. ~CrlfIn(q)
    BY <1>2, <2>1 DEF FoundAt
  <2>3. ~(text[taken + 1 + (q - consumed_pos)] = "cr" /\ text[taken + 2 + (q - consumed_pos)] = "lf")
    BY <1>1, <2>1, <2>2, CrlfInIsInStream
  <2>4. taken + 1 + (q - consumed_pos) = taken + k /\ taken + 2 + (q - consumed_pos) = (taken + k) + 1
    BY <1>1, <1>3
  <2> QED BY <2>3, <2>4 DEF Bytes!CrlfAt
<1>6. given' = Bytes!Segment(taken, n)
  BY <1>1, <1>2, <1>3, UnreadIsSegment
<1>7. taken' = taken + n + 2 /\ text' = text
  BY <1>2 DEF ReadLine, stream
<1>8. Bytes!Line(n)
  BY <1>4, <1>5, <1>6, <1>7 DEF Bytes!Line
<1> QED BY <1>3, <1>8 DEF Bytes!StreamNext

LEMMA BodyIsBytes ==
    ASSUME BufferInv, at # "move", NEW n \in Nat, n <= read_pos - consumed_pos,
           given' = Unread(n), taken' = taken + n, text' = text
    PROVE  Bytes!StreamNext
<1>1. n \in 0 .. StreamLength /\ taken + n <= StreamLength
  BY BufferAssumption DEF BufferInv, TypeOK, Accounted
<1>2. given' = Bytes!Segment(taken, n)
  BY UnreadIsSegment
<1>3. Bytes!Bytes(n)
  BY <1>1, <1>2 DEF Bytes!Bytes
<1> QED BY <1>1, <1>3 DEF Bytes!StreamNext

LEMMA TakesAreReads == ASSUME BufferInv, Takes PROVE Bytes!StreamNext
<1>1. /\ read_pos \in 0 .. BufferSize /\ consumed_pos \in 0 .. read_pos
      /\ taken \in 0 .. StreamLength /\ received \in 0 .. StreamLength
      /\ BufferSize \in Nat /\ StreamLength \in Nat /\ MaxBody \in Nat
      /\ received = taken + (read_pos - consumed_pos)
  BY BufferAssumption DEF BufferInv, TypeOK, Accounted
<1>2. CASE TakeUntilClose
  <2> DEFINE n == read_pos - consumed_pos
  <2>1. /\ n \in Nat /\ n <= read_pos - consumed_pos /\ at # "move"
        /\ given' = Unread(n) /\ taken' = taken + n /\ text' = text
    BY <1>1, <1>2 DEF TakeUntilClose, stream
  <2> QED BY <2>1, BodyIsBytes
<1>3. CASE Skip
  <2>1. 2 \in 0 .. StreamLength /\ taken + 2 <= StreamLength
    BY <1>1, <1>3 DEF Skip, HasTwo
  <2>2. Bytes!Skip(2)
    BY <1>3, <2>1 DEF Skip, Bytes!Skip, stream
  <2> QED BY <2>1, <2>2 DEF Bytes!StreamNext
<1>4. CASE \E size \in 1 .. MaxBody : TakeBody(size)
  <2>1. PICK size \in 1 .. MaxBody : TakeBody(size)
    BY <1>4
  <2> DEFINE n == Smaller(read_pos - consumed_pos, size)
  <2>2. n \in Nat /\ n <= read_pos - consumed_pos
    BY <1>1 DEF Smaller
  <2>3. at # "move" /\ given' = Unread(n) /\ taken' = taken + n /\ text' = text
    BY <2>1 DEF TakeBody, stream
  <2> HIDE DEF n
  <2> QED BY <2>2, <2>3, BodyIsBytes
<1> QED BY <1>2, <1>3, <1>4, LineIsALine DEF Takes

LEMMA ReadPastIsBytes ==
    ASSUME BufferInv, NEW n \in 1 .. StreamLength, ExactRead(n) \/ CloseRead(n)
    PROVE  Bytes!StreamNext
<1>1. /\ received + n <= StreamLength /\ given' = [i \in 1 .. n |-> received + i]
      /\ taken' = taken + n /\ text' = text
      /\ at = "close" \/ (at \in {"rest", "chunk"} /\ n <= want)
  BY DEF ExactRead, CloseRead, stream
<1>2. received = taken /\ n \in 0 .. StreamLength
  BY <1>1, BufferAssumption DEF BufferInv, TypeOK, Accounted, Drained, IsEmpty
<1>3. Bytes!Bytes(n)
  BY <1>1, <1>2 DEF Bytes!Bytes, Bytes!Segment
<1> QED BY <1>2, <1>3 DEF Bytes!StreamNext

\* Whatever the socket does, the readers are given the server's stream: every byte once, in
\* order, and every line up to its first CR LF.
THEOREM ReadersAreGivenTheStream == Spec => BytesSpec
<1>1. Init => Bytes!StreamInit
  BY DEF Init, Bytes!StreamInit, Kinds, Bytes!Kinds
<1>2. BufferInv /\ [Next]_vars => [Bytes!StreamNext]_(Bytes!streamVars)
  <2> SUFFICES ASSUME BufferInv, [Next]_vars PROVE Bytes!StreamNext \/ UNCHANGED Bytes!streamVars
    OBVIOUS
  <2>1. CASE Takes
    BY <2>1, TakesAreReads
  <2>2. CASE \E n \in 1 .. StreamLength : ExactRead(n) \/ CloseRead(n)
    BY <2>2, ReadPastIsBytes
  <2>3. CASE \E n \in 1 .. StreamLength : SocketRead(n)
    BY <2>3 DEF SocketRead, history, Bytes!streamVars
  <2>4. CASE MovesReader
    BY <2>4 DEF MovesReader, WriteBehind, Refuse, ReadEnds, Top, NoLine, AfterLine, BodyEnds,
                SkipReadsMore, Ended, vars, stream, history, Bytes!streamVars
  <2>5. CASE Reset \/ CompactBegin \/ CompactBlock \/ CompactEnd
    BY <2>5 DEF Reset, CompactBegin, CompactBlock, CompactEnd, stream, history, Bytes!streamVars
  <2>6. CASE UNCHANGED vars
    BY <2>6 DEF vars, stream, history, Bytes!streamVars
  <2> QED BY <2>1, <2>2, <2>3, <2>4, <2>5, <2>6 DEF Next, MovesReader, Takes
<1>3. Init /\ []BufferInv /\ [][Next]_vars => Bytes!StreamSpec
  BY <1>1, <1>2, PTL DEF Bytes!StreamSpec
<1> QED BY <1>3, BufferInvHolds, PTL DEF Spec, BytesSpec
=============================================================================
