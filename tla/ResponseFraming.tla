-------------------------- MODULE ResponseFraming --------------------------
(***************************************************************************)
(* How the read loop of http1 cuts the byte stream of one connection into  *)
(* responses: the status line, the headers, the framing decision of        *)
(* read_headers and the three body readers, for requests that are          *)
(* pipelined.  The front of the FIFO of requests is what Http1Client keeps *)
(* aligned with the wire; here it is the oldest request not yet answered.  *)
(*                                                                         *)
(* The stream is a sequence of tokens: lines, and units of body.  How they *)
(* are split into TCP segments and buffered is not modelled.  The server   *)
(* is any server that follows RFC 9110 and RFC 9112 (external), sends a    *)
(* chunked body chunk by chunk, and may be cut off at any point of what it *)
(* sends.                                                                  *)
(***************************************************************************)
EXTENDS Naturals, Sequences, SequencesExt

CONSTANTS
    Methods,           \* of the requests; "UPGRADE" is a GET that asks for a WebSocket
    MaxRequests,       \* bound on the requests sent
    MaxBody,           \* MAX_RESPONSE_BODY_SIZE, in units of body
    MaxChunk,          \* MAX_CHUNK_SIZE, in the same units
    MaxHeaders,        \* MAX_RESPONSE_HEADERS_COUNT
    MaxInterim,        \* MAX_INTERIM_RESPONSES
    AdvertisesUpgrade  \* the server may name websocket in the Upgrade header of a 200

ASSUME FramingAssumption ==
    /\ Methods \subseteq {"GET", "HEAD", "CONNECT", "UPGRADE"}
    /\ MaxRequests \in Nat /\ MaxBody \in Nat /\ MaxChunk \in Nat
    /\ MaxHeaders \in Nat \ {0} /\ MaxInterim \in Nat
    /\ AdvertisesUpgrade \in BOOLEAN

VARIABLES
    asked,         \* methods of the requests sent, in order
    sent,          \* history: the final responses the server sent; bad ones are to be refused
    input,         \* tokens the client has not read yet
    chunking,      \* the server is within a chunked body, of the last response in sent
    closed,        \* the server closed its side after input
    cut,           \* history: it did so within a response
    phase,         \* what the read loop reads next
    status,        \* of the response being read
    detected,      \* DetectedBodySize of the headers read so far
    headersCount,  \* headers read so far
    interimCount,  \* consecutive interim responses
    remains,       \* body units still to be read, of the body or of the chunk
    body,          \* body units read so far
    delivered      \* the responses handed to their requests

serverVars == <<asked, sent, chunking, closed, cut>>
headVars == <<status, detected, headersCount, interimCount>>
vars == <<serverVars, input, phase, headVars, remains, body, delivered>>

Token(t, v) == [t |-> t, v |-> v]
Known(n) == [size |-> "known", n |-> n]
Size(s) == [size |-> s, n |-> 0]
Unknown == Size("unknown")

Codes == {100, 101, 200, 204, 304}
Running == {"status", "headers", "length", "close", "chunkSize", "chunk", "chunkEnd", "lastChunk"}
Units == [t : {"data"}, v : 1 .. MaxRequests]
TokenKinds == {"status", "end", "content-length", "transfer-encoding", "upgrade", "other",
               "data", "size", "crlf", "garbage"}
Sizes == 0 .. (MaxBody + 1)
Framings == {"none", "length", "chunked", "close"}

TypeOK ==
    /\ asked \in Seq(Methods)
    /\ sent \in Seq([status : Codes, framing : Framings, body : Seq(Units), bad : BOOLEAN])
    /\ Len(sent) <= Len(asked)
    /\ input \in Seq([t : TokenKinds, v : Nat])
    /\ chunking \in BOOLEAN /\ closed \in BOOLEAN /\ cut \in BOOLEAN
    /\ phase \in Running \cup {"stopped", "invalid", "failed"}
    /\ status \in Codes
    /\ detected \in [size : {"unknown", "known", "chunked", "upgrade"}, n : Nat]
    /\ headersCount \in 0 .. (MaxHeaders + 1)
    /\ interimCount \in 0 .. (MaxInterim + 1)
    /\ remains \in Nat
    /\ body \in Seq([t : TokenKinds, v : Nat])
    /\ Len(delivered) <= Len(asked)

Init ==
    /\ asked = <<>> /\ sent = <<>> /\ input = <<>>
    /\ chunking = FALSE /\ closed = FALSE /\ cut = FALSE
    /\ phase = "status"
    /\ status = 200
    /\ detected = Unknown
    /\ headersCount = 0
    /\ interimCount = 0
    /\ remains = 0
    /\ body = <<>>
    /\ delivered = <<>>
-----------------------------------------------------------------------------
(* The server *)

SendRequest(m) ==
    /\ Len(asked) < MaxRequests
    /\ asked' = Append(asked, m)
    /\ UNCHANGED <<sent, chunking, closed, cut, input, phase, headVars, remains, body, delivered>>

\* HTTP ends on a connection that became a tunnel or a WebSocket.
Tunnel(m, code) == (m = "CONNECT" /\ code = 200) \/ code = 101

\* RFC 9112, 6.3, items 1 and 2: what the headers say of a body does not count.
NeverHasBody(m, code) == m = "HEAD" \/ code \in {204, 304} \/ Tunnel(m, code)

Allowed(m, code) == code = 101 => m = "UPGRADE"

\* The body of the k-th response, n units of it.
Data(k, n) == [i \in 1 .. n |-> Token("data", k)]

FramingHeaders(framing, n) ==
    CASE framing = "length"  -> <<Token("content-length", n)>>
      [] framing = "chunked" -> <<Token("transfer-encoding", 0)>>
      [] OTHER               -> <<>>

UpgradeHeaders(code) ==
    IF code = 101 THEN {<<Token("upgrade", 0)>>}
    ELSE IF code = 200 /\ AdvertisesUpgrade THEN {<<>>, <<Token("upgrade", 0)>>} ELSE {<<>>}

Interim == <<Token("status", 100), Token("other", 0), Token("end", 0)>>

\* n interim responses.
Interims(n) == [i \in 1 .. 3 * n |-> Interim[((i - 1) % 3) + 1]]

Others(n) == [i \in 1 .. n |-> Token("other", 0)]

\* The client has a limit that this response exceeds.
OverLimit(data, interims, headers) ==
    interims > MaxInterim \/ headers > MaxHeaders \/ Len(data) > MaxBody

\* HTTP goes on and a request waits.  Bound: nothing follows a response that must be refused.
CanRespond ==
    /\ ~closed
    /\ ~chunking
    /\ Len(sent) < Len(asked)
    /\ \A i \in DOMAIN sent : ~sent[i].bad /\ ~Tunnel(asked[i], sent[i].status)

\* The answer to the oldest request that has none: interim responses, then a final one with some
\* other headers and a body of n units, of which those of a chunked body are to follow.
Respond(code, framing, n, interims, others) ==
    LET m == asked[Len(sent) + 1]
        data == IF NeverHasBody(m, code) THEN <<>> ELSE Data(Len(sent) + 1, n)
    IN  /\ Allowed(m, code)
        /\ code \in {101, 204} => framing = "none"
        /\ framing = "none" => NeverHasBody(m, code)
        /\ framing \in {"none", "chunked"} => n = 0
        /\ framing = "close" => ~NeverHasBody(m, code)
        /\ \E upgrade \in UpgradeHeaders(code) :
             LET headers == FramingHeaders(framing, n) \o upgrade \o Others(others)
             IN  /\ input' = input \o Interims(interims) \o <<Token("status", code)>> \o headers
                              \o <<Token("end", 0)>> \o data
                 /\ sent' = Append(sent,
                        [status |-> code, framing |-> framing, body |-> data,
                         bad |-> OverLimit(data, interims, Len(headers))])
        /\ chunking' = (framing = "chunked" /\ ~NeverHasBody(m, code))
        /\ closed' = (framing = "close")
        /\ UNCHANGED <<asked, cut, phase, headVars, remains, body, delivered>>

Chunk(k, n) == <<Token("size", n)>> \o Data(k, n) \o <<Token("crlf", 0)>>

\* Nothing follows a chunk that must be refused, as above.
CanSendChunk == chunking /\ ~closed /\ ~sent[Len(sent)].bad

SendChunk(n) ==
    /\ CanSendChunk
    /\ Len(sent[Len(sent)].body) + n \in Sizes  \* bound
    /\ input' = input \o Chunk(Len(sent), n)
    /\ sent' = [sent EXCEPT ![Len(sent)].body = @ \o Data(Len(sent), n),
                            ![Len(sent)].bad = (n > MaxChunk)]
    /\ UNCHANGED <<asked, chunking, closed, cut, phase, headVars, remains, body, delivered>>

SendLastChunk ==
    /\ CanSendChunk
    /\ input' = input \o Chunk(Len(sent), 0)
    /\ chunking' = FALSE
    /\ UNCHANGED <<asked, sent, closed, cut, phase, headVars, remains, body, delivered>>

\* An answer that is no HTTP/1 response, or not a correct one.
RespondMalformed(lines) ==
    /\ CanRespond
    /\ input' = input \o SubSeq(Interim, 1, lines) \o <<Token("garbage", 0)>>
    /\ sent' = Append(sent, [status |-> 200, framing |-> "none", body |-> <<>>, bad |-> TRUE])
    /\ UNCHANGED <<asked, chunking, closed, cut, phase, headVars, remains, body, delivered>>

\* The connection breaks: what the loop has not read by then is lost.
Cut ==
    /\ ~cut
    /\ input' = <<>>
    /\ closed' = TRUE
    /\ cut' = TRUE
    /\ UNCHANGED <<asked, sent, chunking, phase, headVars, remains, body, delivered>>
-----------------------------------------------------------------------------
(* The read loop *)

NextToken == Head(input)

\* The loop takes the next token, which is one of kinds.
Take(at, kinds) ==
    /\ phase = at
    /\ input # <<>>
    /\ NextToken.t \in kinds
    /\ input' = Tail(input)

Goes(to) == phase' = to

\* The status line.
ReadStatus ==
    /\ Take("status", {"status"})
    /\ Goes("headers")
    /\ status' = NextToken.v
    /\ detected' = Unknown
    /\ headersCount' = 0
    /\ UNCHANGED <<serverVars, interimCount, remains, body, delivered>>

HeaderKinds == {"content-length", "transfer-encoding", "upgrade", "other"}

\* What parse_http_header makes of a header.
SizeOf(header) ==
    CASE header.t = "content-length"    -> Known(header.v)
      [] header.t = "transfer-encoding" -> Size("chunked")
      [] header.t = "upgrade"           -> Size("upgrade")
      [] OTHER                          -> Unknown

\* Mutant: a header that says nothing of the body makes it unknown again.
DetectNoMatterWhat(header) == SizeOf(header)

\* The last header that says something of the body wins.
Detect(header) == IF SizeOf(header) = Unknown THEN detected ELSE SizeOf(header)

TooManyHeaders(count) == count > MaxHeaders

ReadHeader ==
    /\ Take("headers", HeaderKinds)
    /\ headersCount' = headersCount + 1
    /\ IF TooManyHeaders(headersCount + 1)
       THEN Goes("invalid") /\ UNCHANGED detected
       ELSE detected' = Detect(NextToken) /\ UNCHANGED phase
    /\ UNCHANGED <<serverVars, status, interimCount, remains, body, delivered>>

\* The method of the request at the front of the FIFO, if there is one.
FrontMethod == IF Len(delivered) < Len(asked) THEN asked[Len(delivered) + 1] ELSE "none"

Informational(code) == code \in {100, 101}

\* Mutant: "Bug A" of response_framing_tests.rs.
ResponseHasBodyEvenToHead(method, code) ==
    /\ ~Informational(code)
    /\ code \notin {204, 304}
    /\ ~(method = "CONNECT" /\ code = 200)

ResponseHasBody(method, code) ==
    /\ ~Informational(code)
    /\ code \notin {204, 304}
    /\ method # "HEAD"
    /\ ~(method = "CONNECT" /\ code = 200)

\* The BodyReader that read_headers chooses.
Framing(method, code, size) ==
    CASE size = Size("upgrade")                                          -> "upgrade"
      [] size # Size("upgrade") /\ Informational(code)                   -> "interim"
      [] size # Size("upgrade") /\ ~Informational(code)
           /\ ~ResponseHasBody(method, code)                             -> "empty"
      [] size = Size("chunked") /\ ResponseHasBody(method, code)         -> "chunked"
      [] size.size = "known" /\ ResponseHasBody(method, code)            -> "length"
      [] OTHER                                                           -> "close"

\* The response goes to the oldest request that has none.
Deliver(kind, content, whole) ==
    delivered' = Append(delivered, [status |-> status, kind |-> kind, body |-> content,
                                    whole |-> whole])

TooManyInterim(count) == count > MaxInterim

\* For a body of either kind.
TooBig(n) == n > MaxBody

\* Mutant: the count survives final responses.
InterimsAddUp == UNCHANGED interimCount

\* A final response ends the row of interim ones.
InterimsEnd == interimCount' = 0

\* The empty line that ends the headers, with the BodyReader it yields.
HeadersEnd(reader) ==
    /\ Take("headers", {"end"})
    /\ Framing(FrontMethod, status, detected) = reader
    /\ body' = <<>>
    /\ UNCHANGED <<serverVars, status, detected, headersCount>>

\* The arms of the loop's match on the BodyReader.
SkipInterim ==
    /\ HeadersEnd("interim")
    /\ interimCount' = interimCount + 1
    /\ Goes(IF TooManyInterim(interimCount + 1) THEN "invalid" ELSE "status")
    /\ UNCHANGED <<remains, delivered>>

StopForUpgrade ==
    /\ HeadersEnd("upgrade")
    /\ Deliver("upgrade", <<>>, TRUE)
    /\ Goes("stopped")
    /\ UNCHANGED <<interimCount, remains>>

DeliverEmpty ==
    /\ HeadersEnd("empty")
    /\ InterimsEnd
    /\ Deliver("length", <<>>, TRUE)
    /\ Goes("status")
    /\ UNCHANGED remains

BeginLength ==
    /\ HeadersEnd("length")
    /\ InterimsEnd
    /\ remains' = detected.n
    /\ IF detected.n = 0
       THEN Deliver("length", <<>>, TRUE) /\ Goes("status")
       ELSE UNCHANGED delivered /\ Goes(IF TooBig(detected.n) THEN "invalid" ELSE "length")

BeginChunked ==
    /\ HeadersEnd("chunked")
    /\ InterimsEnd
    /\ Deliver("chunked", <<>>, FALSE)
    /\ Goes("chunkSize")
    /\ UNCHANGED remains

BeginUntilClose ==
    /\ HeadersEnd("close")
    /\ Goes("close")
    /\ UNCHANGED <<interimCount, remains, delivered>>

\* Mutant: off by one.
LastUnitOffByOne == remains = 0

\* The unit about to be read completes the body or the chunk.
LastUnit == remains = 1

\* read_full_body: the response is handed over once its body is complete.
ReadBody ==
    /\ phase = "length" /\ input # <<>>
    /\ input' = Tail(input)
    /\ remains' = remains - 1
    /\ body' = Append(body, NextToken)
    /\ IF LastUnit
       THEN Deliver("length", Append(body, NextToken), TRUE) /\ Goes("status")
       ELSE UNCHANGED <<delivered, phase>>
    /\ UNCHANGED <<serverVars, headVars>>

\* read_until_close, up to the end of the stream.
ReadUntilClose ==
    /\ phase = "close" /\ input # <<>>
    /\ input' = Tail(input)
    /\ body' = Append(body, NextToken)
    /\ IF TooBig(Len(body) + 1) THEN Goes("invalid") ELSE UNCHANGED phase
    /\ UNCHANGED <<serverVars, headVars, remains, delivered>>

EndOfBody ==
    /\ phase = "close" /\ input = <<>> /\ closed
    /\ Deliver("close", body, TRUE)
    /\ Goes("stopped")
    /\ UNCHANGED <<serverVars, input, headVars, remains, body>>

\* read_chunked_body.  The caller already has the response, and gets the body chunk by chunk.
TooBigChunk(n) == n > MaxChunk

ReadChunkSize ==
    /\ Take("chunkSize", {"size"})
    /\ remains' = NextToken.v
    /\ body' = <<>>
    /\ Goes(IF NextToken.v = 0 THEN "lastChunk"
            ELSE IF TooBigChunk(NextToken.v) THEN "invalid" ELSE "chunk")
    /\ UNCHANGED <<serverVars, headVars, delivered>>

ToLastBody(content, whole) ==
    delivered' = [delivered EXCEPT ![Len(delivered)].body = @ \o content,
                                   ![Len(delivered)].whole = whole]

ReadChunk ==
    /\ phase = "chunk" /\ input # <<>>
    /\ input' = Tail(input)
    /\ remains' = remains - 1
    /\ body' = Append(body, NextToken)
    /\ IF LastUnit
       THEN ToLastBody(Append(body, NextToken), FALSE) /\ Goes("chunkEnd")
       ELSE UNCHANGED <<delivered, phase>>
    /\ UNCHANGED <<serverVars, headVars>>

\* The separator after a chunk, whatever it is.
SkipSeparator ==
    /\ phase = "chunkEnd" /\ input # <<>>
    /\ input' = Tail(input)
    /\ Goes("chunkSize")
    /\ UNCHANGED <<serverVars, headVars, remains, body, delivered>>

SkipLast ==
    /\ phase = "lastChunk" /\ input # <<>>
    /\ input' = Tail(input)
    /\ ToLastBody(<<>>, TRUE)
    /\ Goes("status")
    /\ UNCHANGED <<serverVars, headVars, remains, body>>

\* A line that is not what the loop parses at this point.
Parsed(at) ==
    CASE at = "status" -> {"status"} [] at = "headers" -> HeaderKinds \cup {"end"}
      [] at = "chunkSize" -> {"size"}

ReadMalformed ==
    /\ phase \in {"status", "headers", "chunkSize"}
    /\ input # <<>>
    /\ NextToken.t \notin Parsed(phase)
    /\ input' = Tail(input)
    /\ Goes("invalid")
    /\ UNCHANGED <<serverVars, headVars, remains, body, delivered>>

\* The end of the stream is an error anywhere but in a body that it delimits, a reset there too.
ReadEnds ==
    /\ phase \in Running
    /\ input = <<>> /\ closed
    /\ phase = "close" => cut
    /\ Goes("failed")
    /\ UNCHANGED <<serverVars, input, headVars, remains, body, delivered>>

\* The loop has returned.
Returned ==
    /\ phase \notin Running
    /\ UNCHANGED vars

Read ==
    \/ ReadStatus
    \/ ReadHeader
    \/ SkipInterim
    \/ StopForUpgrade
    \/ DeliverEmpty
    \/ BeginLength
    \/ BeginChunked
    \/ BeginUntilClose
    \/ ReadBody
    \/ ReadUntilClose
    \/ EndOfBody
    \/ ReadChunkSize
    \/ ReadChunk
    \/ SkipSeparator
    \/ SkipLast
    \/ ReadMalformed
    \/ ReadEnds

Answer ==
    /\ CanRespond
    /\ \E code \in {101, 200, 204, 304}, framing \in Framings, n \in Sizes,
          interims \in 0 .. (MaxInterim + 1), others \in 0 .. MaxHeaders :
            Respond(code, framing, n, interims, others)

Next ==
    \/ \E m \in Methods : SendRequest(m)
    \/ Answer
    \/ \E n \in 1 .. (MaxChunk + 1) : SendChunk(n)
    \/ SendLastChunk
    \/ \E lines \in 0 .. 1 : RespondMalformed(lines)
    \/ Cut
    \/ Read
    \/ Returned

Spec == Init /\ [][Next]_vars

\* The loop reads what has arrived: a read of data or of the end of the stream completes.
FairSpec == Spec /\ WF_vars(Read)
-----------------------------------------------------------------------------
(* Properties *)

\* Every response handed over is the one the server gave to that request, with its body: all of
\* it if Content-Length delimits it, even when the connection breaks, and all of it at the end
\* of a chunked body.  Only a chunked body being read, or one that the close of a broken
\* connection ended, may be a prefix.  A request is told of an upgrade if and only if the status
\* is 101.  An error of framing in one response shows as a foreign body in the next ones.
BodiesAreTheServers ==
    \A i \in DOMAIN delivered :
        /\ i \in DOMAIN sent
        /\ delivered[i].status = sent[i].status
        /\ (delivered[i].kind = "upgrade") <=> (sent[i].status = 101)
        /\ IsPrefix(delivered[i].body, sent[i].body)
        /\ delivered[i].whole /\ ~(cut /\ delivered[i].kind = "close")
              => delivered[i].body = sent[i].body

\* The loop gives up on a payload only if it is malformed or exceeds a limit of http1/mod.rs:
\* a correct response within the limits never costs the connection, whatever preceded it on it;
\* and no response that exceeds a limit is handed over with all of its body.
RefusesExactlyTheBad ==
    /\ phase = "invalid" => \E i \in DOMAIN sent : sent[i].bad
    /\ \A i \in DOMAIN delivered :
         delivered[i].whole /\ delivered[i].body = sent[i].body => ~sent[i].bad

\* A response sent in full completes: the loop never waits for a byte that no server sends, as
\* it did for the body of a response to HEAD (response_framing_tests.rs, "Bug A").
SentInFull(k) ==
    k \in DOMAIN sent /\ ~cut /\ ~sent[k].bad /\ (chunking => k < Len(sent))
Completed(k) == k \in DOMAIN delivered /\ delivered[k].whole

EveryResponseCompletes ==
    \A k \in 1 .. MaxRequests : SentInFull(k) ~> (cut \/ Completed(k))
=============================================================================
