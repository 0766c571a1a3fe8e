----------------------- MODULE ResponseFramingProofs -----------------------
(***************************************************************************)
(* Theorems about ResponseFraming, for any number of pipelined requests,   *)
(* any limits, and every response within or beyond them.                   *)
(*                                                                         *)
(* The argument: between two tokens of its output the server is at a       *)
(* position, and each token takes it from one position to the next.  The   *)
(* read loop is always at the position before the first token it has not   *)
(* read, and its own variables say which one that is: whoever reads the    *)
(* tokens in order never loses the boundary between two responses.         *)
(***************************************************************************)
EXTENDS ResponseFraming, SequenceTheorems, TLAPS

Tokens == [t : TokenKinds, v : Nat]
Detections == [size : {"unknown", "known", "chunked", "upgrade"}, n : Nat]

\* What follows the headers of a response.
Follows(method, response) ==
    IF NeverHasBody(method, response.status) THEN "nothing" ELSE response.framing

\* A position in the output of the server: what comes next there, of the k-th response, with the
\* interim responses before it, its header lines up to there and in all, what they said of its
\* body, and the units of the body up to there and from there on (in the chunk, for "data").
Position ==
    [at : {"line", "interimHeader", "interimEnd", "head", "body", "rest", "size", "data", "crlf",
           "last", "over"},
     k : Nat \ {0}, code : Codes, interims : Nat, headers : Nat, total : Nat,
     detected : Detections, follows : Framings \cup {"nothing"}, got : Nat, left : Nat]

Begins(p, k) == p.at = "line" /\ p.k = k /\ p.interims = 0

SameRow(p, q) == q.k = p.k /\ q.interims = p.interims

SameResponse(p, q) == SameRow(p, q) /\ q.total = p.total

Garbled(t, q) == t.t = "garbage" /\ q.at = "over"

LineStep(p, t, q) ==
    /\ p.at = "line"
    /\ \/ t = Token("status", 100) /\ q.at = "interimHeader" /\ SameRow(p, q)
       \/ /\ t = Token("status", q.code) /\ q.code # 100
          /\ q.at = "head" /\ q.headers = 0 /\ q.detected = Unknown /\ SameRow(p, q)
       \/ Garbled(t, q)

InterimStep(p, t, q) ==
    \/ /\ p.at = "interimHeader"
       /\ \/ t = Token("other", 0) /\ q.at = "interimEnd" /\ SameRow(p, q)
          \/ Garbled(t, q)
    \/ /\ p.at = "interimEnd" /\ t = Token("end", 0)
       /\ q.at = "line" /\ q.k = p.k /\ q.interims = p.interims + 1

HeaderStep(p, t, q) ==
    /\ p.at = "head" /\ t.t \in HeaderKinds
    /\ q.at = "head" /\ SameResponse(p, q)
    /\ q.code = p.code /\ q.follows = p.follows /\ q.left = p.left
    /\ q.headers = p.headers + 1
    /\ q.detected = IF SizeOf(t) = Unknown THEN p.detected ELSE SizeOf(t)

EndStep(p, t, q) ==
    /\ p.at = "head" /\ t = Token("end", 0) /\ p.headers = p.total
    /\ CASE p.follows = "length" /\ p.left > 0 ->
              q.at = "body" /\ SameResponse(p, q) /\ q.got = 0 /\ q.left = p.left
         [] p.follows = "close" ->
              q.at = "rest" /\ SameResponse(p, q) /\ q.got = 0 /\ q.left = p.left
         [] p.follows = "chunked" -> q.at = "size" /\ q.k = p.k /\ q.got = 0
         [] OTHER -> Begins(q, p.k + 1)

BodyStep(p, t, q) ==
    /\ p.at \in {"body", "rest"} /\ t = Token("data", p.k) /\ p.left > 0
    /\ IF p.at = "body" /\ p.left = 1
       THEN Begins(q, p.k + 1)
       ELSE q.at = p.at /\ SameResponse(p, q) /\ q.got = p.got + 1 /\ q.left = p.left - 1

ChunkStep(p, t, q) ==
    \/ /\ p.at = "size" /\ t.t = "size" /\ q.k = p.k /\ q.got = p.got
       /\ IF t.v = 0 THEN q.at = "last" ELSE q.at = "data" /\ q.left = t.v
    \/ /\ p.at = "data" /\ t = Token("data", p.k) /\ q.k = p.k /\ q.got = p.got + 1
       /\ IF p.left = 1 THEN q.at = "crlf" ELSE q.at = "data" /\ q.left = p.left - 1
    \/ p.at = "crlf" /\ t = Token("crlf", 0) /\ q.at = "size" /\ q.k = p.k /\ q.got = p.got
    \/ p.at = "last" /\ t = Token("crlf", 0) /\ Begins(q, p.k + 1)

\* Token t takes the server from p to q.
Step(p, t, q) ==
    \/ LineStep(p, t, q) \/ InterimStep(p, t, q) \/ HeaderStep(p, t, q) \/ EndStep(p, t, q)
    \/ BodyStep(p, t, q) \/ ChunkStep(p, t, q)

\* The tokens of s take it from p to q, within the positions of P.
Leads(P, p, s, q) ==
    \E path \in [1 .. Len(s) + 1 -> P] :
        /\ path[1] = p /\ path[Len(s) + 1] = q
        /\ \A i \in 1 .. Len(s) : Step(path[i], s[i], path[i + 1])
-----------------------------------------------------------------------------
(* Lemmas about paths *)

LEMMA LeadsNowhere ==
    ASSUME NEW P, NEW p \in P
    PROVE  Leads(P, p, <<>>, p)
<1> DEFINE path == [i \in 1 .. 1 |-> p]
<1>1. path \in [1 .. Len(<<>>) + 1 -> P] /\ path[1] = p
  OBVIOUS
<1> HIDE DEF path
<1> QED BY <1>1 DEF Leads

LEMMA LeadsOneStep ==
    ASSUME NEW P, NEW p \in P, NEW q \in P, NEW t, Step(p, t, q)
    PROVE  Leads(P, p, <<t>>, q)
<1> DEFINE path == [i \in 1 .. 2 |-> IF i = 1 THEN p ELSE q]
<1>1. path \in [1 .. Len(<<t>>) + 1 -> P] /\ path[1] = p /\ path[2] = q
  OBVIOUS
<1>2. \A i \in 1 .. Len(<<t>>) : i = 1 /\ <<t>>[i] = t
  OBVIOUS
<1> HIDE DEF path
<1> QED BY <1>1, <1>2 DEF Leads

LEMMA LeadsTail ==
    ASSUME NEW P, NEW T, NEW s \in Seq(T), s # <<>>, NEW p, NEW q, Leads(P, p, s, q)
    PROVE  \E r \in P : Step(p, Head(s), r) /\ Leads(P, r, Tail(s), q)
<1>1. PICK path \in [1 .. Len(s) + 1 -> P] :
             /\ path[1] = p /\ path[Len(s) + 1] = q
             /\ \A i \in 1 .. Len(s) : Step(path[i], s[i], path[i + 1])
  BY DEF Leads
<1>2. /\ Len(s) \in Nat \ {0} /\ Head(s) = s[1]
      /\ Len(Tail(s)) = Len(s) - 1
      /\ \A i \in 1 .. Len(Tail(s)) : Tail(s)[i] = s[i + 1]
  BY EmptySeq, HeadTailProperties
<1>3. Step(p, Head(s), path[2]) /\ path[2] \in P
  BY <1>1, <1>2
<1> DEFINE rest == [i \in 1 .. Len(Tail(s)) + 1 |-> path[i + 1]]
<1>4. /\ rest \in [1 .. Len(Tail(s)) + 1 -> P]
      /\ rest[1] = path[2] /\ rest[Len(Tail(s)) + 1] = q
      /\ \A i \in 1 .. Len(Tail(s)) : rest[i] = path[i + 1] /\ rest[i + 1] = path[i + 1 + 1]
  BY <1>1, <1>2
<1>5. \A i \in 1 .. Len(Tail(s)) : i + 1 \in 1 .. Len(s)
  BY <1>2
<1> HIDE DEF rest
<1>6. \A i \in 1 .. Len(Tail(s)) : Step(rest[i], Tail(s)[i], rest[i + 1])
  BY <1>1, <1>2, <1>4, <1>5
<1>7. Leads(P, path[2], Tail(s), q)
  BY <1>4, <1>6 DEF Leads
<1> QED BY <1>3, <1>7

\* The first and the second part of a concatenation.
LEMMA ConcatParts ==
    ASSUME NEW T, NEW s \in Seq(T), NEW u \in Seq(T)
    PROVE  /\ s \o u \in Seq(T)
           /\ Len(s) \in Nat /\ Len(u) \in Nat /\ Len(s \o u) = Len(s) + Len(u)
           /\ \A i \in 1 .. Len(s) : (s \o u)[i] = s[i]
           /\ \A i \in 1 .. Len(u) : (s \o u)[Len(s) + i] = u[i]
BY ConcatProperties

LEMMA LeadsConcat ==
    ASSUME NEW P, NEW T, NEW s \in Seq(T), NEW u \in Seq(T), NEW p, NEW q, NEW r,
           Leads(P, p, s, q), Leads(P, q, u, r)
    PROVE  Leads(P, p, s \o u, r)
<1>1. PICK a \in [1 .. Len(s) + 1 -> P] :
             /\ a[1] = p /\ a[Len(s) + 1] = q
             /\ \A i \in 1 .. Len(s) : Step(a[i], s[i], a[i + 1])
  BY DEF Leads
<1>2. PICK b \in [1 .. Len(u) + 1 -> P] :
             /\ b[1] = q /\ b[Len(u) + 1] = r
             /\ \A i \in 1 .. Len(u) : Step(b[i], u[i], b[i + 1])
  BY DEF Leads
<1>3. /\ Len(s) \in Nat /\ Len(u) \in Nat /\ Len(s \o u) = Len(s) + Len(u)
      /\ \A i \in 1 .. Len(s) : (s \o u)[i] = s[i]
      /\ \A i \in 1 .. Len(u) : (s \o u)[Len(s) + i] = u[i]
  BY ConcatParts
<1> DEFINE path == [i \in 1 .. Len(s \o u) + 1 |-> IF i <= Len(s) THEN a[i] ELSE b[i - Len(s)]]
<1>4. path \in [1 .. Len(s \o u) + 1 -> P]
  BY <1>1, <1>2, <1>3
<1>5. /\ \A i \in 1 .. Len(s) : path[i] = a[i] /\ path[i + 1] = a[i + 1]
      /\ \A i \in 1 .. Len(u) + 1 : path[Len(s) + i] = b[i]
  BY <1>1, <1>2, <1>3
<1>6. path[1] = p /\ path[Len(s \o u) + 1] = r
  BY <1>1, <1>2, <1>3, <1>5
<1> HIDE DEF path
<1>7. ASSUME NEW i \in 1 .. Len(s \o u)
      PROVE  Step(path[i], (s \o u)[i], path[i + 1])
  <2>1. CASE i <= Len(s)
    BY <1>1, <1>3, <1>5, <2>1
  <2>2. CASE ~(i <= Len(s))
    <3> DEFINE j == i - Len(s)
    <3>1. j \in 1 .. Len(u) /\ i = Len(s) + j /\ i + 1 = Len(s) + (j + 1) /\ j + 1 \in 1 .. Len(u) + 1
      BY <1>3, <2>2
    <3> HIDE DEF j
    <3>2. path[i] = b[j] /\ path[i + 1] = b[j + 1] /\ (s \o u)[i] = u[j]
      BY <1>3, <1>5, <3>1
    <3> QED BY <1>2, <3>1, <3>2
  <2> QED BY <2>1, <2>2
<1> QED BY <1>4, <1>6, <1>7 DEF Leads

LEMMA LeadsWithin ==
    ASSUME NEW P, NEW Q, P \subseteq Q, NEW p, NEW s, NEW q, Leads(P, p, s, q)
    PROVE  Leads(Q, p, s, q)
BY DEF Leads

LEMMA LeadsEnds ==
    ASSUME NEW P, NEW T, NEW s \in Seq(T), NEW p, NEW q, Leads(P, p, s, q)
    PROVE  p \in P /\ q \in P /\ (s = <<>> => p = q)
<1>1. Len(s) \in Nat /\ (s = <<>> => Len(s) = 0)
  BY EmptySeq, LenProperties
<1> QED BY <1>1 DEF Leads
-----------------------------------------------------------------------------
(* The invariant *)

Responses == [status : Codes, framing : Framings, body : Seq(Units), bad : BOOLEAN]

Deliveries == [status : Codes, kind : {"length", "chunked", "close", "upgrade"},
               body : Seq(Tokens), whole : BOOLEAN]

Bad(k) == k \in DOMAIN sent /\ sent[k].bad

FollowsIn(k) == Follows(asked[k], sent[k])

\* The k-th response is within the limits, up to the end of its headers.
Within(p) == p.interims <= MaxInterim /\ p.total <= MaxHeaders

\* All headers are read, and say what follows them.
AsAnnounced(p) ==
    /\ p.follows = "length" => p.detected = Known(p.left)
    /\ p.follows = "chunked" => p.detected = Size("chunked")
    /\ p.follows = "close" => p.detected = Unknown
    /\ p.detected = Size("upgrade") <=> p.code = 101

\* What a position says of the response that the server sends there.
LineLinked(p) == p.at = "line" /\ p.interims > MaxInterim => Bad(p.k)

OverLinked(p) == p.at = "over" => \E i \in DOMAIN sent : Bad(i)

HeadLinked(p) == p.at = "head" =>
    /\ p.k \in DOMAIN sent
    /\ p.code = sent[p.k].status /\ p.code # 100
    /\ p.headers <= p.total /\ (p.headers = p.total => AsAnnounced(p))
    /\ p.follows = FollowsIn(p.k) /\ p.follows # "none"
    /\ ~Within(p) => Bad(p.k)
    /\ p.follows = "nothing" => sent[p.k].body = <<>> /\ (Bad(p.k) => ~Within(p))
    /\ p.follows \in {"length", "close"}
          => /\ Len(sent[p.k].body) = p.left
             /\ Bad(p.k) => ~Within(p) \/ p.left > MaxBody
             /\ p.left > MaxBody => Bad(p.k)

BodyLinked(p) == p.at \in {"body", "rest"} =>
    /\ p.k \in DOMAIN sent
    /\ FollowsIn(p.k) = IF p.at = "body" THEN "length" ELSE "close"
    /\ Len(sent[p.k].body) = p.got + p.left
    /\ Bad(p.k) => ~Within(p) \/ p.got + p.left > MaxBody
    /\ p.got + p.left > MaxBody => Bad(p.k)

ChunkLinked(p) == p.at \in {"size", "data", "crlf", "last"} =>
    /\ p.k \in DOMAIN sent
    /\ FollowsIn(p.k) = "chunked"
    /\ p.got <= Len(sent[p.k].body)
    /\ p.at = "data" => /\ p.left > 0 /\ p.got + p.left <= Len(sent[p.k].body)
                        /\ p.left > MaxChunk => Bad(p.k)
    /\ p.at = "last" => /\ p.got = Len(sent[p.k].body) /\ ~Bad(p.k)
                        /\ chunking => p.k < Len(sent)

Linked(p) ==
    LineLinked(p) /\ OverLinked(p) /\ HeadLinked(p) /\ BodyLinked(p) /\ ChunkLinked(p)

Positions == {p \in Position : Linked(p)}

SentInv ==
    /\ Len(asked) <= MaxRequests
    /\ \A i \in DOMAIN sent : sent[i].body = Data(i, Len(sent[i].body)) /\ sent[i].status # 100
    /\ chunking => sent # <<>> /\ FollowsIn(Len(sent)) = "chunked"
    /\ cut => closed /\ input = <<>>

\* Position q is where the server is now.
GoesOn == ~closed /\ ~chunking
          /\ \A i \in DOMAIN sent : ~sent[i].bad /\ ~Tunnel(asked[i], sent[i].status)

ServerAt(q) ==
    /\ chunking => q.at = "size" /\ q.k = Len(sent) /\ q.got = Len(sent[Len(sent)].body)
    /\ closed => q.at = "rest" /\ q.left = 0
    /\ GoesOn => Begins(q, Len(sent) + 1)

\* Position p is where the read loop is.
ReadsStatus(p) == p.at = "line" /\ p.k = Len(delivered) + 1 /\ p.interims = interimCount

ReadsHeaders(p) ==
    /\ p.k = Len(delivered) + 1 /\ p.interims = interimCount
    /\ \/ p.at = "interimHeader" /\ status = 100 /\ detected = Unknown /\ headersCount = 0
       \/ p.at = "interimEnd" /\ status = 100 /\ detected = Unknown /\ headersCount = 1
       \/ p.at = "head" /\ status = p.code /\ detected = p.detected /\ headersCount = p.headers

ReadsBody(p) ==
    /\ p.k = Len(delivered) + 1 /\ Within(p) /\ status = sent[p.k].status
    /\ body = Data(p.k, p.got) /\ p.got <= MaxBody
    /\ phase = "length" => /\ p.at = "body" /\ remains = p.left /\ p.left > 0
                           /\ p.got + p.left <= MaxBody /\ interimCount = 0
    /\ phase = "close" => p.at = "rest"

\* Of the body of the last response that was handed over, the caller has m units.
HandedOver(k, m) ==
    /\ k = Len(delivered) /\ interimCount = 0
    /\ delivered[k].kind = "chunked" /\ ~delivered[k].whole
    /\ delivered[k].body = Data(k, m)

ReadsChunks(p) ==
    /\ phase = "chunkSize" => p.at = "size" /\ HandedOver(p.k, p.got)
    /\ phase = "chunk" => /\ p.at = "data" /\ remains = p.left
                          /\ \E m \in 0 .. p.got :
                                body = Data(p.k, p.got - m) /\ HandedOver(p.k, m)
    /\ phase = "chunkEnd" => p.at = "crlf" /\ HandedOver(p.k, p.got)
    /\ phase = "lastChunk" => p.at = "last" /\ HandedOver(p.k, p.got)

Reads(p) ==
    /\ phase = "status" => ReadsStatus(p)
    /\ phase = "headers" => ReadsHeaders(p)
    /\ phase \in {"length", "close"} => ReadsBody(p)
    /\ ReadsChunks(p)

\* What may be handed over for the i-th request.
Fits(i, d) ==
    /\ i \in DOMAIN sent
    /\ d.status = sent[i].status
    /\ d.kind = "upgrade" <=> sent[i].status = 101
    /\ d.body = Data(i, Len(d.body))
    /\ Len(d.body) <= Len(sent[i].body)
    /\ d.whole => /\ chunking => i < Len(sent)
                  /\ ~(cut /\ d.kind = "close") => d.body = sent[i].body
                  /\ d.body = sent[i].body => ~Bad(i)

DeliveredInv ==
    /\ delivered \in Seq(Deliveries)
    /\ \A i \in DOMAIN delivered : Fits(i, delivered[i])
    /\ phase = "invalid" => \E i \in DOMAIN sent : Bad(i)

ReaderInv == phase \in Running =>
    /\ interimCount <= MaxInterim /\ headersCount <= MaxHeaders
    /\ \E p \in Positions, q \in Positions :
          /\ Reads(p)
          /\ Leads(Positions, p, input, q)
          /\ ~cut => ServerAt(q)

FramingInv == TypeOK /\ SentInv /\ DeliveredInv /\ ReaderInv
-----------------------------------------------------------------------------
(* Lemmas about bodies *)

LEMMA DataType ==
    ASSUME NEW k, NEW n \in Nat
    PROVE  /\ DOMAIN Data(k, n) = 1 .. n /\ Len(Data(k, n)) = n
           /\ \A i \in 1 .. n : Data(k, n)[i] = Token("data", k)
           /\ k \in Nat => Data(k, n) \in Seq(Tokens)
           /\ k \in 1 .. MaxRequests => Data(k, n) \in Seq(Units)
           /\ (Data(k, n) = <<>>) <=> (n = 0)
<1>1. /\ DOMAIN Data(k, n) = 1 .. n
      /\ \A i \in 1 .. n : Data(k, n)[i] = Token("data", k)
      /\ Data(k, n) \in Seq({Token("data", k)})
  BY IsASeq DEF Data
<1>2. Len(Data(k, n)) = n
  BY <1>1, LenProperties
<1>3. k \in Nat => Token("data", k) \in Tokens
  BY DEF Token, Tokens, TokenKinds
<1>4. k \in 1 .. MaxRequests => Token("data", k) \in Units
  BY DEF Token, Units
<1>5. /\ k \in Nat => Data(k, n) \in Seq(Tokens)
      /\ k \in 1 .. MaxRequests => Data(k, n) \in Seq(Units)
  BY <1>1, <1>3, <1>4, IsASeq DEF Data
<1>6. (Data(k, n) = <<>>) <=> (n = 0)
  BY <1>1, <1>2, EmptySeq
<1> QED BY <1>1, <1>2, <1>5, <1>6

\* A sequence of units of one body is determined by its length.
LEMMA DataUnique ==
    ASSUME NEW T, NEW k, NEW s \in Seq(T), \A i \in 1 .. Len(s) : s[i] = Token("data", k)
    PROVE  s = Data(k, Len(s))
<1>1. Len(s) \in Nat /\ DOMAIN s = 1 .. Len(s) /\ s = [i \in 1 .. Len(s) |-> s[i]]
  BY LenProperties
<1> QED BY <1>1 DEF Data

LEMMA DataGrows ==
    ASSUME NEW k \in Nat, NEW n \in Nat, NEW m \in Nat
    PROVE  /\ Append(Data(k, n), Token("data", k)) = Data(k, n + 1)
           /\ Data(k, n) \o Data(k, m) = Data(k, n + m)
<1>1. /\ Data(k, n) \in Seq(Tokens) /\ Data(k, m) \in Seq(Tokens)
      /\ Len(Data(k, n)) = n /\ Len(Data(k, m)) = m
      /\ \A i \in 1 .. n : Data(k, n)[i] = Token("data", k)
      /\ \A i \in 1 .. m : Data(k, m)[i] = Token("data", k)
      /\ Token("data", k) \in Tokens
  <2>1. Token("data", k) \in Tokens
    BY DEF Token, Tokens, TokenKinds
  <2> QED BY DataType, <2>1
<1>2. Append(Data(k, n), Token("data", k)) = Data(k, n + 1)
  <2> DEFINE s == Append(Data(k, n), Token("data", k))
  <2>1. s \in Seq(Tokens) /\ Len(s) = n + 1 /\ \A i \in 1 .. n + 1 : s[i] = Token("data", k)
    BY <1>1, AppendProperties
  <2> HIDE DEF s
  <2>2. s = Data(k, Len(s))
    BY <2>1, DataUnique
  <2> QED BY <2>1, <2>2 DEF s
<1>3. Data(k, n) \o Data(k, m) = Data(k, n + m)
  <2> DEFINE s == Data(k, n) \o Data(k, m)
  <2>1. /\ s \in Seq(Tokens) /\ Len(s) = n + m
        /\ \A i \in 1 .. n : s[i] = Token("data", k)
        /\ \A i \in 1 .. m : s[n + i] = Token("data", k)
    <3>1. s \in Seq(Tokens) /\ Len(s) = n + m
      BY <1>1, ConcatProperties
    <3>2. \A i \in 1 .. n : s[i] = Data(k, n)[i]
      BY <1>1, ConcatProperties
    <3>3. \A i \in 1 .. m : s[n + i] = Data(k, m)[i]
      BY <1>1, ConcatProperties
    <3> HIDE DEF s
    <3> QED BY <1>1, <3>1, <3>2, <3>3
  <2>2. \A i \in 1 .. Len(s) : s[i] = Token("data", k)
    <3> SUFFICES ASSUME NEW i \in 1 .. n + m PROVE s[i] = Token("data", k)
      BY <2>1
    <3>1. CASE i <= n
      BY <2>1, <3>1
    <3>2. CASE ~(i <= n)
      <4>1. i - n \in 1 .. m /\ n + (i - n) = i
        BY <3>2
      <4> HIDE DEF s
      <4> QED BY <2>1, <4>1
    <3> QED BY <3>1, <3>2
  <2> HIDE DEF s
  <2>3. s = Data(k, Len(s))
    BY <2>1, <2>2, DataUnique
  <2> QED BY <2>1, <2>3 DEF s
<1> QED BY <1>2, <1>3

LEMMA DataPrefix ==
    ASSUME NEW k, NEW n \in Nat, NEW m \in Nat, m <= n
    PROVE  IsPrefix(Data(k, m), Data(k, n))
<1>1. Len(Data(k, n)) = n /\ Len(Data(k, m)) = m
  BY DataType
<1>2. \A i \in 1 .. m : Data(k, m)[i] = Data(k, n)[i]
  BY DataType
<1>3. SubSeq(Data(k, m), 1, m) = SubSeq(Data(k, n), 1, m)
  <2>1. /\ Data(k, m) \in Seq({Token("data", k)})
        /\ Data(k, n) \in Seq({Token("data", k)})
    BY IsASeq DEF Data
  <2>2. /\ SubSeq(Data(k, m), 1, m) \in Seq({Token("data", k)})
        /\ SubSeq(Data(k, n), 1, m) \in Seq({Token("data", k)})
        /\ Len(SubSeq(Data(k, m), 1, m)) = m /\ Len(SubSeq(Data(k, n), 1, m)) = m
        /\ \A i \in 1 .. m : SubSeq(Data(k, m), 1, m)[i] = Data(k, m)[i]
        /\ \A i \in 1 .. m : SubSeq(Data(k, n), 1, m)[i] = Data(k, n)[i]
    BY <1>1, <2>1, SubSeqProperties
  <2> QED BY <1>2, <2>2, SeqEqual
<1> QED BY <1>1, <1>3 DEF IsPrefix
-----------------------------------------------------------------------------
(* Lemmas about what the server sends *)

LineAt(at, k, interims) ==
    [at |-> at, k |-> k, code |-> 200, interims |-> interims, headers |-> 0, total |-> 0,
     detected |-> Unknown, follows |-> "nothing", got |-> 0, left |-> 0]

HeadAt(k, interims, code, headers, total, said, follows, left) ==
    [at |-> "head", k |-> k, code |-> code, interims |-> interims, headers |-> headers,
     total |-> total, detected |-> said, follows |-> follows, got |-> 0, left |-> left]

BodyAt(at, k, interims, total, got, left) ==
    [at |-> at, k |-> k, code |-> 200, interims |-> interims, headers |-> 0, total |-> total,
     detected |-> Unknown, follows |-> "nothing", got |-> got, left |-> left]

ChunkAt(at, k, got, left) ==
    [at |-> at, k |-> k, code |-> 200, interims |-> 0, headers |-> 0, total |-> 0,
     detected |-> Unknown, follows |-> "nothing", got |-> got, left |-> left]

LEMMA LineType ==
    ASSUME NEW at \in {"line", "interimHeader", "interimEnd", "over"}, NEW k \in Nat \ {0},
           NEW interims \in Nat
    PROVE  LineAt(at, k, interims) \in Position
BY DEF Position, LineAt, Unknown, Size, Detections, Codes

LEMMA HeadType ==
    ASSUME NEW k \in Nat \ {0}, NEW interims \in Nat, NEW code \in Codes, NEW headers \in Nat,
           NEW total \in Nat, NEW said \in Detections, NEW follows \in Framings \cup {"nothing"},
           NEW left \in Nat
    PROVE  HeadAt(k, interims, code, headers, total, said, follows, left) \in Position
BY DEF Position, HeadAt

LEMMA BodyType ==
    ASSUME NEW at \in {"body", "rest"}, NEW k \in Nat \ {0}, NEW interims \in Nat,
           NEW total \in Nat, NEW got \in Nat, NEW left \in Nat
    PROVE  BodyAt(at, k, interims, total, got, left) \in Position
BY DEF Position, BodyAt, Unknown, Size, Detections, Codes

LEMMA ChunkType ==
    ASSUME NEW at \in {"size", "data", "crlf", "last"}, NEW k \in Nat \ {0}, NEW got \in Nat,
           NEW left \in Nat
    PROVE  ChunkAt(at, k, got, left) \in Position
BY DEF Position, ChunkAt, Unknown, Size, Detections, Codes

LEMMA LeadsAlong ==
    ASSUME NEW P, NEW s, NEW path \in [1 .. Len(s) + 1 -> P],
           \A i \in 1 .. Len(s) : Step(path[i], s[i], path[i + 1])
    PROVE  Leads(P, path[1], s, path[Len(s) + 1])
BY DEF Leads

LEMMA LeadsThroughBody ==
    ASSUME NEW P, NEW k \in Nat \ {0}, NEW n \in Nat \ {0}, NEW interims \in Nat, NEW total \in Nat,
           \A j \in 0 .. n - 1 : BodyAt("body", k, interims, total, j, n - j) \in P,
           NEW q \in P, Begins(q, k + 1)
    PROVE  Leads(P, BodyAt("body", k, interims, total, 0, n), Data(k, n), q)
<1> DEFINE path == [i \in 1 .. n + 1 |->
                        IF i = n + 1 THEN q ELSE BodyAt("body", k, interims, total, i - 1, n - (i - 1))]
<1>1. path \in [1 .. Len(Data(k, n)) + 1 -> P] /\ Len(Data(k, n)) = n
  <2>1. \A i \in 1 .. n + 1 : i # n + 1 => i - 1 \in 0 .. n - 1
    OBVIOUS
  <2> QED BY <2>1, DataType
<1>2. path[1] = BodyAt("body", k, interims, total, 0, n) /\ path[n + 1] = q
  OBVIOUS
<1>3. ASSUME NEW i \in 1 .. n PROVE Step(path[i], Data(k, n)[i], path[i + 1])
  <2>1. path[i] = BodyAt("body", k, interims, total, i - 1, n - (i - 1)) /\ i + 1 \in 1 .. n + 1
    OBVIOUS
  <2>2. Data(k, n)[i] = Token("data", k)
    BY DataType
  <2>3. CASE i = n
    <3>1. path[i + 1] = q
      BY <2>3
    <3> HIDE DEF path
    <3> QED BY <2>1, <2>2, <2>3, <3>1 DEF Step, BodyStep, BodyAt
  <2>4. CASE i # n
    <3>1. path[i + 1] = BodyAt("body", k, interims, total, i, n - i)
      BY <2>4
    <3> HIDE DEF path
    <3> QED BY <2>1, <2>2, <2>4, <3>1 DEF Step, BodyStep, BodyAt, SameResponse, SameRow
  <2> QED BY <2>3, <2>4
<1> HIDE DEF path
<1> QED BY <1>1, <1>2, <1>3, LeadsAlong

LEMMA LeadsThroughRest ==
    ASSUME NEW P, NEW k \in Nat \ {0}, NEW n \in Nat, NEW interims \in Nat, NEW total \in Nat,
           \A j \in 0 .. n : BodyAt("rest", k, interims, total, j, n - j) \in P
    PROVE  Leads(P, BodyAt("rest", k, interims, total, 0, n), Data(k, n),
                 BodyAt("rest", k, interims, total, n, 0))
<1> DEFINE path == [i \in 1 .. n + 1 |-> BodyAt("rest", k, interims, total, i - 1, n - (i - 1))]
<1>1. path \in [1 .. Len(Data(k, n)) + 1 -> P] /\ Len(Data(k, n)) = n
  <2>1. \A i \in 1 .. n + 1 : i - 1 \in 0 .. n
    OBVIOUS
  <2> QED BY <2>1, DataType
<1>2. /\ path[1] = BodyAt("rest", k, interims, total, 0, n)
      /\ path[n + 1] = BodyAt("rest", k, interims, total, n, 0)
  OBVIOUS
<1>3. ASSUME NEW i \in 1 .. n PROVE Step(path[i], Data(k, n)[i], path[i + 1])
  <2>1. /\ path[i] = BodyAt("rest", k, interims, total, i - 1, n - (i - 1))
        /\ path[i + 1] = BodyAt("rest", k, interims, total, i, n - i)
    OBVIOUS
  <2>2. Data(k, n)[i] = Token("data", k)
    BY DataType
  <2> HIDE DEF path
  <2> QED BY <2>1, <2>2 DEF Step, BodyStep, BodyAt, SameResponse, SameRow
<1> HIDE DEF path
<1> QED BY <1>1, <1>2, <1>3, LeadsAlong

LEMMA LeadsThroughChunkData ==
    ASSUME NEW P, NEW k \in Nat \ {0}, NEW n \in Nat \ {0}, NEW g \in Nat,
           \A j \in 0 .. n - 1 : ChunkAt("data", k, g + j, n - j) \in P,
           ChunkAt("crlf", k, g + n, 0) \in P
    PROVE  Leads(P, ChunkAt("data", k, g, n), Data(k, n), ChunkAt("crlf", k, g + n, 0))
<1> DEFINE path == [i \in 1 .. n + 1 |->
                        IF i = n + 1 THEN ChunkAt("crlf", k, g + n, 0)
                        ELSE ChunkAt("data", k, g + (i - 1), n - (i - 1))]
<1>1. path \in [1 .. Len(Data(k, n)) + 1 -> P] /\ Len(Data(k, n)) = n
  <2>1. \A i \in 1 .. n + 1 : i # n + 1 => i - 1 \in 0 .. n - 1
    OBVIOUS
  <2> QED BY <2>1, DataType
<1>2. path[1] = ChunkAt("data", k, g, n) /\ path[n + 1] = ChunkAt("crlf", k, g + n, 0)
  OBVIOUS
<1>3. ASSUME NEW i \in 1 .. n PROVE Step(path[i], Data(k, n)[i], path[i + 1])
  <2>1. path[i] = ChunkAt("data", k, g + (i - 1), n - (i - 1)) /\ i + 1 \in 1 .. n + 1
    OBVIOUS
  <2>2. Data(k, n)[i] = Token("data", k)
    BY DataType
  <2>3. CASE i = n
    <3>1. path[i + 1] = ChunkAt("crlf", k, g + n, 0)
      BY <2>3
    <3> HIDE DEF path
    <3> QED BY <2>1, <2>2, <2>3, <3>1 DEF Step, ChunkStep, ChunkAt
  <2>4. CASE i # n
    <3>1. path[i + 1] = ChunkAt("data", k, g + i, n - i)
      BY <2>4
    <3> HIDE DEF path
    <3> QED BY <2>1, <2>2, <2>4, <3>1 DEF Step, ChunkStep, ChunkAt
  <2> QED BY <2>3, <2>4
<1> HIDE DEF path
<1> QED BY <1>1, <1>2, <1>3, LeadsAlong

\* What the headers hs say of the body, line by line.
SaidBy(hs, said) ==
    /\ said[0] = Unknown
    /\ \A i \in 1 .. Len(hs) :
          said[i] = IF SizeOf(hs[i]) = Unknown THEN said[i - 1] ELSE SizeOf(hs[i])

HeadPath(P, k, interims, code, follows, left, hs, said) ==
    /\ hs \in Seq(Tokens) /\ \A i \in 1 .. Len(hs) : hs[i].t \in HeaderKinds
    /\ SaidBy(hs, said)
    /\ \A i \in 0 .. Len(hs) : HeadAt(k, interims, code, i, Len(hs), said[i], follows, left) \in P

LEMMA LeadsThroughHeaders ==
    ASSUME NEW P, NEW k, NEW interims, NEW code, NEW follows, NEW left, NEW hs, NEW said,
           HeadPath(P, k, interims, code, follows, left, hs, said)
    PROVE  Leads(P, HeadAt(k, interims, code, 0, Len(hs), Unknown, follows, left), hs,
                 HeadAt(k, interims, code, Len(hs), Len(hs), said[Len(hs)], follows, left))
<1> DEFINE n == Len(hs)
           At(i) == HeadAt(k, interims, code, i, n, said[i], follows, left)
           path == [i \in 1 .. n + 1 |-> At(i - 1)]
<1>0. /\ n \in Nat /\ \A i \in 1 .. n : hs[i].t \in HeaderKinds
      /\ said[0] = Unknown
      /\ \A i \in 1 .. n : said[i] = IF SizeOf(hs[i]) = Unknown THEN said[i - 1] ELSE SizeOf(hs[i])
      /\ \A i \in 0 .. n : At(i) \in P
  BY LenProperties DEF HeadPath, SaidBy
<1>1. path \in [1 .. n + 1 -> P] /\ path[1] = At(0) /\ path[n + 1] = At(n)
  <2>1. \A i \in 1 .. n + 1 : i - 1 \in 0 .. n
    BY <1>0
  <2>2. \A j \in 0 .. n : At(j) \in P
    BY <1>0
  <2> HIDE DEF At, n
  <2> QED BY <1>0, <2>1, <2>2
<1>2. ASSUME NEW i \in 1 .. n PROVE Step(path[i], hs[i], path[i + 1])
  <2>1. path[i] = At(i - 1) /\ path[i + 1] = At(i) /\ i - 1 \in Nat
    <3> HIDE DEF At, n
    <3> QED BY <1>0
  <2> HIDE DEF path
  <2> QED BY <1>0, <2>1 DEF Step, HeaderStep, HeadAt, SameResponse, SameRow
<1> HIDE DEF path
<1>3. Leads(P, path[1], hs, path[n + 1])
  BY <1>1, <1>2, LeadsAlong
<1> QED BY <1>0, <1>1, <1>3

LEMMA LeadsThroughInterims ==
    ASSUME NEW P, NEW k, NEW n \in Nat,
           \A j \in 0 .. n : LineAt("line", k, j) \in P,
           \A j \in 0 .. n - 1 : LineAt("interimHeader", k, j) \in P /\ LineAt("interimEnd", k, j) \in P
    PROVE  /\ Interims(n) \in Seq(Tokens)
           /\ Leads(P, LineAt("line", k, 0), Interims(n), LineAt("line", k, n))
<1> DEFINE At == [x \in 0 .. 3 * n |->
                    CASE x % 3 = 0 -> LineAt("line", k, x \div 3)
                      [] x % 3 = 1 -> LineAt("interimHeader", k, x \div 3)
                      [] x % 3 = 2 -> LineAt("interimEnd", k, x \div 3)]
           path == [i \in 1 .. 3 * n + 1 |-> At[i - 1]]
<1>1. \A x \in 0 .. 3 * n :
         /\ x \div 3 \in 0 .. n /\ x % 3 \in 0 .. 2 /\ (x % 3 # 0 => x \div 3 \in 0 .. n - 1)
         /\ x = 3 * (x \div 3) + (x % 3)
  OBVIOUS
<1>2. \A x \in 0 .. 3 * n - 1 :
         /\ x % 3 = 0 => (x + 1) % 3 = 1 /\ (x + 1) \div 3 = x \div 3
         /\ x % 3 = 1 => (x + 1) % 3 = 2 /\ (x + 1) \div 3 = x \div 3
         /\ x % 3 = 2 => (x + 1) % 3 = 0 /\ (x + 1) \div 3 = (x \div 3) + 1
  OBVIOUS
<1>3. 0 % 3 = 0 /\ 0 \div 3 = 0 /\ (3 * n) % 3 = 0 /\ (3 * n) \div 3 = n
  OBVIOUS
<1>4. /\ Interim[1] = Token("status", 100) /\ Interim[2] = Token("other", 0)
      /\ Interim[3] = Token("end", 0)
  BY DEF Interim
<1>5. /\ DOMAIN Interims(n) = 1 .. 3 * n
      /\ \A i \in 1 .. 3 * n : Interims(n)[i] = Interim[((i - 1) % 3) + 1]
  BY DEF Interims
<1>6. Interims(n) \in Seq(Tokens) /\ Len(Interims(n)) = 3 * n
  <2>1. \A i \in 1 .. 3 * n : Interim[((i - 1) % 3) + 1] \in Tokens
    <3> SUFFICES ASSUME NEW i \in 1 .. 3 * n PROVE Interim[((i - 1) % 3) + 1] \in Tokens
      OBVIOUS
    <3>1. (i - 1) % 3 \in 0 .. 2
      BY <1>1
    <3>2. Token("status", 100) \in Tokens /\ Token("other", 0) \in Tokens /\ Token("end", 0) \in Tokens
      BY DEF Token, Tokens, TokenKinds
    <3> QED BY <1>4, <3>1, <3>2
  <2>2. Interims(n) \in Seq(Tokens)
    BY <2>1, IsASeq DEF Interims
  <2> QED BY <1>5, <2>2, LenProperties
<1>7. path \in [1 .. Len(Interims(n)) + 1 -> P]
  <2>1. \A x \in 0 .. 3 * n : At[x] \in P
    BY <1>1
  <2>2. \A i \in 1 .. 3 * n + 1 : i - 1 \in 0 .. 3 * n
    OBVIOUS
  <2> HIDE DEF At
  <2> QED BY <1>6, <2>1, <2>2
<1>8. path[1] = LineAt("line", k, 0) /\ path[3 * n + 1] = LineAt("line", k, n)
  <2>1. At[0] = LineAt("line", k, 0) /\ At[3 * n] = LineAt("line", k, n)
    BY <1>3
  <2> HIDE DEF At
  <2> QED BY <2>1
<1>9. ASSUME NEW i \in 1 .. 3 * n PROVE Step(path[i], Interims(n)[i], path[i + 1])
  <2> DEFINE x == i - 1
  <2>1. x \in 0 .. 3 * n - 1 /\ x \in 0 .. 3 * n /\ x + 1 \in 0 .. 3 * n /\ i = x + 1
    OBVIOUS
  <2>2. path[i] = At[x] /\ path[i + 1] = At[x + 1] /\ Interims(n)[i] = Interim[(x % 3) + 1]
    <3> HIDE DEF At
    <3> QED BY <1>5
  <2>6. \A y \in 0 .. 3 * n :
           /\ y % 3 = 0 => At[y] = LineAt("line", k, y \div 3)
           /\ y % 3 = 1 => At[y] = LineAt("interimHeader", k, y \div 3)
           /\ y % 3 = 2 => At[y] = LineAt("interimEnd", k, y \div 3)
    OBVIOUS
  <2> HIDE DEF path, x, At
  <2>3. CASE x % 3 = 0
    <3>1. /\ path[i] = LineAt("line", k, x \div 3) /\ path[i + 1] = LineAt("interimHeader", k, x \div 3)
          /\ Interims(n)[i] = Token("status", 100)
      BY <1>2, <1>4, <2>1, <2>2, <2>3, <2>6
    <3> QED BY <3>1 DEF Step, LineStep, LineAt, SameRow
  <2>4. CASE x % 3 = 1
    <3>1. /\ path[i] = LineAt("interimHeader", k, x \div 3)
          /\ path[i + 1] = LineAt("interimEnd", k, x \div 3)
          /\ Interims(n)[i] = Token("other", 0)
      BY <1>2, <1>4, <2>1, <2>2, <2>4, <2>6
    <3> QED BY <3>1 DEF Step, InterimStep, LineAt, SameRow
  <2>5. CASE x % 3 = 2
    <3>1. /\ path[i] = LineAt("interimEnd", k, x \div 3)
          /\ path[i + 1] = LineAt("line", k, (x \div 3) + 1)
          /\ Interims(n)[i] = Token("end", 0)
      <4>1. path[i] = At[x] /\ path[i + 1] = At[x + 1] /\ Interims(n)[i] = Token("end", 0)
        BY <1>4, <2>2, <2>5
      <4>2. At[x] = LineAt("interimEnd", k, x \div 3)
        BY <2>1, <2>5, <2>6
      <4>3. (x + 1) % 3 = 0 /\ (x + 1) \div 3 = (x \div 3) + 1
        BY <1>2, <2>1, <2>5
      <4>4. At[x + 1] = LineAt("line", k, (x \div 3) + 1)
        BY <2>1, <2>6, <4>3
      <4> QED BY <4>1, <4>2, <4>4
    <3> QED BY <3>1 DEF Step, InterimStep, LineAt
  <2> QED BY <1>1, <2>1, <2>3, <2>4, <2>5
<1> HIDE DEF path
<1> QED BY <1>6, <1>7, <1>8, <1>9, LeadsAlong
-----------------------------------------------------------------------------
(* Lemmas about the server *)

\* The types of what the read loop keeps.
LEMMA TypesOf ==
    ASSUME FramingInv
    PROVE  /\ input \in Seq(Tokens) /\ status \in Codes /\ detected \in Detections
           /\ headersCount \in Nat /\ interimCount \in Nat
           /\ headersCount \in 0 .. (MaxHeaders + 1) /\ interimCount \in 0 .. (MaxInterim + 1)
           /\ remains \in Nat /\ body \in Seq(Tokens) /\ Len(delivered) <= Len(asked)
           /\ delivered \in Seq(Deliveries) /\ Len(delivered) \in Nat
           /\ phase \in Running \cup {"stopped", "invalid", "failed"}
           /\ phase \in Running => interimCount <= MaxInterim /\ headersCount <= MaxHeaders
           /\ sent \in Seq(Responses) /\ Len(sent) \in Nat /\ DOMAIN sent = 1 .. Len(sent)
BY LenProperties, FramingAssumption
   DEF FramingInv, TypeOK, ReaderInv, DeliveredInv, Detections, Tokens, Responses

\* Two positions from which the same tokens lead the same way.
LEMMA LeadsFrom ==
    ASSUME NEW P, NEW T, NEW s \in Seq(T), s # <<>>, NEW p, NEW r \in P, NEW q,
           \A t, x : Step(p, t, x) => Step(r, t, x),
           Leads(P, p, s, q)
    PROVE  Leads(P, r, s, q)
<1>1. PICK path \in [1 .. Len(s) + 1 -> P] :
             /\ path[1] = p /\ path[Len(s) + 1] = q
             /\ \A i \in 1 .. Len(s) : Step(path[i], s[i], path[i + 1])
  BY DEF Leads
<1>2. Len(s) \in Nat \ {0}
  BY EmptySeq, LenProperties
<1> DEFINE other == [path EXCEPT ![1] = r]
<1>3. /\ other \in [1 .. Len(s) + 1 -> P]
      /\ other[1] = r /\ other[Len(s) + 1] = q
      /\ \A i \in 1 .. Len(s) : other[i + 1] = path[i + 1] /\ (i # 1 => other[i] = path[i])
  BY <1>1, <1>2
<1> HIDE DEF other
<1>4. \A i \in 1 .. Len(s) : Step(other[i], s[i], other[i + 1])
  <2> SUFFICES ASSUME NEW i \in 1 .. Len(s) PROVE Step(other[i], s[i], other[i + 1])
    OBVIOUS
  <2>1. CASE i = 1
    BY <1>1, <1>3, <2>1
  <2>2. CASE i # 1
    BY <1>1, <1>3, <2>2
  <2> QED BY <2>1, <2>2
<1> QED BY <1>3, <1>4 DEF Leads

LEMMA BeginsAlike ==
    ASSUME NEW k, NEW q, Begins(q, k)
    PROVE  \A t, x : Step(LineAt("line", k, 0), t, x) => Step(q, t, x)
BY DEF Begins, LineAt, Step, LineStep, InterimStep, HeaderStep, EndStep, BodyStep, ChunkStep, SameRow

LEMMA ChunksAlike ==
    ASSUME NEW k, NEW g, NEW q, q.at = "size", q.k = k, q.got = g
    PROVE  \A t, x : Step(ChunkAt("size", k, g, 0), t, x) => Step(q, t, x)
BY DEF ChunkAt, Step, LineStep, InterimStep, HeaderStep, EndStep, BodyStep, ChunkStep

\* The tokens of lump are what may follow the output so far, in this step.
Continues(lump) ==
    /\ lump \in Seq(Tokens)
    /\ input' = input \o lump
    /\ \A q \in Positions : ServerAt(q) =>
          \E r \in Positions' : Leads(Positions', q, lump, r) /\ ServerAt(r)'

\* The server adds a lump to its output, behind which it is at another position.
LEMMA ServerSends ==
    ASSUME FramingInv, ~cut, NEW lump, Continues(lump),
           Positions \subseteq Positions',
           UNCHANGED <<phase, headVars, remains, body, delivered>>,
           \A k \in DOMAIN sent : sent'[k].status = sent[k].status
    PROVE  ReaderInv'
<1> SUFFICES ASSUME phase \in Running PROVE ReaderInv'
  BY DEF ReaderInv
<1>1. PICK p \in Positions, q \in Positions : Reads(p) /\ Leads(Positions, p, input, q) /\ ServerAt(q)
  BY DEF FramingInv, ReaderInv
<1>2. PICK r \in Positions' : Leads(Positions', q, lump, r) /\ ServerAt(r)'
  BY <1>1 DEF Continues
<1>3. input \in Seq(Tokens) /\ lump \in Seq(Tokens) /\ input' = input \o lump
  BY DEF FramingInv, TypeOK, Tokens, Continues
<1>4. Leads(Positions', p, input', r)
  <2>1. Leads(Positions', p, input, q)
    BY <1>1, LeadsWithin
  <2> QED BY <1>2, <1>3, <2>1, LeadsConcat
<1>5. Reads(p)'
  <2>1. ReadsBody(p) /\ phase \in {"length", "close"} => ReadsBody(p)'
    BY <1>1 DEF ReadsBody, Within, Positions, Linked, BodyLinked, headVars
  <2>2. ReadsStatus(p) => ReadsStatus(p)'
    BY DEF ReadsStatus, headVars
  <2>3. ReadsHeaders(p) => ReadsHeaders(p)'
    BY DEF ReadsHeaders, headVars
  <2>4. ReadsChunks(p) => ReadsChunks(p)'
    BY DEF ReadsChunks, HandedOver, headVars
  <2> QED BY <1>1, <2>1, <2>2, <2>3, <2>4 DEF Reads
<1>6. interimCount' <= MaxInterim /\ headersCount' <= MaxHeaders
  BY DEF FramingInv, ReaderInv, headVars
<1>7. p \in Positions'
  BY <1>1
<1> QED BY <1>2, <1>4, <1>5, <1>6, <1>7 DEF ReaderInv

\* A response that is added leaves what is known of the earlier ones.
LEMMA ResponseAdded ==
    ASSUME FramingInv, NEW x \in Responses, sent' = Append(sent, x), asked' = asked, cut' = cut,
           ~chunking
    PROVE  /\ \A p \in Position : Linked(p) => Linked(p)'
           /\ \A i, d : Fits(i, d) => Fits(i, d)'
           /\ \A k \in DOMAIN sent : sent'[k] = sent[k] /\ k \in DOMAIN sent'
           /\ (\E i \in DOMAIN sent : Bad(i)) => \E i \in DOMAIN sent' : Bad(i)'
<1>1. /\ sent \in Seq(Responses) /\ DOMAIN sent = 1 .. Len(sent) /\ Len(sent) \in Nat
      /\ DOMAIN sent' = 1 .. Len(sent) + 1 /\ Len(sent') = Len(sent) + 1
      /\ \A k \in DOMAIN sent : sent'[k] = sent[k] /\ k \in DOMAIN sent'
  BY AppendProperties, LenProperties DEF FramingInv, TypeOK, Responses
<1>2. \A k \in DOMAIN sent : /\ FollowsIn(k)' = FollowsIn(k)
                             /\ Bad(k)' <=> Bad(k)
                             /\ k < Len(sent')
  BY <1>1 DEF FollowsIn, Follows, NeverHasBody, Tunnel, Bad
<1>3. (\E i \in DOMAIN sent : Bad(i)) => \E i \in DOMAIN sent' : Bad(i)'
  BY <1>1, <1>2
<1>4. ASSUME NEW p \in Position, Linked(p) PROVE Linked(p)'
  <2>1. LineLinked(p)'
    BY <1>1, <1>2, <1>4 DEF Linked, LineLinked, Bad
  <2>2. OverLinked(p)'
    BY <1>3, <1>4 DEF Linked, OverLinked
  <2>3. HeadLinked(p)'
    BY <1>1, <1>2, <1>4 DEF Linked, HeadLinked, Within, AsAnnounced
  <2>4. BodyLinked(p)'
    BY <1>1, <1>2, <1>4 DEF Linked, BodyLinked, Within
  <2>5. ChunkLinked(p)'
    BY <1>1, <1>2, <1>4 DEF Linked, ChunkLinked
  <2> QED BY <2>1, <2>2, <2>3, <2>4, <2>5 DEF Linked
<1>5. \A i, d : Fits(i, d) => Fits(i, d)'
  BY <1>1, <1>2 DEF Fits
<1> QED BY <1>1, <1>3, <1>4, <1>5

\* What the headers of a response say of what follows them.
Said(code, framing, n) ==
    CASE code = 101                         -> Size("upgrade")
      [] code # 101 /\ framing = "length"   -> Known(n)
      [] code # 101 /\ framing = "chunked"  -> Size("chunked")
      [] OTHER                              -> Unknown

HeadersOf(hs, code, framing, n) ==
    /\ code \in Codes /\ framing \in Framings /\ n \in Nat /\ (code = 101 => framing = "none")
    /\ \E others \in Nat, upgrade \in UpgradeHeaders(code) :
          hs = FramingHeaders(framing, n) \o upgrade \o Others(others)

LEMMA HeadersSay ==
    ASSUME ~AdvertisesUpgrade, NEW hs, NEW code, NEW framing, NEW n,
           HeadersOf(hs, code, framing, n)
    PROVE  /\ hs \in Seq(Tokens)
           /\ \A i \in 1 .. Len(hs) : hs[i].t \in HeaderKinds
           /\ \E said \in [Nat -> Detections] :
                 SaidBy(hs, said) /\ said[Len(hs)] = Said(code, framing, n)
<1>0. PICK others \in Nat, upgrade \in UpgradeHeaders(code) :
          /\ hs = FramingHeaders(framing, n) \o upgrade \o Others(others)
          /\ code \in Codes /\ framing \in Framings /\ n \in Nat /\ (code = 101 => framing = "none")
  BY DEF HeadersOf
<1> DEFINE H == [t : HeaderKinds, v : Nat]
           special == FramingHeaders(framing, n) \o upgrade
<1>1. /\ \A v \in Nat : \A t \in HeaderKinds : Token(t, v) \in H
      /\ H \subseteq Tokens
  BY DEF Token, Tokens, TokenKinds, HeaderKinds
<1>2. /\ Others(others) \in Seq(H) /\ Len(Others(others)) = others
      /\ \A i \in 1 .. others : Others(others)[i] = Token("other", 0)
  <2>1. Token("other", 0) \in H
    BY <1>0, <1>1 DEF HeaderKinds
  <2>2. Others(others) \in Seq(H) /\ DOMAIN Others(others) = 1 .. others
    BY <2>1, IsASeq DEF Others
  <2> QED BY <2>2, LenProperties DEF Others
<1>3. \/ /\ special = <<>> /\ Said(code, framing, n) = Unknown
      \/ \E x \in H : /\ special = <<x>> /\ Said(code, framing, n) = SizeOf(x)
                      /\ SizeOf(x) # Unknown /\ SizeOf(x) \in Detections
  <2>1. CASE code = 101
    <3>1. upgrade = <<Token("upgrade", 0)>> /\ FramingHeaders(framing, n) = <<>>
      BY <1>0, <2>1 DEF UpgradeHeaders, FramingHeaders
    <3>2. special = <<Token("upgrade", 0)>>
      BY <3>1
    <3>3. Token("upgrade", 0) \in H
      BY <1>0, <1>1 DEF HeaderKinds
    <3>4. /\ SizeOf(Token("upgrade", 0)) = Size("upgrade")
          /\ Size("upgrade") # Unknown /\ Size("upgrade") \in Detections
      BY DEF SizeOf, Token, Size, Unknown, Detections
    <3> QED BY <2>1, <3>2, <3>3, <3>4 DEF Said
  <2>2. CASE code # 101
    <3>1. upgrade = <<>>
      BY <1>0, <2>2 DEF UpgradeHeaders
    <3>2. CASE framing = "length"
      <4>1. special = <<Token("content-length", n)>>
        BY <3>1, <3>2 DEF FramingHeaders
      <4>2. Token("content-length", n) \in H
        BY <1>0, <1>1 DEF HeaderKinds
      <4>3. /\ SizeOf(Token("content-length", n)) = Known(n)
            /\ Known(n) # Unknown /\ Known(n) \in Detections
        BY <1>0 DEF SizeOf, Token, Known, Size, Unknown, Detections
      <4> QED BY <2>2, <3>2, <4>1, <4>2, <4>3 DEF Said
    <3>3. CASE framing = "chunked"
      <4>1. special = <<Token("transfer-encoding", 0)>>
        BY <3>1, <3>3 DEF FramingHeaders
      <4>2. Token("transfer-encoding", 0) \in H
        BY <1>0, <1>1 DEF HeaderKinds
      <4>3. /\ SizeOf(Token("transfer-encoding", 0)) = Size("chunked")
            /\ Size("chunked") # Unknown /\ Size("chunked") \in Detections
        BY DEF SizeOf, Token, Size, Unknown, Detections
      <4> QED BY <2>2, <3>3, <4>1, <4>2, <4>3 DEF Said
    <3>4. CASE framing \in {"none", "close"}
      <4>1. special = <<>>
        BY <3>1, <3>4 DEF FramingHeaders
      <4> QED BY <2>2, <3>4, <4>1 DEF Said
    <3> QED BY <1>0, <3>2, <3>3, <3>4 DEF Framings
  <2> QED BY <2>1, <2>2
<1>4. /\ hs \in Seq(H) /\ Len(hs) = Len(special) + others /\ Len(special) \in {0, 1}
      /\ \A i \in 1 .. Len(special) : hs[i] = special[i]
      /\ \A i \in 1 .. Len(hs) : ~(i <= Len(special)) => hs[i] = Token("other", 0)
  <2>2. hs = special \o Others(others)
    BY <1>0
  <2> HIDE DEF special, H
  <2>1. special \in Seq(H) /\ Len(special) \in {0, 1}
    <3>1. CASE special = <<>>
      BY <3>1
    <3>2. ASSUME NEW x \in H, special = <<x>> PROVE special \in Seq(H) /\ Len(special) \in {0, 1}
      BY <3>2
    <3> QED BY <1>3, <3>1, <3>2
  <2>3. /\ hs \in Seq(H) /\ Len(hs) = Len(special) + others
        /\ \A i \in 1 .. Len(special) : hs[i] = special[i]
        /\ \A i \in 1 .. others : hs[Len(special) + i] = Others(others)[i]
    <3> DEFINE u == Others(others)
    <3>1. u \in Seq(H) /\ Len(u) = others
      BY <1>2
    <3> HIDE DEF u
    <3>2. /\ special \o u \in Seq(H) /\ Len(special \o u) = Len(special) + Len(u)
          /\ \A i \in 1 .. Len(special) : (special \o u)[i] = special[i]
          /\ \A i \in 1 .. Len(u) : (special \o u)[Len(special) + i] = u[i]
      <4>1. \A a, b \in Seq(H) :
               /\ a \o b \in Seq(H) /\ Len(a \o b) = Len(a) + Len(b)
               /\ \A i \in 1 .. Len(a) : (a \o b)[i] = a[i]
               /\ \A i \in 1 .. Len(b) : (a \o b)[Len(a) + i] = b[i]
        BY ConcatParts
      <4> QED BY <2>1, <3>1, <4>1
    <3> QED BY <2>2, <3>1, <3>2 DEF u
  <2>4. ASSUME NEW i \in 1 .. Len(hs), ~(i <= Len(special)) PROVE hs[i] = Token("other", 0)
    <3>1. i - Len(special) \in 1 .. others /\ Len(special) + (i - Len(special)) = i
      BY <2>1, <2>3, <2>4
    <3> QED BY <1>2, <2>3, <3>1
  <2> QED BY <2>1, <2>3, <2>4
<1>5. SizeOf(Token("other", 0)) = Unknown
  BY DEF SizeOf, Token
<1>6. hs \in Seq(Tokens) /\ \A i \in 1 .. Len(hs) : hs[i].t \in HeaderKinds
  <2>1. \A i \in 1 .. Len(hs) : hs[i] \in H
    BY <1>4, ElementOfSeq
  <2>2. hs \in Seq(Tokens)
    BY <1>1, <1>4, SeqMonotonic
  <2> QED BY <2>1, <2>2
<1>7. \E said \in [Nat -> Detections] :
         SaidBy(hs, said) /\ said[Len(hs)] = Said(code, framing, n)
  <2> HIDE DEF special, H
  <2>0. Unknown \in Detections
    BY DEF Unknown, Size, Detections
  <2>1. CASE special = <<>> /\ Said(code, framing, n) = Unknown
    <3> DEFINE said == [i \in Nat |-> Unknown]
    <3>1. \A i \in 1 .. Len(hs) : hs[i] = Token("other", 0)
      BY <1>4, <2>1
    <3>2. said \in [Nat -> Detections] /\ \A i \in Nat : said[i] = Unknown
      BY <2>0
    <3> HIDE DEF said
    <3>3. Len(hs) \in Nat /\ \A i \in 1 .. Len(hs) : i \in Nat /\ i - 1 \in Nat
      BY <1>6, LenProperties
    <3> QED BY <1>5, <2>1, <3>1, <3>2, <3>3 DEF SaidBy
  <2>2. CASE \E x \in H : /\ special = <<x>> /\ Said(code, framing, n) = SizeOf(x)
                          /\ SizeOf(x) # Unknown /\ SizeOf(x) \in Detections
    <3>1. PICK x \in H : /\ special = <<x>> /\ Said(code, framing, n) = SizeOf(x)
                         /\ SizeOf(x) # Unknown /\ SizeOf(x) \in Detections
      BY <2>2
    <3> DEFINE said == [i \in Nat |-> IF i = 0 THEN Unknown ELSE SizeOf(x)]
    <3>2. /\ said \in [Nat -> Detections] /\ said[0] = Unknown
          /\ \A i \in Nat \ {0} : said[i] = SizeOf(x)
      BY <2>0, <3>1
    <3> HIDE DEF said
    <3>3. Len(special) = 1 /\ special[1] = x
      BY <3>1
    <3>4. /\ Len(hs) = 1 + others /\ Len(hs) \in Nat \ {0} /\ hs[1] = x
          /\ \A i \in 1 .. Len(hs) : i # 1 => hs[i] = Token("other", 0)
      <4>1. Len(hs) = 1 + others /\ Len(hs) \in Nat \ {0}
        BY <1>4, <3>3
      <4>2. hs[1] = x
        BY <1>4, <3>3
      <4>3. ASSUME NEW i \in 1 .. Len(hs), i # 1 PROVE hs[i] = Token("other", 0)
        <5>1. ~(i <= Len(special))
          BY <3>3, <4>1, <4>3
        <5> QED BY <1>4, <5>1
      <4> QED BY <4>1, <4>2, <4>3
    <3>5. \A i \in 1 .. Len(hs) : i \in Nat \ {0} /\ (i # 1 => i - 1 \in Nat \ {0})
      BY <3>4
    <3> QED BY <1>5, <3>1, <3>2, <3>4, <3>5 DEF SaidBy
  <2> QED BY <1>3, <2>1, <2>2
<1> QED BY <1>6, <1>7

\* The server adds the k-th response, x, to method m, with a body of n units or none.
Adds(k, m, code, framing, n, data, bad, x) ==
    /\ k = Len(sent) + 1 /\ m = asked[k]
    /\ code \in {101, 200, 204, 304} /\ framing \in Framings /\ n \in Sizes /\ bad \in BOOLEAN
    /\ code \in {101, 204} => framing = "none"
    /\ framing = "none" => NeverHasBody(m, code)
    /\ framing \in {"none", "chunked"} => n = 0
    /\ data = (IF NeverHasBody(m, code) THEN <<>> ELSE Data(k, n))
    /\ x = [status |-> code, framing |-> framing, body |-> data, bad |-> bad]
    /\ sent' = Append(sent, x) /\ asked' = asked

\* What such a response is, and what follows its headers.
LEMMA ResponseSent ==
    ASSUME FramingInv, CanRespond,
           NEW k, NEW m, NEW code, NEW framing, NEW n, NEW data, NEW bad, NEW x,
           Adds(k, m, code, framing, n, data, bad, x)
    PROVE  /\ k \in Nat \ {0} /\ k \in 1 .. MaxRequests /\ ~cut /\ code # 100 /\ n \in Nat
           /\ x \in Responses
           /\ Len(sent') = k /\ k \in DOMAIN sent' /\ sent'[k] = x
           /\ FollowsIn(k)' = Follows(m, x) /\ (Bad(k)' <=> bad)
           /\ Follows(m, x) \in {"nothing", "length", "chunked", "close"}
           /\ Follows(m, x) = "nothing" <=> NeverHasBody(m, code)
           /\ code = 101 => framing = "none" /\ Follows(m, x) = "nothing"
           /\ Follows(m, x) # "nothing" => Follows(m, x) = framing
           /\ data = Data(k, Len(data)) /\ data \in Seq(Tokens)
           /\ Len(data) = IF Follows(m, x) = "nothing" THEN 0 ELSE n
           /\ Follows(m, x) = "nothing" => data = <<>>
           /\ Follows(m, x) = "chunked" => n = 0
<1>0. /\ k = Len(sent) + 1 /\ m = asked[k]
      /\ code \in {101, 200, 204, 304} /\ framing \in Framings /\ n \in Sizes /\ bad \in BOOLEAN
      /\ code \in {101, 204} => framing = "none"
      /\ framing = "none" => NeverHasBody(m, code)
      /\ framing \in {"none", "chunked"} => n = 0
      /\ data = (IF NeverHasBody(m, code) THEN <<>> ELSE Data(k, n))
      /\ x = [status |-> code, framing |-> framing, body |-> data, bad |-> bad]
      /\ sent' = Append(sent, x) /\ asked' = asked
  BY DEF Adds
<1>1. /\ sent \in Seq(Responses) /\ asked \in Seq(Methods) /\ Len(asked) <= MaxRequests
      /\ Len(sent) \in Nat /\ Len(asked) \in Nat /\ Len(sent) < Len(asked) /\ ~closed /\ (cut => closed)
  BY <1>0, LenProperties DEF FramingInv, TypeOK, SentInv, CanRespond, Responses
<1>2. k \in Nat \ {0} /\ k \in 1 .. MaxRequests /\ ~cut /\ code # 100 /\ n \in Nat
  BY <1>0, <1>1, FramingAssumption DEF Sizes
<1>3. /\ data = Data(k, Len(data)) /\ data \in Seq(Tokens) /\ data \in Seq(Units)
      /\ Len(data) = IF NeverHasBody(m, code) THEN 0 ELSE n
  <2>1. Data(k, 0) = <<>> /\ Len(Data(k, 0)) = 0
    BY <1>0, DataType
  <2> QED BY <1>0, <1>2, <2>1, DataType
<1>4. x \in Responses /\ x.status = code /\ x.framing = framing /\ x.bad = bad /\ x.body = data
  BY <1>0, <1>3 DEF Responses, Codes
<1>5. Len(sent') = k /\ k \in DOMAIN sent' /\ sent'[k] = x
  BY <1>0, <1>1, <1>4, AppendProperties
<1>6. /\ Follows(m, x) = IF NeverHasBody(m, code) THEN "nothing" ELSE framing
      /\ framing \in {"none", "length", "chunked", "close"}
  BY <1>0, <1>4 DEF Follows, Framings
<1>7. code = 101 => NeverHasBody(m, code)
  BY <1>0 DEF NeverHasBody, Tunnel
<1>8. FollowsIn(k)' = Follows(m, x) /\ (Bad(k)' <=> bad)
  BY <1>0, <1>4, <1>5 DEF FollowsIn, Bad, Follows, NeverHasBody, Tunnel
<1> QED BY <1>0, <1>2, <1>3, <1>4, <1>5, <1>6, <1>7, <1>8

\* The positions within a response that the server adds.
Added(k, code, framing, n, interims, total, follows, data) ==
    /\ k \in Nat \ {0} /\ code \in {101, 200, 204, 304} /\ framing \in Framings /\ n \in Nat
    /\ interims \in Nat /\ total \in Nat
    /\ k \in DOMAIN sent' /\ sent'[k].status = code /\ sent'[k].body = data
    /\ FollowsIn(k)' = follows /\ follows \in {"nothing", "length", "chunked", "close"}
    /\ Bad(k)' <=> OverLimit(data, interims, total)
    /\ code = 101 => follows = "nothing"
    /\ follows # "nothing" => follows = framing
    /\ Len(data) = IF follows = "nothing" THEN 0 ELSE n
    /\ follows = "nothing" => data = <<>>

LEMMA ResponsePositions ==
    ASSUME NEW k, NEW code, NEW framing, NEW n, NEW interims, NEW total, NEW follows, NEW data,
           Added(k, code, framing, n, interims, total, follows, data),
           NEW said \in [Nat -> Detections], said[total] = Said(code, framing, n)
    PROVE  /\ \A j \in 0 .. interims : LineAt("line", k, j) \in Positions'
           /\ \A j \in Nat : LineAt("interimHeader", k, j) \in Positions'
                             /\ LineAt("interimEnd", k, j) \in Positions'
           /\ LineAt("line", k + 1, 0) \in Positions'
           /\ \A i \in 0 .. total :
                 HeadAt(k, interims, code, i, total, said[i], follows, n) \in Positions'
           /\ follows = "length" =>
                 \A j \in 0 .. n : BodyAt("body", k, interims, total, j, n - j) \in Positions'
           /\ follows = "close" =>
                 \A j \in 0 .. n : BodyAt("rest", k, interims, total, j, n - j) \in Positions'
           /\ follows = "chunked" => ChunkAt("size", k, 0, 0) \in Positions'
<1>0. /\ k \in Nat \ {0} /\ code \in {101, 200, 204, 304} /\ framing \in Framings /\ n \in Nat
      /\ interims \in Nat /\ total \in Nat
      /\ k \in DOMAIN sent' /\ sent'[k].status = code /\ sent'[k].body = data
      /\ FollowsIn(k)' = follows /\ follows \in {"nothing", "length", "chunked", "close"}
      /\ Bad(k)' <=> OverLimit(data, interims, total)
      /\ code = 101 => follows = "nothing"
      /\ follows # "nothing" => follows = framing
      /\ Len(data) = IF follows = "nothing" THEN 0 ELSE n
      /\ follows = "nothing" => data = <<>>
  BY DEF Added
<1>1. ASSUME NEW at \in {"line", "interimHeader", "interimEnd"}, NEW i \in Nat \ {0}, NEW j \in Nat,
             at = "line" /\ j > MaxInterim => Bad(i)'
      PROVE  LineAt(at, i, j) \in Positions'
  <2>1. LineAt(at, i, j) \in Position
    BY <1>0, LineType
  <2>2. /\ LineAt(at, i, j).at = at /\ LineAt(at, i, j).k = i
        /\ LineAt(at, i, j).interims = j
    BY <1>0 DEF LineAt
  <2>3. Linked(LineAt(at, i, j))'
    BY <1>0, <1>1, <2>2 DEF Linked, LineLinked, OverLinked, HeadLinked, BodyLinked, ChunkLinked
  <2> QED BY <1>0, <2>1, <2>3 DEF Positions
<1>2. interims > MaxInterim => Bad(k)'
  BY <1>0 DEF OverLimit
<1>3. \A j \in 0 .. interims : LineAt("line", k, j) \in Positions'
  <2> SUFFICES ASSUME NEW j \in 0 .. interims PROVE LineAt("line", k, j) \in Positions'
    BY <1>0
  <2>1. j > MaxInterim => Bad(k)'
    BY <1>0, <1>2, FramingAssumption
  <2> QED BY <1>0, <1>1, <2>1
<1>4. ~(0 > MaxInterim)
  BY <1>0, FramingAssumption
<1>5. ASSUME NEW i \in 0 .. total
      PROVE  HeadAt(k, interims, code, i, total, said[i], follows, n) \in Positions'
  <2> DEFINE p == HeadAt(k, interims, code, i, total, said[i], follows, n)
  <2>1. /\ p.at = "head" /\ p.k = k /\ p.interims = interims /\ p.code = code /\ p.headers = i
        /\ p.total = total /\ p.detected = said[i] /\ p.follows = follows /\ p.left = n
    BY <1>0 DEF HeadAt
  <2>2. p \in Position
    <3>1. code \in Codes /\ i \in Nat /\ said[i] \in Detections
      BY <1>0 DEF Codes
    <3>2. follows \in Framings \cup {"nothing"}
      BY <1>0 DEF Framings
    <3> QED BY <1>0, <3>1, <3>2 DEF HeadAt, Position
  <2> HIDE DEF p
  <2>3. i = total => AsAnnounced(p)
    <3>1. CASE i = total
      <4>1. p.detected = Said(code, framing, n)
        BY <1>0, <2>1, <3>1
      <4> QED BY <1>0, <2>1, <4>1 DEF AsAnnounced, Said, Known, Size, Unknown
    <3> QED BY <1>0, <3>1
  <2>4. /\ ~Within(p) => Bad(k)'
        /\ Bad(k)' => ~Within(p) \/ Len(data) > MaxBody
        /\ Len(data) > MaxBody => Bad(k)'
    BY <1>0, <2>1, FramingAssumption DEF OverLimit, Within
  <2>5. ~(0 > MaxBody)
    BY <1>0, FramingAssumption
  <2>6. HeadLinked(p)'
    BY <1>0, <2>1, <2>3, <2>4, <2>5 DEF HeadLinked
  <2>7. Linked(p)'
    BY <1>0, <2>1, <2>6 DEF Linked, LineLinked, OverLinked, BodyLinked, ChunkLinked
  <2> QED BY <1>0, <2>2, <2>7 DEF Positions, p
<1>6. ASSUME NEW at \in {"body", "rest"}, follows = (IF at = "body" THEN "length" ELSE "close"),
             NEW j \in 0 .. n
      PROVE  BodyAt(at, k, interims, total, j, n - j) \in Positions'
  <2> DEFINE p == BodyAt(at, k, interims, total, j, n - j)
  <2>1. /\ p.at = at /\ p.k = k /\ p.interims = interims /\ p.total = total /\ p.got = j
        /\ p.left = n - j
    BY <1>0 DEF BodyAt
  <2>2. p \in Position
    <3>1. j \in Nat /\ n - j \in Nat
      BY <1>0
    <3>2. \A got, left \in Nat : BodyAt(at, k, interims, total, got, left) \in Position
      BY <1>0, BodyType
    <3> QED BY <1>0, <3>1, <3>2
  <2> HIDE DEF p
  <2>3. /\ Bad(k)' => ~Within(p) \/ n > MaxBody
        /\ n > MaxBody => Bad(k)'
    BY <1>0, <1>6, <2>1, FramingAssumption DEF OverLimit, Within
  <2>4. j + (n - j) = n /\ Len(data) = n
    BY <1>0, <1>6
  <2>5. BodyLinked(p)'
    BY <1>0, <1>6, <2>1, <2>3, <2>4 DEF BodyLinked
  <2>6. Linked(p)'
    BY <1>0, <2>1, <2>5 DEF Linked, LineLinked, OverLinked, HeadLinked, ChunkLinked
  <2> QED BY <1>0, <2>2, <2>6 DEF Positions, p
<1>7. follows = "chunked" => ChunkAt("size", k, 0, 0) \in Positions'
  <2> SUFFICES ASSUME follows = "chunked" PROVE ChunkAt("size", k, 0, 0) \in Positions'
    BY <1>0
  <2> DEFINE p == ChunkAt("size", k, 0, 0)
  <2>1. p \in Position /\ p.at = "size" /\ p.k = k /\ p.got = 0
    BY <1>0, ChunkType DEF ChunkAt
  <2> HIDE DEF p
  <2>2. 0 <= Len(sent'[k].body)
    BY <1>0, FramingAssumption
  <2>3. ChunkLinked(p)'
    BY <1>0, <2>1, <2>2 DEF ChunkLinked
  <2>4. Linked(p)'
    BY <1>0, <2>1, <2>3 DEF Linked, LineLinked, OverLinked, HeadLinked, BodyLinked
  <2> QED BY <1>0, <2>1, <2>4 DEF Positions, p
<1>8. LineAt("line", k + 1, 0) \in Positions'
  BY <1>0, <1>1, <1>4
<1> QED BY <1>0, <1>1, <1>3, <1>5, <1>6, <1>7, <1>8

\* Concatenation of sequences of tokens.
LEMMA TokensConcat ==
    ASSUME NEW r \in Seq(Tokens)
    PROVE  \A s, u \in Seq(Tokens) : /\ s \o u \in Seq(Tokens)
                                     /\ (s # <<>> \/ u # <<>>) => s \o u # <<>>
                                     /\ (r \o s) \o u = r \o (s \o u)
<1> SUFFICES ASSUME NEW s \in Seq(Tokens), NEW u \in Seq(Tokens)
             PROVE  /\ s \o u \in Seq(Tokens)
                    /\ (s # <<>> \/ u # <<>>) => s \o u # <<>>
                    /\ (r \o s) \o u = r \o (s \o u)
  OBVIOUS
<1>1. s \o u \in Seq(Tokens)
  BY ConcatProperties
<1>2. (s # <<>> \/ u # <<>>) => s \o u # <<>>
  BY ConcatEqualIffEmpty
<1>3. (r \o s) \o u = r \o (s \o u)
  BY ConcatAssociative
<1> QED BY <1>1, <1>2, <1>3

\* A response is a path of the server, from where the last one ended.
LEMMA ResponseLeads ==
    ASSUME ~AdvertisesUpgrade, FramingInv, CanRespond,
           NEW code \in {101, 200, 204, 304}, NEW framing \in Framings, NEW n \in Sizes,
           NEW interims \in Nat, NEW others \in Nat, Respond(code, framing, n, interims, others)
    PROVE  /\ \E lump : Continues(lump)
           /\ \E x \in Responses : /\ sent' = Append(sent, x) /\ x.status # 100
                                   /\ x.body = Data(Len(sent'), Len(x.body))
           /\ (chunking => sent # <<>> /\ FollowsIn(Len(sent)) = "chunked")'
<1>0. PICK k, m, data : /\ k = Len(sent) + 1 /\ m = asked[k]
                        /\ data = IF NeverHasBody(m, code) THEN <<>> ELSE Data(k, n)
  OBVIOUS
<1> DEFINE P == Positions'
<1>1. PICK upgrade \in UpgradeHeaders(code) :
          LET headers == FramingHeaders(framing, n) \o upgrade \o Others(others)
          IN  /\ input' = input \o Interims(interims) \o <<Token("status", code)>> \o headers
                           \o <<Token("end", 0)>> \o data
              /\ sent' = Append(sent, [status |-> code, framing |-> framing, body |-> data,
                                       bad |-> OverLimit(data, interims, Len(headers))])
  <2> DEFINE units == IF NeverHasBody(asked[Len(sent) + 1], code) THEN <<>> ELSE Data(Len(sent) + 1, n)
  <2>1. \E upgrade \in UpgradeHeaders(code) :
          LET headers == FramingHeaders(framing, n) \o upgrade \o Others(others)
          IN  /\ input' = input \o Interims(interims) \o <<Token("status", code)>> \o headers
                           \o <<Token("end", 0)>> \o units
              /\ sent' = Append(sent, [status |-> code, framing |-> framing, body |-> units,
                                       bad |-> OverLimit(units, interims, Len(headers))])
    BY DEF Respond
  <2>2. units = data
    BY <1>0
  <2> HIDE DEF units
  <2> QED BY <2>1, <2>2
<1> DEFINE hs == FramingHeaders(framing, n) \o upgrade \o Others(others)
           total == Len(hs)
           bad == OverLimit(data, interims, total)
           x == [status |-> code, framing |-> framing, body |-> data, bad |-> bad]
           follows == Follows(m, x)
           first == HeadAt(k, interims, code, 0, total, Unknown, follows, n)
           a == Interims(interims)
           b == a \o <<Token("status", code)>>
           c == b \o hs
           d == c \o <<Token("end", 0)>>
           lump == d \o data
<1>2. /\ k = Len(sent) + 1 /\ m = asked[k]
      /\ data = (IF NeverHasBody(m, code) THEN <<>> ELSE Data(k, n))
      /\ hs = FramingHeaders(framing, n) \o upgrade \o Others(others)
      /\ x = [status |-> code, framing |-> framing, body |-> data, bad |-> bad]
      /\ x.status = code /\ x.body = data /\ bad \in BOOLEAN
      /\ bad <=> OverLimit(data, interims, total)
      /\ sent' = Append(sent, x) /\ asked' = asked /\ cut' = cut
      /\ input' = input \o a \o <<Token("status", code)>> \o hs \o <<Token("end", 0)>> \o data
  BY <1>0, <1>1 DEF Respond, OverLimit
<1>3. /\ Allowed(m, code) /\ (code \in {101, 204} => framing = "none")
      /\ framing = "none" => NeverHasBody(m, code)
      /\ framing \in {"none", "chunked"} => n = 0
      /\ framing = "close" => ~NeverHasBody(m, code)
      /\ chunking' <=> (framing = "chunked" /\ ~NeverHasBody(m, code))
      /\ closed' <=> (framing = "close")
  BY <1>0 DEF Respond
<1> HIDE DEF P, hs, total, bad, x, follows, first, a, b, c, d, lump
<1>4. /\ k \in Nat \ {0} /\ k \in 1 .. MaxRequests /\ ~cut /\ code # 100 /\ n \in Nat
      /\ x \in Responses
      /\ Len(sent') = k /\ k \in DOMAIN sent' /\ sent'[k] = x
      /\ FollowsIn(k)' = follows /\ (Bad(k)' <=> bad)
      /\ follows \in {"nothing", "length", "chunked", "close"}
      /\ follows = "nothing" <=> NeverHasBody(m, code)
      /\ code = 101 => framing = "none" /\ follows = "nothing"
      /\ follows # "nothing" => follows = framing
      /\ data = Data(k, Len(data)) /\ data \in Seq(Tokens)
      /\ Len(data) = IF follows = "nothing" THEN 0 ELSE n
      /\ follows = "nothing" => data = <<>>
      /\ follows = "chunked" => n = 0
  <2>1. Adds(k, m, code, framing, n, data, bad, x)
    BY <1>2, <1>3 DEF Adds
  <2> QED BY <2>1, ResponseSent DEF follows
<1>5. /\ hs \in Seq(Tokens) /\ total = Len(hs) /\ total \in Nat
      /\ \A i \in 1 .. Len(hs) : hs[i].t \in HeaderKinds
      /\ \E said \in [Nat -> Detections] :
            SaidBy(hs, said) /\ said[Len(hs)] = Said(code, framing, n)
  <2>1. code \in Codes /\ (code = 101 => framing = "none")
    BY <1>4 DEF Codes
  <2>2. HeadersOf(hs, code, framing, n)
    <3>1. \E o \in Nat, u \in UpgradeHeaders(code) :
             hs = FramingHeaders(framing, n) \o u \o Others(o)
      BY <1>2
    <3> QED BY <1>4, <2>1, <3>1 DEF HeadersOf
  <2>3. /\ hs \in Seq(Tokens)
        /\ \A i \in 1 .. Len(hs) : hs[i].t \in HeaderKinds
        /\ \E said \in [Nat -> Detections] :
              SaidBy(hs, said) /\ said[Len(hs)] = Said(code, framing, n)
    BY <2>2, HeadersSay
  <2> QED BY <2>3, LenProperties DEF total
<1>6. PICK said \in [Nat -> Detections] :
            SaidBy(hs, said) /\ said[total] = Said(code, framing, n)
  BY <1>5
<1>7. /\ \A j \in 0 .. interims : LineAt("line", k, j) \in P
      /\ \A j \in Nat : LineAt("interimHeader", k, j) \in P /\ LineAt("interimEnd", k, j) \in P
      /\ LineAt("line", k + 1, 0) \in P
      /\ \A i \in 0 .. total : HeadAt(k, interims, code, i, total, said[i], follows, n) \in P
      /\ follows = "length" => \A j \in 0 .. n : BodyAt("body", k, interims, total, j, n - j) \in P
      /\ follows = "close" => \A j \in 0 .. n : BodyAt("rest", k, interims, total, j, n - j) \in P
      /\ follows = "chunked" => ChunkAt("size", k, 0, 0) \in P
  <2>1. sent'[k].status = code /\ sent'[k].body = data
    BY <1>2, <1>4
  <2>2. Bad(k)' <=> OverLimit(data, interims, total)
    BY <1>2, <1>4
  <2>3. /\ k \in Nat \ {0} /\ k \in DOMAIN sent' /\ n \in Nat /\ total \in Nat
        /\ FollowsIn(k)' = follows /\ follows \in {"nothing", "length", "chunked", "close"}
        /\ code = 101 => follows = "nothing"
        /\ follows # "nothing" => follows = framing
        /\ Len(data) = IF follows = "nothing" THEN 0 ELSE n
        /\ follows = "nothing" => data = <<>>
    BY <1>4, <1>5
  <2>4. said[total] = Said(code, framing, n)
    BY <1>6
  <2>5. Added(k, code, framing, n, interims, total, follows, data)
    BY <2>1, <2>2, <2>3 DEF Added
  <2> QED BY <2>4, <2>5, ResponsePositions DEF P
<1> DEFINE last == HeadAt(k, interims, code, total, total, said[total], follows, n)
<1>8. first \in P /\ last \in P
  <2>1. 0 \in 0 .. total /\ total \in 0 .. total
    BY <1>5
  <2> QED BY <1>6, <1>7, <2>1 DEF first, SaidBy
<1> HIDE DEF last
\* The interim responses and the head.
<1>9. a \in Seq(Tokens) /\ Leads(P, LineAt("line", k, 0), a, LineAt("line", k, interims))
  <2>1. /\ \A j \in 0 .. interims : LineAt("line", k, j) \in P
        /\ \A j \in 0 .. interims - 1 : LineAt("interimHeader", k, j) \in P
                                        /\ LineAt("interimEnd", k, j) \in P
    BY <1>7
  <2> QED BY <2>1, LeadsThroughInterims DEF a
<1>10. Leads(P, LineAt("line", k, interims), <<Token("status", code)>>, first)
  <2>1. Step(LineAt("line", k, interims), Token("status", code), first)
    BY <1>4 DEF Step, LineStep, LineAt, HeadAt, SameRow, first
  <2>2. LineAt("line", k, interims) \in P
    BY <1>7
  <2> QED BY <1>8, <2>1, <2>2, LeadsOneStep
<1>11. Leads(P, first, hs, last)
  <2>1. \A i \in 0 .. Len(hs) : HeadAt(k, interims, code, i, Len(hs), said[i], follows, n) \in P
    BY <1>5, <1>7
  <2>2. Leads(P, HeadAt(k, interims, code, 0, Len(hs), Unknown, follows, n), hs,
              HeadAt(k, interims, code, Len(hs), Len(hs), said[Len(hs)], follows, n))
    <3>1. HeadPath(P, k, interims, code, follows, n, hs, said)
      BY <1>5, <1>6, <2>1 DEF HeadPath
    <3> QED BY <3>1, LeadsThroughHeaders
  <2> QED BY <1>5, <2>2 DEF first, last
\* What follows the head.
<1>12. \E r \in P, e \in P : /\ Step(last, Token("end", 0), e) /\ Leads(P, e, data, r)
                             /\ ServerAt(r)'
  <2>0. /\ last.at = "head" /\ last.k = k /\ last.headers = total /\ last.total = total
        /\ last.follows = follows /\ last.left = n /\ last.interims = interims
    BY DEF HeadAt, last
  <2>9. /\ follows \in {"nothing", "length", "chunked", "close"}
        /\ follows = "chunked" <=> chunking'
        /\ follows = "close" <=> closed'
        /\ follows = "nothing" => data = <<>>
        /\ follows = "chunked" => n = 0
        /\ data = Data(k, Len(data))
        /\ Len(data) = IF follows = "nothing" THEN 0 ELSE n
    BY <1>3, <1>4
  <2>1. CASE follows = "nothing" \/ (follows = "length" /\ n = 0)
    <3> DEFINE r == LineAt("line", k + 1, 0)
    <3>1. r \in P /\ Begins(r, k + 1)
      BY <1>7 DEF LineAt, Begins
    <3>2. data = <<>>
      <4>1. Data(k, 0) = <<>>
        BY DataType
      <4> QED BY <2>1, <2>9, <4>1
    <3> HIDE DEF r
    <3>3. Step(last, Token("end", 0), r)
      BY <2>0, <2>1, <3>1 DEF Step, EndStep
    <3>4. Leads(P, r, data, r)
      BY <3>1, <3>2, LeadsNowhere
    <3>5. ServerAt(r)'
      BY <1>4, <2>1, <2>9, <3>1 DEF ServerAt
    <3> QED BY <3>1, <3>3, <3>4, <3>5
  <2>2. CASE follows = "length" /\ n # 0
    <3> DEFINE r == LineAt("line", k + 1, 0)
               e == BodyAt("body", k, interims, total, 0, n)
    <3>1. r \in P /\ Begins(r, k + 1)
      BY <1>7 DEF LineAt, Begins
    <3>2. e \in P
      <4>1. 0 \in 0 .. n /\ n - 0 = n
        BY <1>4
      <4> QED BY <1>7, <2>2, <4>1
    <3>3. Step(last, Token("end", 0), e)
      <4>1. e.at = "body" /\ e.k = k /\ e.interims = interims /\ e.total = total /\ e.got = 0 /\ e.left = n
        BY DEF BodyAt
      <4> HIDE DEF e
      <4> QED BY <1>4, <2>0, <2>2, <4>1 DEF Step, EndStep, SameResponse, SameRow
    <3>4. Leads(P, e, data, r)
      <4>1. data = Data(k, n) /\ n \in Nat \ {0}
        BY <1>4, <2>2, <2>9
      <4>2. \A j \in 0 .. n - 1 : BodyAt("body", k, interims, total, j, n - j) \in P
        <5>1. \A j \in 0 .. n - 1 : j \in 0 .. n
          BY <1>4
        <5> QED BY <1>7, <2>2, <5>1
      <4> HIDE DEF r
      <4> QED BY <1>4, <1>5, <3>1, <4>1, <4>2, LeadsThroughBody
    <3>5. ServerAt(r)'
      BY <1>4, <2>2, <2>9, <3>1 DEF ServerAt
    <3> HIDE DEF r, e
    <3> QED BY <3>1, <3>2, <3>3, <3>4, <3>5
  <2>3. CASE follows = "close"
    <3> DEFINE r == BodyAt("rest", k, interims, total, n, 0)
               e == BodyAt("rest", k, interims, total, 0, n)
    <3>1. r \in P /\ e \in P
      <4>1. 0 \in 0 .. n /\ n \in 0 .. n /\ n - 0 = n /\ n - n = 0
        BY <1>4
      <4> QED BY <1>7, <2>3, <4>1
    <3>2. r.at = "rest" /\ r.left = 0
      BY DEF BodyAt
    <3>3. Step(last, Token("end", 0), e)
      <4>1. e.at = "rest" /\ e.k = k /\ e.interims = interims /\ e.total = total /\ e.got = 0 /\ e.left = n
        BY DEF BodyAt
      <4> HIDE DEF e
      <4> QED BY <1>4, <2>0, <2>3, <4>1 DEF Step, EndStep, SameResponse, SameRow
    <3>4. Leads(P, e, data, r)
      <4>1. data = Data(k, n)
        BY <1>4, <2>3, <2>9
      <4>2. \A j \in 0 .. n : BodyAt("rest", k, interims, total, j, n - j) \in P
        BY <1>7, <2>3
      <4> QED BY <1>4, <1>5, <4>1, <4>2, LeadsThroughRest
    <3>5. ServerAt(r)'
      BY <2>3, <2>9, <3>2 DEF ServerAt, GoesOn
    <3> HIDE DEF r, e
    <3> QED BY <3>1, <3>3, <3>4, <3>5
  <2>4. CASE follows = "chunked"
    <3> DEFINE r == ChunkAt("size", k, 0, 0)
    <3>1. r \in P /\ r.at = "size" /\ r.k = k /\ r.got = 0
      BY <1>7, <2>4 DEF ChunkAt
    <3> HIDE DEF r
    <3>2. data = <<>> /\ Len(data) = 0
      <4>1. Data(k, 0) = <<>>
        BY DataType
      <4> QED BY <2>4, <2>9, <4>1
    <3>3. Step(last, Token("end", 0), r)
      BY <2>0, <2>4, <3>1 DEF Step, EndStep
    <3>4. Leads(P, r, data, r)
      BY <3>1, <3>2, LeadsNowhere
    <3>5. ServerAt(r)'
      BY <1>2, <1>4, <2>4, <2>9, <3>1, <3>2 DEF ServerAt, GoesOn
    <3> QED BY <3>1, <3>3, <3>4, <3>5
  <2> QED BY <2>1, <2>2, <2>3, <2>4, <2>9
<1>13. PICK r \in P, e \in P : Step(last, Token("end", 0), e) /\ Leads(P, e, data, r) /\ ServerAt(r)'
  BY <1>12
<1>14. Leads(P, last, <<Token("end", 0)>>, e)
  <2> QED BY <1>8, <1>13, LeadsOneStep
<1>15. /\ <<Token("status", code)>> \in Seq(Tokens) /\ <<Token("end", 0)>> \in Seq(Tokens)
       /\ <<Token("status", code)>> # <<>>
  <2>1. Token("status", code) \in Tokens /\ Token("end", 0) \in Tokens
    BY DEF Token, Tokens, TokenKinds
  <2> QED BY <2>1
<1>16. /\ b \in Seq(Tokens) /\ c \in Seq(Tokens) /\ d \in Seq(Tokens)
       /\ lump \in Seq(Tokens) /\ lump # <<>> /\ input' = input \o lump
  <2>0. \A s, u \in Seq(Tokens) : /\ s \o u \in Seq(Tokens)
                                  /\ (s # <<>> \/ u # <<>>) => s \o u # <<>>
                                  /\ (input \o s) \o u = input \o (s \o u)
    <3>1. input \in Seq(Tokens)
      BY DEF FramingInv, TypeOK, Tokens
    <3> QED BY <3>1, TokensConcat
  <2>1. /\ b \in Seq(Tokens) /\ b # <<>>
        /\ input \o a \o <<Token("status", code)>> = input \o b
    BY <1>9, <1>15, <2>0 DEF b
  <2>2. c \in Seq(Tokens) /\ c # <<>> /\ (input \o b) \o hs = input \o c
    BY <1>5, <2>0, <2>1 DEF c
  <2>3. d \in Seq(Tokens) /\ d # <<>> /\ (input \o c) \o <<Token("end", 0)>> = input \o d
    BY <1>15, <2>0, <2>2 DEF d
  <2>4. lump \in Seq(Tokens) /\ lump # <<>> /\ (input \o d) \o data = input \o lump
    <3>1. data \in Seq(Tokens)
      BY <1>4
    <3> QED BY <2>0, <2>3, <3>1 DEF lump
  <2> QED BY <1>2, <2>1, <2>2, <2>3, <2>4
<1>17. Leads(P, LineAt("line", k, 0), lump, r)
  <2>1. Leads(P, LineAt("line", k, 0), b, first)
    BY <1>9, <1>10, <1>15, LeadsConcat DEF b
  <2>2. Leads(P, LineAt("line", k, 0), c, last)
    BY <1>5, <1>11, <1>16, <2>1, LeadsConcat DEF c
  <2>3. Leads(P, LineAt("line", k, 0), d, e)
    BY <1>14, <1>15, <1>16, <2>2, LeadsConcat DEF d
  <2> QED BY <1>4, <1>13, <1>16, <2>3, LeadsConcat DEF lump
<1>18. ASSUME NEW q \in Positions, ServerAt(q) PROVE Leads(P, q, lump, r)
  <2>1. Begins(q, k)
    BY <1>2, <1>18 DEF ServerAt, GoesOn, CanRespond
  <2>2. q \in Position
    BY DEF Positions
  <2>3. q \in P
    <3>1. ~chunking
      BY DEF CanRespond
    <3>2. Linked(q)'
      BY <1>2, <1>4, <2>2, <3>1, ResponseAdded DEF Positions
    <3> QED BY <2>2, <3>2 DEF Positions, P
  <2> QED BY <1>16, <1>17, <2>1, <2>3, BeginsAlike, LeadsFrom
<1>19. (chunking => sent # <<>> /\ FollowsIn(Len(sent)) = "chunked")'
  <2>1. chunking' => FollowsIn(k)' = "chunked"
    BY <1>3, <1>4
  <2>2. k = Len(sent') /\ sent' # <<>>
    BY <1>4
  <2> QED BY <2>1, <2>2 DEF FollowsIn
<1>20. x \in Responses /\ x.status # 100 /\ x.body = Data(Len(sent'), Len(x.body))
  BY <1>2, <1>4
<1>21. sent' = Append(sent, x)
  BY <1>2
<1>22. Continues(lump)
  <2>1. \A q \in Positions : ServerAt(q) =>
           \E z \in Positions' : Leads(Positions', q, lump, z) /\ ServerAt(z)'
    BY <1>13, <1>18 DEF P
  <2> QED BY <1>16, <2>1 DEF Continues
<1>23. \E y \in Responses : /\ sent' = Append(sent, y) /\ y.status # 100
                            /\ y.body = Data(Len(sent'), Len(y.body))
  BY <1>20, <1>21
<1> QED BY <1>19, <1>22, <1>23
-----------------------------------------------------------------------------
(* The invariant is preserved by the server *)

LEMMA AppendedKeeps ==
    ASSUME FramingInv, CanRespond, NEW x \in Responses, sent' = Append(sent, x), x.status # 100,
           x.body = Data(Len(sent'), Len(x.body)),
           (chunking => sent # <<>> /\ FollowsIn(Len(sent)) = "chunked")',
           chunking' \in BOOLEAN, closed' \in BOOLEAN,
           NEW lump, Continues(lump),
           UNCHANGED <<asked, cut, phase, headVars, remains, body, delivered>>
    PROVE  FramingInv'
<1>1. /\ ~chunking /\ ~cut /\ asked' = asked /\ cut' = cut /\ phase' = phase
      /\ delivered' = delivered
  BY DEF FramingInv, SentInv, CanRespond
<1>2. /\ \A p \in Position : Linked(p) => Linked(p)'
      /\ \A i, d : Fits(i, d) => Fits(i, d)'
      /\ \A k \in DOMAIN sent : sent'[k] = sent[k] /\ k \in DOMAIN sent'
      /\ (\E i \in DOMAIN sent : Bad(i)) => \E i \in DOMAIN sent' : Bad(i)'
  BY <1>1, ResponseAdded
<1>3. /\ sent \in Seq(Responses) /\ sent' \in Seq(Responses)
      /\ Len(sent) \in Nat /\ Len(asked) \in Nat /\ Len(sent) < Len(asked)
      /\ Len(sent') = Len(sent) + 1 /\ sent'[Len(sent')] = x
      /\ DOMAIN sent = 1 .. Len(sent) /\ DOMAIN sent' = 1 .. Len(sent')
  BY AppendProperties, LenProperties DEF FramingInv, TypeOK, CanRespond, Responses
<1>4. TypeOK'
  <2>1. input \in Seq(Tokens) /\ lump \in Seq(Tokens) /\ input' = input \o lump
    BY DEF FramingInv, TypeOK, Tokens, Continues
  <2>2. input' \in Seq([t : TokenKinds, v : Nat])
    BY <2>1, ConcatProperties DEF Tokens
  <2>3. Len(sent') <= Len(asked')
    BY <1>1, <1>3
  <2> QED BY <1>1, <1>3, <2>2, <2>3 DEF FramingInv, TypeOK, headVars, Responses
<1>5. SentInv'
  <2>1. \A i \in DOMAIN sent' : sent'[i].body = Data(i, Len(sent'[i].body)) /\ sent'[i].status # 100
    <3> SUFFICES ASSUME NEW i \in DOMAIN sent'
                 PROVE  sent'[i].body = Data(i, Len(sent'[i].body)) /\ sent'[i].status # 100
      OBVIOUS
    <3>1. CASE i = Len(sent')
      BY <1>3, <3>1
    <3>2. CASE i # Len(sent')
      <4>1. i \in DOMAIN sent
        BY <1>3, <3>2
      <4> QED BY <1>2, <4>1 DEF FramingInv, SentInv
    <3> QED BY <3>1, <3>2
  <2> QED BY <1>1, <2>1 DEF FramingInv, SentInv
<1>6. DeliveredInv'
  BY <1>1, <1>2 DEF FramingInv, DeliveredInv
<1>7. ReaderInv'
  <2>1. Positions \subseteq Positions'
    BY <1>2 DEF Positions
  <2>2. UNCHANGED <<phase, headVars, remains, body, delivered>>
    OBVIOUS
  <2>3. \A k \in DOMAIN sent : sent'[k].status = sent[k].status
    BY <1>2
  <2> QED BY <1>1, <2>1, <2>2, <2>3, ServerSends
<1> QED BY <1>4, <1>5, <1>6, <1>7 DEF FramingInv

LEMMA AnswerKeeps ==
    ASSUME ~AdvertisesUpgrade, FramingInv, Answer
    PROVE  FramingInv'
<1>1. PICK code \in {101, 200, 204, 304}, framing \in Framings, n \in Sizes,
           interims \in 0 .. (MaxInterim + 1), others \in 0 .. MaxHeaders :
              Respond(code, framing, n, interims, others)
  BY DEF Answer
<1>2. CanRespond /\ interims \in Nat /\ others \in Nat
  BY DEF Answer
<1>3. /\ \E lump : Continues(lump)
      /\ \E x \in Responses : /\ sent' = Append(sent, x) /\ x.status # 100
                              /\ x.body = Data(Len(sent'), Len(x.body))
      /\ (chunking => sent # <<>> /\ FollowsIn(Len(sent)) = "chunked")'
  BY <1>1, <1>2, ResponseLeads
<1>4. PICK lump : Continues(lump)
  BY <1>3
<1>5. PICK x \in Responses : /\ sent' = Append(sent, x) /\ x.status # 100
                             /\ x.body = Data(Len(sent'), Len(x.body))
  BY <1>3
<1>6. /\ chunking' \in BOOLEAN /\ closed' \in BOOLEAN
      /\ UNCHANGED <<asked, cut, phase, headVars, remains, body, delivered>>
  BY <1>1 DEF Respond
<1> QED BY <1>2, <1>3, <1>4, <1>5, <1>6, AppendedKeeps

LEMMA MalformedKeeps ==
    ASSUME FramingInv, NEW lines \in 0 .. 1, RespondMalformed(lines)
    PROVE  FramingInv'
<1>1. PICK k, x : /\ k = Len(sent) + 1
                  /\ x = [status |-> 200, framing |-> "none", body |-> <<>>, bad |-> TRUE]
  OBVIOUS
<1>2. /\ CanRespond /\ sent' = Append(sent, x)
      /\ UNCHANGED <<asked, chunking, closed, cut, phase, headVars, remains, body, delivered>>
      /\ input' = input \o SubSeq(Interim, 1, lines) \o <<Token("garbage", 0)>>
  BY <1>1 DEF RespondMalformed
<1>3. /\ sent \in Seq(Responses) /\ Len(sent) \in Nat /\ k \in Nat \ {0}
      /\ ~chunking /\ ~closed /\ ~cut /\ input \in Seq(Tokens)
  BY <1>1, <1>2, LenProperties DEF FramingInv, TypeOK, SentInv, CanRespond, Responses, Tokens
<1>4. /\ x \in Responses /\ x.status # 100 /\ x.bad /\ x.body = <<>> /\ Len(x.body) = 0
  <2>1. <<>> \in Seq(Units) /\ Len(<<>>) = 0
    BY EmptySeq
  <2> QED BY <1>1, <2>1 DEF Responses, Codes, Framings
<1>5. Len(sent') = k /\ k \in DOMAIN sent' /\ sent'[k] = x
  BY <1>1, <1>2, <1>3, <1>4, AppendProperties
<1>6. x.body = Data(Len(sent'), Len(x.body))
  BY <1>4, DataType
<1>7. Bad(k)'
  BY <1>4, <1>5 DEF Bad
<1>8. \A p \in Position : Linked(p) => Linked(p)'
  BY <1>2, <1>3, <1>4, ResponseAdded
<1> DEFINE P == Positions'
           over == LineAt("over", k, 0)
           header == LineAt("interimHeader", k, 0)
<1>9. over \in P /\ header \in P
  <2>1. over \in Position /\ header \in Position /\ over.at = "over" /\ header.at = "interimHeader"
    BY <1>3, LineType DEF LineAt
  <2> HIDE DEF over, header
  <2>2. Linked(over)'
    BY <1>5, <1>7, <2>1 DEF Linked, LineLinked, OverLinked, HeadLinked, BodyLinked, ChunkLinked
  <2>3. Linked(header)'
    BY <2>1 DEF Linked, LineLinked, OverLinked, HeadLinked, BodyLinked, ChunkLinked
  <2> QED BY <2>1, <2>2, <2>3 DEF Positions
<1>10. /\ <<Token("garbage", 0)>> \in Seq(Tokens)
       /\ <<Token("status", 100)>> \in Seq(Tokens)
  <2>1. Token("garbage", 0) \in Tokens /\ Token("status", 100) \in Tokens
    BY DEF Token, Tokens, TokenKinds
  <2> QED BY <2>1
<1>11. ASSUME NEW q \in Positions, ServerAt(q) PROVE q \in P /\ Begins(q, k)
  <2>1. Begins(q, k)
    BY <1>1, <1>2, <1>11 DEF ServerAt, GoesOn, CanRespond
  <2>2. q \in P
    BY <1>8 DEF Positions
  <2> QED BY <2>1, <2>2
<1>12. ServerAt(over)'
  <2>1. ~GoesOn'
    BY <1>4, <1>5 DEF GoesOn
  <2> QED BY <1>2, <1>3, <2>1 DEF ServerAt
<1>13. \E lump : Continues(lump)
  <2>1. CASE lines = 0
    <3> DEFINE lump == <<Token("garbage", 0)>>
    <3>1. input' = input \o lump
      <4>1. SubSeq(Interim, 1, lines) = <<>> /\ input \o <<>> = input
        BY <1>3, <2>1, SubSeqEmpty, ConcatEmptySeq
      <4> QED BY <1>2, <4>1
    <3>2. ASSUME NEW q \in Positions, ServerAt(q) PROVE Leads(P, q, lump, over)
      <4>1. q \in P /\ Step(q, Token("garbage", 0), over)
        BY <1>11, <3>2 DEF Begins, Step, LineStep, Garbled, Token, LineAt
      <4> HIDE DEF P, over
      <4> QED BY <1>9, <4>1, LeadsOneStep
    <3> HIDE DEF lump
    <3>3. lump \in Seq(Tokens)
      BY <1>10 DEF lump
    <3>4. \A q \in Positions : ServerAt(q) =>
             \E z \in Positions' : Leads(Positions', q, lump, z) /\ ServerAt(z)'
      BY <1>9, <1>12, <3>2
    <3> QED BY <3>1, <3>3, <3>4 DEF Continues
  <2>2. CASE lines = 1
    <3> DEFINE lump == <<Token("status", 100)>> \o <<Token("garbage", 0)>>
    <3>1. input' = input \o lump
      <4>1. SubSeq(Interim, 1, lines) = <<Token("status", 100)>>
        <5> DEFINE u == SubSeq(Interim, 1, lines)
        <5>1. Interim[1] = Token("status", 100) /\ Interim[1] \in Tokens
          BY DEF Interim, Token, Tokens, TokenKinds
        <5>2. u \in Seq(Tokens) /\ Len(u) = 1 /\ u[1] = Interim[1]
          <6>1. \A i \in 1 .. lines : Interim[i] \in Tokens
            BY <2>2, <5>1
          <6>2. /\ u \in Seq(Tokens) /\ Len(u) = IF 1 <= lines THEN lines - 1 + 1 ELSE 0
                /\ \A i \in 1 .. lines - 1 + 1 : u[i] = Interim[1 + i - 1]
            BY <6>1, SubSeqProperties
          <6> HIDE DEF u
          <6> QED BY <2>2, <6>2
        <5> HIDE DEF u
        <5>3. u = <<u[1]>>
          BY <5>2
        <5> QED BY <5>1, <5>2, <5>3 DEF u
      <4>2. input \o lump = (input \o <<Token("status", 100)>>) \o <<Token("garbage", 0)>>
        BY <1>3, <1>10, ConcatAssociative
      <4> QED BY <1>2, <4>1, <4>2
    <3>2. ASSUME NEW q \in Positions, ServerAt(q) PROVE Leads(P, q, lump, over)
      <4>1. q \in P /\ Step(q, Token("status", 100), header)
        BY <1>11, <3>2 DEF Begins, Step, LineStep, Token, LineAt, SameRow
      <4>2. Step(header, Token("garbage", 0), over)
        BY DEF Step, InterimStep, Garbled, Token, LineAt
      <4> HIDE DEF P, over, header
      <4>3. /\ Leads(P, q, <<Token("status", 100)>>, header)
            /\ Leads(P, header, <<Token("garbage", 0)>>, over)
        BY <1>9, <4>1, <4>2, LeadsOneStep
      <4> QED BY <1>10, <4>3, LeadsConcat
    <3> HIDE DEF lump
    <3>3. lump \in Seq(Tokens)
      BY <1>10, ConcatProperties DEF lump
    <3>4. \A q \in Positions : ServerAt(q) =>
             \E z \in Positions' : Leads(Positions', q, lump, z) /\ ServerAt(z)'
      BY <1>9, <1>12, <3>2
    <3> QED BY <3>1, <3>3, <3>4 DEF Continues
  <2> QED BY <2>1, <2>2
<1>14. PICK lump : Continues(lump)
  BY <1>13
<1>15. /\ (chunking => sent # <<>> /\ FollowsIn(Len(sent)) = "chunked")'
       /\ chunking' \in BOOLEAN /\ closed' \in BOOLEAN
       /\ UNCHANGED <<asked, cut, phase, headVars, remains, body, delivered>>
  BY <1>2, <1>3 DEF FramingInv, TypeOK
<1> QED BY <1>2, <1>4, <1>6, <1>14, <1>15, AppendedKeeps

\* What does not depend on the server being within a chunked body.
LEMMA ServerKeeps ==
    ASSUME FramingInv, ~cut, sent' \in Seq(Responses), asked' \in Seq(Methods),
           Len(sent') <= Len(asked'), chunking' \in BOOLEAN, closed' \in BOOLEAN, cut' = cut, SentInv',
           NEW lump, Continues(lump),
           \A p \in Position : Linked(p) => Linked(p)',
           \A i \in DOMAIN delivered : Fits(i, delivered[i]) => Fits(i, delivered[i])',
           (\E i \in DOMAIN sent : Bad(i)) => \E i \in DOMAIN sent' : Bad(i)',
           \A k \in DOMAIN sent : sent'[k].status = sent[k].status,
           UNCHANGED <<phase, headVars, remains, body, delivered>>,
           Len(asked') >= Len(asked)
    PROVE  FramingInv'
<1>1. TypeOK'
  <2>1. input \in Seq(Tokens) /\ lump \in Seq(Tokens) /\ input' = input \o lump
    BY DEF FramingInv, TypeOK, Tokens, Continues
  <2>2. input' \in Seq([t : TokenKinds, v : Nat])
    BY <2>1, ConcatProperties DEF Tokens
  <2>3. Len(delivered') <= Len(asked')
    <3>1. Len(delivered) <= Len(asked) /\ delivered' = delivered
      BY DEF FramingInv, TypeOK
    <3>2. Len(delivered) \in Nat /\ Len(asked) \in Nat /\ Len(asked') \in Nat
      BY LenProperties DEF FramingInv, TypeOK, DeliveredInv
    <3> QED BY <3>1, <3>2
  <2> QED BY <2>2, <2>3 DEF FramingInv, TypeOK, headVars, Responses
<1>2. DeliveredInv'
  BY DEF FramingInv, DeliveredInv
<1>3. ReaderInv'
  <2>1. Positions \subseteq Positions'
    BY DEF Positions
  <2> QED BY <2>1, ServerSends
<1> QED BY <1>1, <1>2, <1>3 DEF FramingInv

LEMMA RequestKeeps ==
    ASSUME FramingInv, NEW m \in Methods, SendRequest(m)
    PROVE  FramingInv'
<1>1. /\ asked' = Append(asked, m) /\ Len(asked) < MaxRequests
      /\ sent' = sent /\ chunking' = chunking /\ closed' = closed /\ cut' = cut /\ input' = input
      /\ UNCHANGED <<phase, headVars, remains, body, delivered>>
  BY DEF SendRequest
<1>2. /\ asked \in Seq(Methods) /\ sent \in Seq(Responses) /\ Len(sent) <= Len(asked)
      /\ Len(asked) \in Nat /\ Len(sent) \in Nat /\ DOMAIN sent = 1 .. Len(sent)
      /\ chunking \in BOOLEAN /\ closed \in BOOLEAN /\ input \in Seq(Tokens)
  BY LenProperties DEF FramingInv, TypeOK, Responses, Tokens
<1>3. /\ asked' \in Seq(Methods) /\ Len(asked') = Len(asked) + 1
      /\ \A k \in DOMAIN sent : asked'[k] = asked[k]
  BY <1>1, <1>2, AppendProperties
<1>4. \A k \in DOMAIN sent : FollowsIn(k)' = FollowsIn(k)
  BY <1>1, <1>3 DEF FollowsIn, Follows
<1>5. ASSUME NEW p \in Position, Linked(p) PROVE Linked(p)'
  BY <1>1, <1>4, <1>5
     DEF Linked, LineLinked, OverLinked, HeadLinked, BodyLinked, ChunkLinked, Within, AsAnnounced, Bad
<1>6. SentInv'
  <2>1. chunking => Len(sent) \in DOMAIN sent
    BY <1>2, EmptySeq DEF FramingInv, SentInv
  <2>2. chunking => FollowsIn(Len(sent))' = "chunked"
    BY <1>1, <1>3, <2>1 DEF FramingInv, SentInv, FollowsIn, Follows
  <2> QED BY <1>1, <1>2, <1>3, <2>2, FramingAssumption DEF FramingInv, SentInv
<1>7. Continues(<<>>)
  <2>1. input' = input \o <<>> /\ <<>> \in Seq(Tokens)
    BY <1>1, <1>2, ConcatEmptySeq, EmptySeq
  <2>2. ASSUME NEW q \in Positions, ServerAt(q)
        PROVE  q \in Positions' /\ Leads(Positions', q, <<>>, q) /\ ServerAt(q)'
    <3>1. q \in Positions'
      BY <1>5 DEF Positions
    <3>2. Leads(Positions', q, <<>>, q)
      BY <3>1, LeadsNowhere
    <3>3. GoesOn' => GoesOn
      BY <1>1, <1>3 DEF GoesOn
    <3>4. ServerAt(q)'
      BY <1>1, <2>2, <3>3 DEF ServerAt
    <3> QED BY <3>1, <3>2, <3>4
  <2> QED BY <2>1, <2>2 DEF Continues
<1>8. \A i \in DOMAIN delivered : Fits(i, delivered[i]) => Fits(i, delivered[i])'
  BY <1>1 DEF Fits, Bad
<1>9. (\E i \in DOMAIN sent : Bad(i)) => \E i \in DOMAIN sent' : Bad(i)'
  BY <1>1 DEF Bad
<1>10. /\ sent' \in Seq(Responses) /\ Len(sent') <= Len(asked') /\ Len(asked') >= Len(asked)
       /\ chunking' \in BOOLEAN /\ closed' \in BOOLEAN
       /\ \A k \in DOMAIN sent : sent'[k].status = sent[k].status
  BY <1>1, <1>2, <1>3
<1>11. CASE cut
  <2>1. TypeOK'
    <3>1. Len(delivered) <= Len(asked) /\ Len(delivered) \in Nat
      BY TypesOf
    <3>2. Len(delivered') <= Len(asked')
      BY <1>1, <1>2, <1>3, <3>1
    <3> QED BY <1>1, <1>2, <1>3, <1>10, <3>2 DEF FramingInv, TypeOK, headVars, Responses
  <2>2. DeliveredInv'
    BY <1>1, <1>8, <1>9 DEF FramingInv, DeliveredInv
  <2>3. ReaderInv'
    <3>1. input' = <<>> /\ Positions \subseteq Positions'
      BY <1>1, <1>5, <1>11 DEF FramingInv, SentInv, Positions
    <3>2. ASSUME phase \in Running, NEW p \in Positions, Reads(p)
          PROVE  Reads(p)' /\ Leads(Positions', p, input', p) /\ p \in Positions'
      <4>1. Leads(Positions', p, <<>>, p) /\ p \in Positions'
        BY <3>1, LeadsNowhere
      <4>2. Reads(p)'
        BY <1>1, <3>2 DEF Reads, ReadsStatus, ReadsHeaders, ReadsBody, ReadsChunks, HandedOver,
                          Within, headVars
      <4> QED BY <3>1, <4>1, <4>2
    <3> QED BY <1>1, <1>11, <3>2 DEF FramingInv, ReaderInv, headVars
  <2> QED BY <1>6, <2>1, <2>2, <2>3 DEF FramingInv
<1>12. CASE ~cut
  BY <1>1, <1>3, <1>5, <1>6, <1>7, <1>8, <1>9, <1>10, <1>12, ServerKeeps
<1> QED BY <1>11, <1>12

LEMMA LastChunkKeeps ==
    ASSUME FramingInv, SendLastChunk
    PROVE  FramingInv'
<1>1. PICK k, g : k = Len(sent) /\ g = Len(sent[k].body)
  OBVIOUS
<1>2. /\ chunking /\ ~closed /\ ~sent[k].bad
      /\ input' = input \o Chunk(k, 0) /\ chunking' = FALSE
      /\ asked' = asked /\ sent' = sent /\ closed' = closed /\ cut' = cut
      /\ UNCHANGED <<phase, headVars, remains, body, delivered>>
  BY <1>1 DEF SendLastChunk, CanSendChunk
<1>3. /\ sent \in Seq(Responses) /\ k \in Nat \ {0} /\ k \in DOMAIN sent /\ g \in Nat /\ ~cut
      /\ FollowsIn(k) = "chunked" /\ Len(sent) \in Nat /\ DOMAIN sent = 1 .. Len(sent)
  <2>1. /\ sent \in Seq(Responses) /\ sent # <<>> /\ FollowsIn(k) = "chunked" /\ ~cut
    BY <1>1, <1>2 DEF FramingInv, TypeOK, SentInv, Responses
  <2>2. k \in Nat \ {0} /\ k \in DOMAIN sent /\ DOMAIN sent = 1 .. Len(sent)
    BY <1>1, <2>1, EmptySeq, LenProperties
  <2>3. sent[k].body \in Seq(Units)
    <3>1. sent[k] \in Responses
      BY <2>1, <2>2, ElementOfSeq
    <3> QED BY <3>1 DEF Responses
  <2> QED BY <1>1, <2>1, <2>2, <2>3, LenProperties
<1>4. ASSUME NEW p \in Position, Linked(p) PROVE Linked(p)'
  BY <1>2, <1>4
     DEF Linked, LineLinked, OverLinked, HeadLinked, BodyLinked, ChunkLinked, Within, AsAnnounced,
         Bad, FollowsIn, Follows
<1> DEFINE P == Positions'
           size == ChunkAt("size", k, g, 0)
           last == ChunkAt("last", k, g, 0)
           line == LineAt("line", k + 1, 0)
<1>5. size \in P /\ last \in P /\ line \in P
  <2>1. size \in Position /\ last \in Position /\ line \in Position
    BY <1>3, ChunkType, LineType
  <2>2. /\ size.at = "size" /\ size.k = k /\ size.got = g /\ last.at = "last" /\ last.k = k
        /\ last.got = g /\ line.at = "line" /\ line.interims = 0
    BY DEF ChunkAt, LineAt
  <2> HIDE DEF size, last, line
  <2>3. ChunkLinked(size)' /\ ChunkLinked(last)'
    BY <1>1, <1>2, <1>3, <2>2 DEF ChunkLinked, FollowsIn, Follows, Bad
  <2>4. ~(0 > MaxInterim)
    BY FramingAssumption
  <2>5. Linked(size)' /\ Linked(last)' /\ Linked(line)'
    BY <2>2, <2>3, <2>4 DEF Linked, LineLinked, OverLinked, HeadLinked, BodyLinked, ChunkLinked
  <2> QED BY <2>1, <2>5 DEF Positions
<1>6. /\ <<Token("size", 0)>> \in Seq(Tokens) /\ <<Token("crlf", 0)>> \in Seq(Tokens)
      /\ Chunk(k, 0) = <<Token("size", 0)>> \o <<Token("crlf", 0)>>
  <2>1. Token("size", 0) \in Tokens /\ Token("crlf", 0) \in Tokens
    BY DEF Token, Tokens, TokenKinds
  <2>2. Data(k, 0) = <<>>
    BY DataType
  <2>3. <<Token("size", 0)>> \o <<>> = <<Token("size", 0)>>
    BY <2>1
  <2> QED BY <2>1, <2>2, <2>3 DEF Chunk
<1>7. Leads(P, size, Chunk(k, 0), line)
  <2>1. Step(size, Token("size", 0), last) /\ Step(last, Token("crlf", 0), line)
    BY DEF Step, ChunkStep, Begins, ChunkAt, LineAt, Token
  <2> HIDE DEF P, size, last, line
  <2>2. /\ Leads(P, size, <<Token("size", 0)>>, last)
        /\ Leads(P, last, <<Token("crlf", 0)>>, line)
    BY <1>5, <2>1, LeadsOneStep
  <2> QED BY <1>6, <2>2, LeadsConcat
<1>8. Chunk(k, 0) \in Seq(Tokens) /\ Chunk(k, 0) # <<>>
  <2>1. <<Token("size", 0)>> # <<>>
    OBVIOUS
  <2>2. \A s, u \in Seq(Tokens) : s \o u \in Seq(Tokens) /\ (s # <<>> => s \o u # <<>>)
    BY ConcatProperties, ConcatEqualIffEmpty
  <2> QED BY <1>6, <2>1, <2>2
<1>9. ASSUME NEW q \in Positions, ServerAt(q) PROVE Leads(P, q, Chunk(k, 0), line)
  <2>1. q.at = "size" /\ q.k = k /\ q.got = g
    BY <1>1, <1>2, <1>9 DEF ServerAt
  <2>2. \A t, x : Step(size, t, x) => Step(q, t, x)
    BY <2>1, ChunksAlike
  <2>3. q \in P
    BY <1>4 DEF Positions
  <2> HIDE DEF P, size, line
  <2> QED BY <1>7, <1>8, <2>2, <2>3, LeadsFrom
<1>10. ServerAt(line)'
  <2>1. Begins(line, k + 1)
    BY DEF Begins, LineAt
  <2> HIDE DEF line
  <2> QED BY <1>1, <1>2, <2>1 DEF ServerAt
<1>11. Continues(Chunk(k, 0))
  <2> HIDE DEF line
  <2> QED BY <1>2, <1>5, <1>8, <1>9, <1>10 DEF Continues
<1>12. SentInv'
  BY <1>2, <1>3 DEF FramingInv, SentInv
<1>13. \A i \in DOMAIN delivered : Fits(i, delivered[i]) => Fits(i, delivered[i])'
  BY <1>2 DEF Fits, Bad
<1>14. /\ (\E i \in DOMAIN sent : Bad(i)) => \E i \in DOMAIN sent' : Bad(i)'
       /\ sent' \in Seq(Responses) /\ asked' \in Seq(Methods) /\ Len(sent') <= Len(asked')
       /\ chunking' \in BOOLEAN /\ closed' \in BOOLEAN
       /\ \A i \in DOMAIN sent : sent'[i].status = sent[i].status
       /\ Len(asked') >= Len(asked)
  <2>1. Len(asked) \in Nat
    BY LenProperties DEF FramingInv, TypeOK
  <2>2. /\ asked \in Seq(Methods) /\ Len(sent) <= Len(asked) /\ closed \in BOOLEAN
    BY DEF FramingInv, TypeOK
  <2>3. (\E i \in DOMAIN sent : Bad(i)) => \E i \in DOMAIN sent' : Bad(i)'
    BY <1>2 DEF Bad
  <2>4. /\ sent' = sent /\ asked' = asked /\ closed' = closed /\ chunking' = FALSE
        /\ sent \in Seq(Responses)
    BY <1>2, <1>3
  <2>5. Len(asked') >= Len(asked)
    BY <2>1, <2>4
  <2> QED BY <2>2, <2>3, <2>4, <2>5
<1> QED BY <1>2, <1>3, <1>4, <1>11, <1>12, <1>13, <1>14, ServerKeeps

LEMMA ChunkKeeps ==
    ASSUME FramingInv, NEW n \in 1 .. (MaxChunk + 1), SendChunk(n)
    PROVE  FramingInv'
<1>1. PICK k, g : k = Len(sent) /\ g = Len(sent[k].body)
  OBVIOUS
<1>2. /\ chunking /\ ~closed /\ ~sent[k].bad
      /\ input' = input \o Chunk(k, n) /\ chunking' = chunking
      /\ asked' = asked /\ closed' = closed /\ cut' = cut
      /\ sent' = [sent EXCEPT ![k].body = @ \o Data(k, n), ![k].bad = (n > MaxChunk)]
      /\ UNCHANGED <<phase, headVars, remains, body, delivered>>
  BY <1>1 DEF SendChunk, CanSendChunk
<1>3. /\ sent \in Seq(Responses) /\ k \in Nat \ {0} /\ k \in DOMAIN sent /\ g \in Nat /\ ~cut
      /\ FollowsIn(k) = "chunked" /\ Len(sent) \in Nat /\ DOMAIN sent = 1 .. Len(sent)
      /\ sent[k].body = Data(k, g) /\ n \in Nat \ {0} /\ k \in 1 .. MaxRequests
      /\ sent[k] \in Responses
  <2>1. sent \in Seq(Responses) /\ sent # <<>> /\ FollowsIn(k) = "chunked" /\ ~cut
    BY <1>1, <1>2 DEF FramingInv, TypeOK, SentInv, Responses
  <2>2. k \in Nat \ {0} /\ k \in DOMAIN sent /\ DOMAIN sent = 1 .. Len(sent)
    BY <1>1, <2>1, EmptySeq, LenProperties
  <2>3. sent[k] \in Responses
    BY <2>1, <2>2, ElementOfSeq
  <2>4. sent[k].body \in Seq(Units)
    BY <2>3 DEF Responses
  <2>5. g \in Nat /\ sent[k].body = Data(k, g)
    BY <1>1, <2>2, <2>4, LenProperties DEF FramingInv, SentInv
  <2>6. n \in Nat \ {0}
    BY FramingAssumption
  <2>7. k \in 1 .. MaxRequests
    <3>1. k <= Len(asked) /\ Len(asked) <= MaxRequests /\ Len(asked) \in Nat
      BY <1>1, LenProperties DEF FramingInv, TypeOK, SentInv
    <3> QED BY <2>2, <3>1, FramingAssumption
  <2> QED BY <1>1, <2>1, <2>2, <2>3, <2>5, <2>6, <2>7
<1>4. PICK y : y = [sent[k] EXCEPT !.body = Data(k, g + n), !.bad = (n > MaxChunk)]
  OBVIOUS
<1>5. /\ sent' = [sent EXCEPT ![k] = y]
      /\ y \in Responses /\ y.status = sent[k].status /\ y.framing = sent[k].framing
      /\ y.body = Data(k, g + n) /\ Len(y.body) = g + n /\ (y.bad <=> n > MaxChunk)
  <2>1. /\ sent[k].body \o Data(k, n) = Data(k, g + n)
        /\ Data(k, g + n) \in Seq(Units) /\ Len(Data(k, g + n)) = g + n
    <3>1. g + n \in Nat /\ k \in Nat /\ n \in Nat
      BY <1>3
    <3>2. Data(k, g) \o Data(k, n) = Data(k, g + n)
      BY <1>3, <3>1, DataGrows
    <3>3. Data(k, g + n) \in Seq(Units) /\ Len(Data(k, g + n)) = g + n
      BY <1>3, <3>1, DataType
    <3> QED BY <1>3, <3>2, <3>3
  <2>2. (n > MaxChunk) \in BOOLEAN
    OBVIOUS
  <2>3. /\ y \in Responses /\ y.status = sent[k].status /\ y.framing = sent[k].framing
        /\ y.body = Data(k, g + n) /\ (y.bad <=> n > MaxChunk)
    BY <1>3, <1>4, <2>1, <2>2 DEF Responses
  <2>4. sent' = [sent EXCEPT ![k] = y]
    BY <1>2, <1>3, <1>4, <2>1
  <2> QED BY <2>1, <2>3, <2>4
<1>6. /\ sent' \in Seq(Responses) /\ Len(sent') = Len(sent) /\ DOMAIN sent' = DOMAIN sent
      /\ sent'[k] = y /\ \A i \in DOMAIN sent : i # k => sent'[i] = sent[i]
  BY <1>3, <1>5, ExceptSeq
<1>7. /\ \A i \in DOMAIN sent : FollowsIn(i)' = FollowsIn(i)
      /\ \A i : i # k => (Bad(i)' <=> Bad(i))
      /\ ~Bad(k) /\ (Bad(k)' <=> n > MaxChunk)
      /\ (\E i \in DOMAIN sent : Bad(i)) => \E i \in DOMAIN sent' : Bad(i)'
      /\ \A i \in DOMAIN sent : sent'[i].status = sent[i].status
  <2>1. \A i \in DOMAIN sent : sent'[i].status = sent[i].status /\ sent'[i].framing = sent[i].framing
    BY <1>5, <1>6
  <2>2. \A i \in DOMAIN sent : FollowsIn(i)' = FollowsIn(i)
    BY <1>2, <2>1 DEF FollowsIn, Follows
  <2>3. \A i : i # k => (Bad(i)' <=> Bad(i))
    BY <1>6 DEF Bad
  <2>4. ~Bad(k) /\ (Bad(k)' <=> n > MaxChunk)
    BY <1>2, <1>3, <1>5, <1>6 DEF Bad
  <2> QED BY <1>6, <2>1, <2>2, <2>3, <2>4
<1>8. \A i \in DOMAIN sent : Len(sent[i].body) \in Nat /\ Len(sent'[i].body) \in Nat
                             /\ Len(sent[i].body) <= Len(sent'[i].body)
                             /\ (i # k => sent'[i].body = sent[i].body)
  <2>1. ASSUME NEW i \in DOMAIN sent PROVE Len(sent[i].body) \in Nat
    <3>1. sent[i] \in Responses
      BY <1>3, ElementOfSeq
    <3>2. sent[i].body \in Seq(Units)
      BY <3>1 DEF Responses
    <3> QED BY <3>2, LenProperties
  <2>2. Len(sent'[k].body) = g + n /\ Len(sent[k].body) = g
    BY <1>1, <1>5, <1>6
  <2>3. ASSUME NEW i \in DOMAIN sent, i # k
        PROVE  sent'[i].body = sent[i].body
    BY <1>6, <2>3
  <2> QED BY <1>3, <2>1, <2>2, <2>3
<1>9. ASSUME NEW p \in Position, Linked(p) PROVE Linked(p)'
  <2>1. LineLinked(p)' /\ OverLinked(p)'
    BY <1>6, <1>7, <1>9 DEF Linked, LineLinked, OverLinked
  <2>2. HeadLinked(p)'
    <3>1. CASE p.at = "head" /\ p.k = k
      BY <1>3, <1>5, <1>6, <1>7, <1>9, <3>1 DEF Linked, HeadLinked, Within, AsAnnounced
    <3>2. CASE p.at = "head" /\ p.k # k
      BY <1>6, <1>7, <1>8, <1>9, <3>2 DEF Linked, HeadLinked, Within, AsAnnounced
    <3> QED BY <3>1, <3>2 DEF HeadLinked
  <2>3. BodyLinked(p)'
    <3>1. CASE p.at \in {"body", "rest"}
      <4>1. p.k # k
        BY <1>3, <1>9, <3>1 DEF Linked, BodyLinked
      <4> QED BY <1>6, <1>7, <1>8, <1>9, <3>1, <4>1 DEF Linked, BodyLinked, Within
    <3> QED BY <3>1 DEF BodyLinked
  <2>4. ChunkLinked(p)'
    <3>1. CASE p.at \in {"size", "data", "crlf", "last"} /\ p.k # k
      BY <1>2, <1>6, <1>7, <1>8, <1>9, <3>1 DEF Linked, ChunkLinked
    <3>2. CASE p.at \in {"size", "data", "crlf", "last"} /\ p.k = k
      <4>2. p.got \in Nat /\ p.left \in Nat
        BY DEF Position
      <4>0. ChunkLinked(p)
        BY <1>9 DEF Linked
      <4>1. p.at # "last"
        <5>1. p.at = "last" => k < Len(sent)
          BY <1>2, <3>2, <4>0 DEF ChunkLinked
        <5> QED BY <1>1, <1>3, <5>1
      <4>3. p.at = "data" => ~(p.left > MaxChunk)
        BY <1>7, <3>2, <4>0 DEF ChunkLinked
      <4>4. Len(sent[k].body) \in Nat /\ Len(sent'[k].body) \in Nat
            /\ Len(sent[k].body) <= Len(sent'[k].body)
        BY <1>3, <1>8
      <4>5. /\ p.got <= Len(sent[k].body)
            /\ p.at = "data" => p.left > 0 /\ p.got + p.left <= Len(sent[k].body)
        BY <1>9, <3>2 DEF Linked, ChunkLinked
      <4>6. /\ p.got <= Len(sent'[k].body)
            /\ p.at = "data" => p.left > 0 /\ p.got + p.left <= Len(sent'[k].body)
        <5> DEFINE now == Len(sent[k].body)
                   next == Len(sent'[k].body)
        <5>1. /\ now \in Nat /\ next \in Nat /\ now <= next
              /\ p.got <= now /\ (p.at = "data" => p.left > 0 /\ p.got + p.left <= now)
          BY <4>4, <4>5
        <5> HIDE DEF now, next
        <5>2. p.got <= next /\ (p.at = "data" => p.left > 0 /\ p.got + p.left <= next)
          BY <4>2, <5>1
        <5> QED BY <5>2 DEF next
      <4> QED BY <1>3, <1>6, <1>7, <3>2, <4>1, <4>3, <4>6 DEF ChunkLinked
    <3> QED BY <3>1, <3>2 DEF ChunkLinked
  <2> QED BY <2>1, <2>2, <2>3, <2>4 DEF Linked
<1> DEFINE P == Positions'
           size == ChunkAt("size", k, g, 0)
           data == ChunkAt("data", k, g, n)
           crlf == ChunkAt("crlf", k, g + n, 0)
           next == ChunkAt("size", k, g + n, 0)
<1>10. /\ size \in P /\ data \in P /\ crlf \in P /\ next \in P
       /\ \A j \in 0 .. n - 1 : ChunkAt("data", k, g + j, n - j) \in P
  <2>1. ASSUME NEW at \in {"size", "data", "crlf"}, NEW got \in Nat, NEW left \in Nat,
               got <= g + n, at = "data" => left > 0 /\ got + left <= g + n /\ left <= n
        PROVE  ChunkAt(at, k, got, left) \in P
    <3> DEFINE p == ChunkAt(at, k, got, left)
    <3>1. p \in Position
      BY <1>3, ChunkType
    <3>2. p.at = at /\ p.k = k /\ p.got = got /\ p.left = left
      BY DEF ChunkAt
    <3> HIDE DEF p
    <3>3. at = "data" /\ left > MaxChunk => Bad(k)'
      BY <1>3, <1>7, <2>1, FramingAssumption
    <3>4. ChunkLinked(p)'
      BY <1>3, <1>5, <1>6, <1>7, <2>1, <3>2, <3>3 DEF ChunkLinked
    <3>5. Linked(p)'
      BY <3>2, <3>4 DEF Linked, LineLinked, OverLinked, HeadLinked, BodyLinked
    <3> QED BY <3>1, <3>5 DEF Positions, p
  <2> HIDE DEF P
  <2>2. size \in P /\ data \in P /\ crlf \in P /\ next \in P
    BY <1>3, <2>1
  <2>3. ASSUME NEW j \in 0 .. n - 1 PROVE ChunkAt("data", k, g + j, n - j) \in P
    <3>1. /\ g + j \in Nat /\ n - j \in Nat /\ g + j <= g + n /\ n - j > 0 /\ n - j <= n
          /\ (g + j) + (n - j) <= g + n
      BY <1>3
    <3> QED BY <2>1, <3>1
  <2> QED BY <2>2, <2>3
<1>11. /\ <<Token("size", n)>> \in Seq(Tokens) /\ <<Token("crlf", 0)>> \in Seq(Tokens)
       /\ Data(k, n) \in Seq(Tokens) /\ <<Token("size", n)>> # <<>>
       /\ Chunk(k, n) = (<<Token("size", n)>> \o Data(k, n)) \o <<Token("crlf", 0)>>
  <2>1. Token("size", n) \in Tokens /\ Token("crlf", 0) \in Tokens
    BY <1>3 DEF Token, Tokens, TokenKinds
  <2>2. Data(k, n) \in Seq(Tokens)
    BY <1>3, DataType
  <2> QED BY <2>1, <2>2 DEF Chunk
<1> DEFINE a == <<Token("size", n)>> \o Data(k, n)
<1>12. a \in Seq(Tokens) /\ a # <<>> /\ Chunk(k, n) \in Seq(Tokens) /\ Chunk(k, n) # <<>>
  <2>1. \A s, u \in Seq(Tokens) : s \o u \in Seq(Tokens) /\ (s # <<>> => s \o u # <<>>)
    BY ConcatProperties, ConcatEqualIffEmpty
  <2>2. a \in Seq(Tokens) /\ a # <<>>
    BY <1>11, <2>1
  <2> QED BY <1>11, <2>1, <2>2
<1>13. Leads(P, size, Chunk(k, n), next)
  <2>1. Step(size, Token("size", n), data) /\ Step(crlf, Token("crlf", 0), next)
    BY <1>3 DEF Step, ChunkStep, ChunkAt, Token
  <2>2. Leads(P, data, Data(k, n), crlf)
    <3> HIDE DEF P
    <3> QED BY <1>3, <1>10, LeadsThroughChunkData
  <2> HIDE DEF P, size, data, crlf, next
  <2>3. Leads(P, size, <<Token("size", n)>>, data) /\ Leads(P, crlf, <<Token("crlf", 0)>>, next)
    BY <1>10, <2>1, LeadsOneStep
  <2>4. Leads(P, size, a, crlf)
    BY <1>11, <2>2, <2>3, LeadsConcat
  <2> HIDE DEF a
  <2>5. Leads(P, size, a \o <<Token("crlf", 0)>>, next)
    BY <1>11, <1>12, <2>3, <2>4, LeadsConcat
  <2> QED BY <1>11, <2>5 DEF a
<1>14. ASSUME NEW q \in Positions, ServerAt(q) PROVE Leads(P, q, Chunk(k, n), next)
  <2>1. q.at = "size" /\ q.k = k /\ q.got = g
    BY <1>1, <1>2, <1>14 DEF ServerAt
  <2>2. \A t, x : Step(size, t, x) => Step(q, t, x)
    BY <2>1, ChunksAlike
  <2>3. q \in P
    BY <1>9 DEF Positions
  <2> HIDE DEF P, size, next
  <2> QED BY <1>12, <1>13, <2>2, <2>3, LeadsFrom
<1>15. ServerAt(next)'
  <2>1. next.at = "size" /\ next.k = k /\ next.got = g + n
    BY DEF ChunkAt
  <2> HIDE DEF next
  <2> QED BY <1>1, <1>2, <1>5, <1>6, <2>1 DEF ServerAt, GoesOn
<1>16. Continues(Chunk(k, n))
  <2> HIDE DEF next
  <2> QED BY <1>2, <1>10, <1>12, <1>14, <1>15 DEF Continues
<1>17. SentInv'
  <2>1. \A i \in DOMAIN sent' : sent'[i].body = Data(i, Len(sent'[i].body)) /\ sent'[i].status # 100
    <3> SUFFICES ASSUME NEW i \in DOMAIN sent
                 PROVE  sent'[i].body = Data(i, Len(sent'[i].body)) /\ sent'[i].status # 100
      BY <1>6
    <3>1. CASE i = k
      BY <1>3, <1>5, <1>6, <3>1 DEF FramingInv, SentInv
    <3>2. CASE i # k
      BY <1>6, <3>2 DEF FramingInv, SentInv
    <3> QED BY <3>1, <3>2
  <2>2. sent' # <<>> /\ FollowsIn(Len(sent))' = "chunked"
    <3>1. FollowsIn(k)' = "chunked" /\ Len(sent') = k
      BY <1>1, <1>3, <1>6, <1>7
    <3> QED BY <1>3, <1>6, <3>1 DEF FollowsIn
  <2> QED BY <1>2, <1>3, <2>1, <2>2 DEF FramingInv, SentInv
<1>18. ASSUME NEW i \in DOMAIN delivered, Fits(i, delivered[i]) PROVE Fits(i, delivered[i])'
  <2> DEFINE d == delivered[i]
  <2>1. /\ i \in DOMAIN sent /\ delivered' = delivered /\ d.status = sent[i].status
        /\ d.kind = "upgrade" <=> sent[i].status = 101
        /\ d.body = Data(i, Len(d.body)) /\ Len(d.body) <= Len(sent[i].body)
        /\ d.whole => /\ i < Len(sent)
                      /\ ~(cut /\ d.kind = "close") => d.body = sent[i].body
                      /\ d.body = sent[i].body => ~Bad(i)
    BY <1>2, <1>18 DEF Fits
  <2>2. d.whole => i # k
    BY <1>1, <1>3, <2>1
  <2>3. Len(d.body) <= Len(sent'[i].body)
    <3>1. Len(d.body) \in Nat
      <4>1. d \in Deliveries
        BY ElementOfSeq, LenProperties DEF FramingInv, DeliveredInv
      <4>2. d.body \in Seq(Tokens)
        BY <4>1 DEF Deliveries
      <4> QED BY <4>2, LenProperties
    <3> HIDE DEF d
    <3> QED BY <1>8, <2>1, <3>1
  <2> QED BY <1>2, <1>6, <1>7, <1>8, <2>1, <2>2, <2>3 DEF Fits
<1>19. /\ sent' \in Seq(Responses) /\ asked' \in Seq(Methods) /\ Len(sent') <= Len(asked')
       /\ chunking' \in BOOLEAN /\ closed' \in BOOLEAN /\ Len(asked') >= Len(asked)
  <2>1. Len(asked) \in Nat /\ asked \in Seq(Methods) /\ Len(sent) <= Len(asked)
        /\ closed \in BOOLEAN /\ chunking \in BOOLEAN
    BY LenProperties DEF FramingInv, TypeOK
  <2>2. asked' = asked /\ Len(sent') = Len(sent) /\ chunking' = chunking /\ closed' = closed
    BY <1>2, <1>6
  <2> QED BY <1>6, <2>1, <2>2
<1> QED BY <1>2, <1>3, <1>7, <1>9, <1>16, <1>17, <1>18, <1>19, ServerKeeps

LEMMA CutKeeps ==
    ASSUME FramingInv, Cut
    PROVE  FramingInv'
<1>1. /\ input' = <<>> /\ closed' = TRUE /\ cut' = TRUE /\ asked' = asked /\ sent' = sent
      /\ chunking' = chunking
      /\ UNCHANGED <<phase, headVars, remains, body, delivered>>
  BY DEF Cut
<1>2. TypeOK'
  <2>1. <<>> \in Seq([t : TokenKinds, v : Nat])
    BY EmptySeq
  <2> QED BY <1>1, <2>1 DEF FramingInv, TypeOK, headVars
<1>3. SentInv'
  BY <1>1 DEF FramingInv, SentInv, FollowsIn, Follows, Data
<1>4. DeliveredInv'
  BY <1>1 DEF FramingInv, DeliveredInv, Fits, Bad
<1>5. ReaderInv'
  <2>1. Positions' = Positions
    BY <1>1 DEF Positions, Linked, LineLinked, OverLinked, HeadLinked, BodyLinked, ChunkLinked,
                Within, AsAnnounced, Bad, FollowsIn, Follows
  <2>2. ASSUME phase \in Running, NEW p \in Positions, NEW q \in Positions, Reads(p)
        PROVE  Reads(p)' /\ Leads(Positions', p, input', p) /\ p \in Positions'
    <3>1. Leads(Positions', p, <<>>, p)
      BY <2>1, LeadsNowhere
    <3>2. Reads(p)'
      BY <1>1, <2>2 DEF Reads, ReadsStatus, ReadsHeaders, ReadsBody, ReadsChunks, HandedOver, Within,
                        headVars
    <3> QED BY <1>1, <2>1, <3>1, <3>2
  <2> QED BY <1>1, <2>2 DEF FramingInv, ReaderInv, headVars
<1> QED BY <1>2, <1>3, <1>4, <1>5 DEF FramingInv
-----------------------------------------------------------------------------
(* The invariant is preserved by the read loop *)

\* The next token takes the server from p, where the read loop is, to r.
Between(p, r) ==
    /\ p \in Positions /\ r \in Positions /\ Reads(p) /\ Step(p, NextToken, r)
    /\ \E q \in Positions : Leads(Positions, r, Tail(input), q) /\ ServerAt(q)

LEMMA TokenNext ==
    ASSUME FramingInv, phase \in Running, input # <<>>
    PROVE  /\ ~cut /\ NextToken \in Tokens /\ Tail(input) \in Seq(Tokens)
           /\ \E p, r : Between(p, r)
<1>1. input \in Seq(Tokens) /\ ~cut
  BY DEF FramingInv, TypeOK, SentInv, Tokens
<1>2. PICK p \in Positions, q \in Positions : Reads(p) /\ Leads(Positions, p, input, q) /\ ServerAt(q)
  BY <1>1 DEF FramingInv, ReaderInv
<1>3. PICK r \in Positions : Step(p, Head(input), r) /\ Leads(Positions, r, Tail(input), q)
  BY <1>1, <1>2, LeadsTail
<1>4. NextToken \in Tokens /\ Tail(input) \in Seq(Tokens)
  BY <1>1, HeadTailProperties DEF NextToken
<1> QED BY <1>1, <1>2, <1>3, <1>4 DEF Between, NextToken

LEMMA PositionsSame ==
    ASSUME UNCHANGED serverVars
    PROVE  /\ Positions' = Positions
           /\ \A q : ServerAt(q)' <=> ServerAt(q)
           /\ \A i, d : Fits(i, d)' <=> Fits(i, d)
           /\ \A i : Bad(i)' <=> Bad(i)
BY DEF serverVars, Positions, Linked, LineLinked, OverLinked, HeadLinked, BodyLinked, ChunkLinked,
       Within, AsAnnounced, Bad, FollowsIn, Follows, ServerAt, GoesOn, Fits

LEMMA TakesToken ==
    ASSUME FramingInv, NEW p, NEW r, Between(p, r), input' = Tail(input), UNCHANGED serverVars,
           phase' \in Running =>
              Reads(r)' /\ interimCount' <= MaxInterim /\ headersCount' <= MaxHeaders
    PROVE  ReaderInv'
<1>1. r \in Positions' /\ \E q \in Positions' : Leads(Positions', r, input', q) /\ ServerAt(q)'
  BY PositionsSame DEF Between
<1> QED BY <1>1 DEF ReaderInv

\* What no step of the read loop changes.
LEMMA ServerUntouched ==
    ASSUME FramingInv, UNCHANGED serverVars, ~cut \/ input' = input
    PROVE  SentInv'
BY DEF FramingInv, SentInv, FollowsIn, Follows, Data, serverVars

LEMMA NothingDelivered ==
    ASSUME FramingInv, UNCHANGED serverVars, delivered' = delivered,
           phase' = "invalid" => phase = "invalid" \/ \E i \in DOMAIN sent : Bad(i)
    PROVE  DeliveredInv'
<1>1. sent' = sent
  BY DEF serverVars
<1> QED BY <1>1, PositionsSame DEF FramingInv, DeliveredInv

LEMMA DeliversOne ==
    ASSUME FramingInv, UNCHANGED serverVars, NEW k, k = Len(delivered) + 1, NEW d \in Deliveries,
           Fits(k, d), delivered' = Append(delivered, d), phase' # "invalid"
    PROVE  DeliveredInv' /\ Len(delivered') = k /\ k <= Len(asked) /\ delivered'[k] = d
<1>1. /\ delivered \in Seq(Deliveries) /\ Len(delivered) \in Nat /\ DOMAIN delivered = 1 .. Len(delivered)
      /\ sent' = sent
  BY LenProperties DEF FramingInv, DeliveredInv, serverVars
<1>2. /\ delivered' \in Seq(Deliveries) /\ Len(delivered') = k /\ delivered'[k] = d
      /\ DOMAIN delivered' = 1 .. k
      /\ \A i \in DOMAIN delivered : delivered'[i] = delivered[i]
  BY <1>1, AppendProperties, LenProperties
<1>3. \A i \in DOMAIN delivered' : Fits(i, delivered'[i])
  <2> SUFFICES ASSUME NEW i \in DOMAIN delivered' PROVE Fits(i, delivered'[i])
    OBVIOUS
  <2>1. CASE i = k
    BY <1>2, <2>1
  <2>2. CASE i # k
    <3>1. i \in DOMAIN delivered
      BY <1>1, <1>2, <2>2
    <3> QED BY <1>2, <3>1 DEF FramingInv, DeliveredInv
  <2> QED BY <2>1, <2>2
<1>4. k <= Len(asked)
  <2>1. k \in DOMAIN sent
    BY DEF Fits
  <2>2. k <= Len(sent) /\ Len(sent) <= Len(asked) /\ Len(sent) \in Nat /\ Len(asked) \in Nat
    BY <2>1, LenProperties DEF FramingInv, TypeOK
  <2> QED BY <1>1, <2>2
<1>5. DeliveredInv'
  BY <1>2, <1>3, PositionsSame DEF DeliveredInv
<1> QED BY <1>2, <1>4, <1>5

LEMMA AmendsLast ==
    ASSUME FramingInv, UNCHANGED serverVars, NEW k \in Nat \ {0}, k = Len(delivered),
           NEW d \in Deliveries, Fits(k, d), delivered' = [delivered EXCEPT ![k] = d],
           phase' # "invalid"
    PROVE  DeliveredInv' /\ Len(delivered') = k /\ delivered'[k] = d
<1>1. /\ delivered \in Seq(Deliveries) /\ k \in 1 .. Len(delivered)
      /\ DOMAIN delivered = 1 .. Len(delivered)
  BY LenProperties DEF FramingInv, DeliveredInv
<1>2. /\ delivered' \in Seq(Deliveries) /\ Len(delivered') = k /\ delivered'[k] = d
      /\ DOMAIN delivered' = DOMAIN delivered
      /\ \A i \in DOMAIN delivered : i # k => delivered'[i] = delivered[i]
  BY <1>1, ExceptSeq
<1>3. \A i \in DOMAIN delivered' : Fits(i, delivered'[i])
  BY <1>2 DEF FramingInv, DeliveredInv
<1>4. DeliveredInv'
  BY <1>2, <1>3, PositionsSame DEF DeliveredInv
<1> QED BY <1>2, <1>4

\* A step of the read loop keeps the types of what it does not touch.
LEMMA ReaderTypes ==
    ASSUME FramingInv, UNCHANGED serverVars, input' \in Seq(Tokens),
           phase' \in Running \cup {"stopped", "invalid", "failed"},
           status' \in Codes, detected' \in Detections,
           headersCount' \in 0 .. (MaxHeaders + 1), interimCount' \in 0 .. (MaxInterim + 1),
           remains' \in Nat, body' \in Seq(Tokens), Len(delivered') <= Len(asked)
    PROVE  TypeOK'
BY DEF FramingInv, TypeOK, serverVars, Detections, Tokens

LEMMA PositionType ==
    ASSUME NEW p \in Positions
    PROVE  /\ p.k \in Nat \ {0} /\ p.interims \in Nat /\ p.headers \in Nat /\ p.total \in Nat
           /\ p.got \in Nat /\ p.left \in Nat /\ p.code \in Codes /\ p.detected \in Detections
           /\ Linked(p)
BY DEF Positions, Position

\* A response with a body that is not chunked is not the one the server is sending.
LEMMA NotChunking ==
    ASSUME FramingInv, NEW k \in DOMAIN sent, FollowsIn(k) # "chunked"
    PROVE  chunking => k < Len(sent)
<1>1. DOMAIN sent = 1 .. Len(sent) /\ Len(sent) \in Nat
  BY TypesOf
<1> QED BY <1>1 DEF FramingInv, SentInv

LEMMA ReadStatusKeeps ==
    ASSUME FramingInv, ReadStatus
    PROVE  FramingInv'
<1>1. /\ phase = "status" /\ input # <<>> /\ NextToken.t = "status" /\ input' = Tail(input)
      /\ phase' = "headers" /\ status' = NextToken.v /\ detected' = Unknown /\ headersCount' = 0
      /\ UNCHANGED serverVars
      /\ interimCount' = interimCount /\ remains' = remains /\ body' = body /\ delivered' = delivered
  BY DEF ReadStatus, Take, Goes
<1>2. PICK p, r : Between(p, r)
  BY <1>1, TokenNext DEF Running
<1>3. NextToken \in Tokens /\ ~cut /\ Tail(input) \in Seq(Tokens)
  BY <1>1, TokenNext DEF Running
<1>4. p.at = "line" /\ p.k = Len(delivered) + 1 /\ p.interims = interimCount /\ r \in Positions
  BY <1>1, <1>2 DEF Between, Reads, ReadsStatus
<1>5. LineStep(p, NextToken, r)
  BY <1>2, <1>4 DEF Between, Step, InterimStep, HeaderStep, EndStep, BodyStep, ChunkStep
<1>6. \/ NextToken.v = 100 /\ r.at = "interimHeader" /\ SameRow(p, r)
      \/ /\ NextToken.v = r.code
         /\ r.at = "head" /\ r.headers = 0 /\ r.detected = Unknown /\ SameRow(p, r)
  BY <1>1, <1>5 DEF LineStep, Garbled, Token
<1>7. Reads(r)'
  <2>1. ReadsHeaders(r)'
    BY <1>1, <1>4, <1>6 DEF ReadsHeaders, SameRow
  <2> QED BY <1>1, <2>1 DEF Reads, ReadsChunks
<1>8. status' \in Codes
  BY <1>1, <1>4, <1>6, PositionType DEF Codes
<1>9. ReaderInv'
  BY <1>1, <1>2, <1>7, TypesOf, TakesToken, FramingAssumption DEF Running
<1>10. DeliveredInv' /\ SentInv'
  BY <1>1, <1>3, NothingDelivered, ServerUntouched
<1>11. TypeOK'
  <2>1. Unknown \in Detections /\ 0 \in 0 .. (MaxHeaders + 1)
    BY FramingAssumption DEF Unknown, Size, Detections
  <2> QED BY <1>1, <1>3, <1>8, <2>1, TypesOf, ReaderTypes DEF Running
<1> QED BY <1>9, <1>10, <1>11 DEF FramingInv

LEMMA ReadHeaderKeeps ==
    ASSUME FramingInv, ReadHeader
    PROVE  FramingInv'
<1>1. /\ phase = "headers" /\ input # <<>> /\ NextToken.t \in HeaderKinds /\ input' = Tail(input)
      /\ headersCount' = headersCount + 1
      /\ IF headersCount + 1 > MaxHeaders
         THEN phase' = "invalid" /\ detected' = detected
         ELSE detected' = Detect(NextToken) /\ phase' = phase
      /\ UNCHANGED serverVars
      /\ status' = status /\ interimCount' = interimCount /\ remains' = remains /\ body' = body
      /\ delivered' = delivered
  BY DEF ReadHeader, Take, Goes, TooManyHeaders
<1>2. PICK p, r : Between(p, r)
  BY <1>1, TokenNext DEF Running
<1>3. NextToken \in Tokens /\ ~cut /\ Tail(input) \in Seq(Tokens)
  BY <1>1, TokenNext DEF Running
<1>4. p \in Positions /\ r \in Positions /\ ReadsHeaders(p) /\ Step(p, NextToken, r)
  BY <1>1, <1>2 DEF Between, Reads
<1>5. NextToken.t \notin {"end", "garbage", "status", "data", "size", "crlf"}
  BY <1>1 DEF HeaderKinds
<1>6. \/ /\ p.at = "interimHeader" /\ NextToken = Token("other", 0)
         /\ r.at = "interimEnd" /\ SameRow(p, r)
      \/ p.at = "head" /\ HeaderStep(p, NextToken, r)
  BY <1>4, <1>5 DEF ReadsHeaders, Step, LineStep, InterimStep, HeaderStep, EndStep, BodyStep, ChunkStep,
                    Token, Garbled
<1>7. headersCount + 1 > MaxHeaders => Bad(p.k)
  <2>1. CASE p.at = "interimHeader"
    BY <1>4, <2>1, FramingAssumption DEF ReadsHeaders
  <2>2. CASE p.at = "head" /\ HeaderStep(p, NextToken, r)
    <3>1. /\ r.headers <= r.total /\ r.headers = headersCount + 1 /\ r.k = p.k
          /\ ~Within(r) => Bad(r.k)
      BY <1>4, <2>2, PositionType DEF ReadsHeaders, HeaderStep, SameResponse, SameRow, Linked, HeadLinked
    <3>2. r.total \in Nat /\ r.headers \in Nat
      BY <1>4, PositionType
    <3>3. headersCount + 1 > MaxHeaders => ~Within(r)
      BY <3>1, <3>2, FramingAssumption DEF Within
    <3> QED BY <3>1, <3>3
  <2> QED BY <1>6, <2>1, <2>2
<1>8. ASSUME ~(headersCount + 1 > MaxHeaders) PROVE Reads(r)'
  <2>1. detected' = Detect(NextToken) /\ phase' = "headers"
    BY <1>1, <1>8
  <2>2. CASE /\ p.at = "interimHeader" /\ NextToken = Token("other", 0)
             /\ r.at = "interimEnd" /\ SameRow(p, r)
    <3>1. Detect(NextToken) = detected
      BY <2>2 DEF Detect, SizeOf, Token
    <3>2. ReadsHeaders(r)'
      BY <1>1, <1>4, <2>1, <2>2, <3>1 DEF ReadsHeaders, SameRow
    <3> QED BY <2>1, <3>2 DEF Reads, ReadsChunks
  <2>3. CASE p.at = "head" /\ HeaderStep(p, NextToken, r)
    <3>1. ReadsHeaders(r)'
      BY <1>1, <1>4, <2>1, <2>3 DEF ReadsHeaders, HeaderStep, SameResponse, SameRow, Detect
    <3> QED BY <2>1, <3>1 DEF Reads, ReadsChunks
  <2> QED BY <1>6, <2>2, <2>3
<1>9. phase' \in Running => ~(headersCount + 1 > MaxHeaders)
  BY <1>1 DEF Running
<1>10. /\ headersCount \in Nat /\ interimCount <= MaxInterim /\ detected \in Detections
       /\ headersCount <= MaxHeaders
  BY <1>1, TypesOf DEF Running
<1>11. ReaderInv'
  <2>1. phase' \in Running => headersCount' <= MaxHeaders /\ interimCount' <= MaxInterim
    BY <1>1, <1>9, <1>10, FramingAssumption
  <2> QED BY <1>1, <1>2, <1>8, <1>9, <2>1, TakesToken
<1>12. DeliveredInv' /\ SentInv'
  <2>1. phase' = "invalid" => \E i \in DOMAIN sent : Bad(i)
    BY <1>1, <1>7 DEF Bad
  <2> QED BY <1>1, <1>3, <2>1, NothingDelivered, ServerUntouched
<1>13. TypeOK'
  <2>1. detected' \in Detections
    <3>1. SizeOf(NextToken) \in Detections
      BY <1>3 DEF SizeOf, Known, Size, Unknown, Detections, Tokens
    <3> QED BY <1>1, <1>10, <3>1 DEF Detect
  <2>2. headersCount' \in 0 .. (MaxHeaders + 1)
    BY <1>1, <1>10, FramingAssumption
  <2>3. phase' \in Running \cup {"stopped", "invalid", "failed"}
    BY <1>1 DEF Running
  <2> QED BY <1>1, <1>3, <2>1, <2>2, <2>3, TypesOf, ReaderTypes
<1> QED BY <1>11, <1>12, <1>13 DEF FramingInv

\* The cases of the framing decision.
LEMMA FramingOf ==
    ASSUME NEW m, NEW c, NEW d
    PROVE  /\ d = Size("upgrade") => Framing(m, c, d) = "upgrade"
           /\ d # Size("upgrade") /\ Informational(c) => Framing(m, c, d) = "interim"
           /\ d # Size("upgrade") /\ ~Informational(c) /\ ~ResponseHasBody(m, c) => Framing(m, c, d) = "empty"
           /\ ~Informational(c) /\ ResponseHasBody(m, c) /\ d = Size("chunked") => Framing(m, c, d) = "chunked"
           /\ ~Informational(c) /\ ResponseHasBody(m, c) /\ d = Unknown => Framing(m, c, d) = "close"
           /\ \A n : ~Informational(c) /\ ResponseHasBody(m, c) /\ d = Known(n) => Framing(m, c, d) = "length"
<1>1. /\ Size("chunked") # Size("upgrade") /\ Unknown # Size("upgrade") /\ Unknown # Size("chunked")
      /\ Unknown.size # "known" /\ Size("chunked").size # "known" /\ Size("upgrade").size # "known"
      /\ \A n : Known(n).size = "known" /\ Known(n) # Size("upgrade") /\ Known(n) # Size("chunked")
  BY DEF Size, Known, Unknown
<1>2. d = Size("upgrade") => Framing(m, c, d) = "upgrade"
  BY <1>1 DEF Framing, Informational, ResponseHasBody
<1>3. d # Size("upgrade") /\ Informational(c) => Framing(m, c, d) = "interim"
  BY <1>1 DEF Framing, Informational, ResponseHasBody
<1>4. d # Size("upgrade") /\ ~Informational(c) /\ ~ResponseHasBody(m, c) => Framing(m, c, d) = "empty"
  BY DEF Framing, Informational, ResponseHasBody
<1>5. ASSUME ~Informational(c), ResponseHasBody(m, c) PROVE d = Size("chunked") => Framing(m, c, d) = "chunked"
  BY <1>1, <1>5 DEF Framing, Informational, ResponseHasBody
<1>6. ASSUME ~Informational(c), ResponseHasBody(m, c) PROVE d = Unknown => Framing(m, c, d) = "close"
  BY <1>1, <1>6 DEF Framing, Informational, ResponseHasBody
<1>7. ASSUME ~Informational(c), ResponseHasBody(m, c), NEW n PROVE d = Known(n) => Framing(m, c, d) = "length"
  BY <1>1, <1>7 DEF Framing, Informational, ResponseHasBody
<1> QED BY <1>2, <1>3, <1>4, <1>5, <1>6, <1>7

\* At the empty line behind the headers the framing decision is the server's.
LEMMA HeadersTell ==
    ASSUME FramingInv, phase = "headers", NextToken.t = "end", NEW p, NEW r, Between(p, r)
    PROVE  /\ p.k = Len(delivered) + 1 /\ p \in Positions /\ r \in Positions
           /\ \/ /\ Framing(FrontMethod, status, detected) = "interim"
                 /\ r.at = "line" /\ r.k = p.k /\ r.interims = interimCount + 1
              \/ /\ Framing(FrontMethod, status, detected) =
                       (IF status = 101 THEN "upgrade"
                        ELSE IF p.follows = "nothing" THEN "empty" ELSE p.follows)
                 /\ p.at = "head" /\ p.k \in DOMAIN sent /\ status = sent[p.k].status
                 /\ Within(p) /\ interimCount = p.interims
                 /\ EndStep(p, NextToken, r)
                 /\ p.follows \in {"nothing", "length", "chunked", "close"}
                 /\ p.follows = FollowsIn(p.k)
                 /\ status = 101 => p.follows = "nothing"
                 /\ p.follows = "length" => detected = Known(p.left)
<1>1. p \in Positions /\ r \in Positions /\ ReadsHeaders(p) /\ Step(p, NextToken, r)
  BY DEF Between, Reads
<1>2. \/ /\ p.at = "interimEnd" /\ r.at = "line" /\ r.k = p.k /\ r.interims = p.interims + 1
      \/ p.at = "head" /\ EndStep(p, NextToken, r)
  BY <1>1 DEF ReadsHeaders, Step, LineStep, InterimStep, HeaderStep, EndStep, BodyStep, ChunkStep,
              Token, Garbled, HeaderKinds
<1>3. p.k = Len(delivered) + 1 /\ p.interims = interimCount
  BY <1>1 DEF ReadsHeaders
<1>4. CASE p.at = "interimEnd"
  <2>1. status = 100 /\ detected = Unknown
    BY <1>1, <1>4 DEF ReadsHeaders
  <2>2. Framing(FrontMethod, status, detected) = "interim"
    BY <2>1 DEF Framing, Unknown, Size, Informational
  <2> QED BY <1>1, <1>2, <1>3, <1>4, <2>2
<1>5. CASE p.at = "head" /\ EndStep(p, NextToken, r)
  <2>1. /\ status = p.code /\ detected = p.detected /\ headersCount = p.headers
        /\ p.headers = p.total
    BY <1>1, <1>5 DEF ReadsHeaders, EndStep
  <2>2. HeadLinked(p)
    BY <1>1, PositionType DEF Linked
  <2>3. /\ p.k \in DOMAIN sent /\ p.code = sent[p.k].status /\ p.code # 100
        /\ AsAnnounced(p) /\ p.follows = FollowsIn(p.k) /\ p.follows # "none"
    BY <1>5, <2>1, <2>2 DEF HeadLinked
  <2>4. Within(p)
    BY <1>3, <2>1, TypesOf DEF Within, Running
  <2>5. sent[p.k] \in Responses
    BY <2>3, TypesOf, ElementOfSeq
  <2>6. FrontMethod = asked[p.k]
    <3>1. Len(delivered) < Len(asked)
      <4>1. p.k <= Len(sent) /\ Len(sent) <= Len(asked) /\ Len(asked) \in Nat
        BY <2>3, TypesOf, LenProperties DEF FramingInv, TypeOK
      <4> QED BY <1>3, <4>1, TypesOf
    <3> QED BY <1>3, <3>1 DEF FrontMethod
  <2> DEFINE m == asked[p.k]
  <2>7. p.follows = IF NeverHasBody(m, status) THEN "nothing" ELSE sent[p.k].framing
    BY <2>1, <2>3 DEF FollowsIn, Follows
  <2>8. p.follows \in {"nothing", "length", "chunked", "close"}
    BY <2>3, <2>5, <2>7 DEF Responses, Framings
  <2>9. /\ status # 100 /\ status \in Codes
        /\ status = 101 => NeverHasBody(m, status)
        /\ ~Informational(status) => (ResponseHasBody(m, status) <=> ~NeverHasBody(m, status))
        /\ Informational(status) <=> status = 101
    BY <2>1, <2>3, TypesOf DEF NeverHasBody, Tunnel, ResponseHasBody, Informational, Codes
  <2>10. sent[p.k].framing # "nothing"
    BY <2>5 DEF Responses, Framings
  <2>11. /\ p.follows = "length" => detected = Known(p.left)
         /\ p.follows = "chunked" => detected = Size("chunked")
         /\ p.follows = "close" => detected = Unknown
         /\ detected = Size("upgrade") <=> status = 101
    BY <2>1, <2>3 DEF AsAnnounced
  <2>12. Framing(FrontMethod, status, detected) =
             (IF status = 101 THEN "upgrade"
              ELSE IF p.follows = "nothing" THEN "empty" ELSE p.follows)
    <3> HIDE DEF m
    <3>1. Framing(FrontMethod, status, detected) = Framing(m, status, detected)
      BY <2>6 DEF m
    <3>2. CASE status = 101
      BY <2>11, <3>1, <3>2, FramingOf
    <3>3. CASE status # 101 /\ p.follows = "nothing"
      <4>1. ~ResponseHasBody(m, status) /\ ~Informational(status) /\ detected # Size("upgrade")
        BY <2>7, <2>9, <2>10, <2>11, <3>3 DEF m
      <4> QED BY <3>1, <3>3, <4>1, FramingOf
    <3>4. CASE status # 101 /\ p.follows # "nothing"
      <4>1. ResponseHasBody(m, status) /\ ~Informational(status) /\ detected # Size("upgrade")
        BY <2>7, <2>9, <2>11, <3>4 DEF m
      <4>2. CASE p.follows = "chunked"
        BY <2>11, <3>1, <3>4, <4>1, <4>2, FramingOf
      <4>3. CASE p.follows = "length"
        BY <2>11, <3>1, <3>4, <4>1, <4>3, FramingOf
      <4>4. CASE p.follows = "close"
        BY <2>11, <3>1, <3>4, <4>1, <4>4, FramingOf
      <4> QED BY <2>8, <3>4, <4>2, <4>3, <4>4
    <3> QED BY <3>2, <3>3, <3>4
  <2>13. status = 101 => p.follows = "nothing"
    BY <2>7, <2>9
  <2> QED BY <1>1, <1>3, <1>5, <2>1, <2>3, <2>4, <2>8, <2>11, <2>12, <2>13
<1> QED BY <1>2, <1>4, <1>5

\* The loop is at the end of the headers of the final response at p.
AtEndOfHeaders(p, r) ==
    /\ p \in Positions /\ r \in Positions /\ Between(p, r)
    /\ p.at = "head" /\ p.k = Len(delivered) + 1 /\ p.k \in DOMAIN sent
    /\ status = sent[p.k].status
    /\ Within(p) /\ interimCount = p.interims
    /\ EndStep(p, NextToken, r)
    /\ p.follows = FollowsIn(p.k)
    /\ p.follows \in {"nothing", "length", "chunked", "close"}
    /\ status = 101 => p.follows = "nothing"
    /\ p.follows = "length" => detected = Known(p.left)

LEMMA EndsHeaders ==
    ASSUME FramingInv, NEW reader, HeadersEnd(reader)
    PROVE  /\ phase = "headers" /\ input # <<>> /\ NextToken.t = "end" /\ input' = Tail(input)
           /\ body' = <<>> /\ UNCHANGED serverVars
           /\ status' = status /\ detected' = detected /\ headersCount' = headersCount
           /\ ~cut /\ Tail(input) \in Seq(Tokens) /\ NextToken \in Tokens
           /\ <<>> \in Seq(Tokens)
           /\ \E p, r : /\ Between(p, r)
                        /\ \/ /\ reader = "interim"
                              /\ r.at = "line" /\ r.k = Len(delivered) + 1 /\ r.interims = interimCount + 1
                           \/ /\ AtEndOfHeaders(p, r)
                              /\ reader = IF status = 101 THEN "upgrade"
                                          ELSE IF p.follows = "nothing" THEN "empty" ELSE p.follows
<1>1. /\ phase = "headers" /\ input # <<>> /\ NextToken.t = "end" /\ input' = Tail(input)
      /\ body' = <<>> /\ UNCHANGED serverVars
      /\ status' = status /\ detected' = detected /\ headersCount' = headersCount
      /\ Framing(FrontMethod, status, detected) = reader
  BY DEF HeadersEnd, Take
<1>2. ~cut /\ Tail(input) \in Seq(Tokens) /\ NextToken \in Tokens /\ \E p, r : Between(p, r)
  BY <1>1, TokenNext DEF Running
<1>3. PICK p, r : Between(p, r)
  BY <1>2
<1>4. /\ p.k = Len(delivered) + 1 /\ p \in Positions /\ r \in Positions
      /\ \/ /\ reader = "interim"
            /\ r.at = "line" /\ r.k = p.k /\ r.interims = interimCount + 1
         \/ /\ reader = (IF status = 101 THEN "upgrade"
                         ELSE IF p.follows = "nothing" THEN "empty" ELSE p.follows)
            /\ p.at = "head" /\ p.k \in DOMAIN sent /\ status = sent[p.k].status
            /\ Within(p) /\ interimCount = p.interims
            /\ EndStep(p, NextToken, r)
            /\ p.follows \in {"nothing", "length", "chunked", "close"}
            /\ p.follows = FollowsIn(p.k)
            /\ status = 101 => p.follows = "nothing"
            /\ p.follows = "length" => detected = Known(p.left)
  BY <1>1, <1>3, HeadersTell
<1>5. <<>> \in Seq(Tokens)
  BY EmptySeq
<1> QED BY <1>1, <1>2, <1>3, <1>4, <1>5 DEF AtEndOfHeaders

\* Where a response without a body may be handed over at the end of its headers.
LEMMA WholeAtHeaders ==
    ASSUME FramingInv, NEW p, NEW r, AtEndOfHeaders(p, r),
           p.follows = "nothing" \/ (p.follows = "length" /\ p.left = 0),
           NEW kind \in {"length", "upgrade"}, kind = "upgrade" <=> status = 101
    PROVE  LET d == [status |-> status, kind |-> kind, body |-> <<>>, whole |-> TRUE]
           IN  Fits(p.k, d) /\ d \in Deliveries
<1> DEFINE d == [status |-> status, kind |-> kind, body |-> <<>>, whole |-> TRUE]
<1>1. d \in Deliveries
  BY TypesOf, EmptySeq DEF Deliveries
<1>2. /\ p.k \in DOMAIN sent /\ status = sent[p.k].status /\ Within(p) /\ p.at = "head"
      /\ p.follows = FollowsIn(p.k) /\ HeadLinked(p)
  BY PositionType DEF AtEndOfHeaders, Linked
<1>3. sent[p.k].body \in Seq(Units)
  <2>1. sent[p.k] \in Responses
    BY <1>2, TypesOf, ElementOfSeq
  <2> QED BY <2>1 DEF Responses
<1>4. sent[p.k].body = <<>> /\ ~Bad(p.k)
  <2>1. CASE p.follows = "nothing"
    BY <1>2, <2>1 DEF HeadLinked
  <2>2. CASE p.follows = "length" /\ p.left = 0
    <3>1. Len(sent[p.k].body) = 0 /\ (Bad(p.k) => 0 > MaxBody)
      BY <1>2, <2>2 DEF HeadLinked
    <3> QED BY <1>3, <3>1, EmptySeq, FramingAssumption
  <2> QED BY <2>1, <2>2
<1>5. chunking => p.k < Len(sent)
  BY <1>2, NotChunking
<1>6. <<>> = Data(p.k, Len(<<>>)) /\ Len(<<>>) <= Len(sent[p.k].body)
  <2>1. Len(<<>>) = 0 /\ Data(p.k, 0) = <<>>
    BY DataType
  <2> QED BY <1>4, <2>1
<1>7. Fits(p.k, d)
  BY <1>2, <1>4, <1>5, <1>6 DEF Fits
<1> QED BY <1>1, <1>7

LEMMA SkipInterimKeeps ==
    ASSUME FramingInv, SkipInterim
    PROVE  FramingInv'
<1>1. /\ HeadersEnd("interim")
      /\ interimCount' = interimCount + 1
      /\ phase' = IF interimCount + 1 > MaxInterim THEN "invalid" ELSE "status"
      /\ remains' = remains /\ delivered' = delivered
  BY DEF SkipInterim, Goes, TooManyInterim
<1>2. /\ phase = "headers" /\ input' = Tail(input) /\ body' = <<>> /\ UNCHANGED serverVars
      /\ status' = status /\ detected' = detected /\ headersCount' = headersCount
      /\ ~cut /\ Tail(input) \in Seq(Tokens) /\ <<>> \in Seq(Tokens)
  BY <1>1, EndsHeaders
<1>3. PICK p, r : /\ Between(p, r)
                  /\ r.at = "line" /\ r.k = Len(delivered) + 1 /\ r.interims = interimCount + 1
  <2>1. PICK p, r : /\ Between(p, r)
                    /\ \/ /\ r.at = "line" /\ r.k = Len(delivered) + 1
                          /\ r.interims = interimCount + 1
                       \/ /\ AtEndOfHeaders(p, r)
                          /\ "interim" = IF status = 101 THEN "upgrade"
                                         ELSE IF p.follows = "nothing" THEN "empty" ELSE p.follows
    BY <1>1, EndsHeaders
  <2>2. ~(/\ AtEndOfHeaders(p, r)
          /\ "interim" = IF status = 101 THEN "upgrade"
                         ELSE IF p.follows = "nothing" THEN "empty" ELSE p.follows)
    BY DEF AtEndOfHeaders
  <2> QED BY <2>1, <2>2
<1>4. r \in Positions /\ Linked(r) /\ (interimCount + 1 > MaxInterim => \E i \in DOMAIN sent : Bad(i))
  <2>1. r \in Positions /\ LineLinked(r)
    BY <1>3, PositionType DEF Between, Linked
  <2>2. interimCount + 1 > MaxInterim => Bad(r.k)
    BY <1>3, <2>1 DEF LineLinked
  <2> QED BY <2>1, <2>2, PositionType DEF Bad
<1>5. phase = "headers" /\ interimCount <= MaxInterim /\ headersCount <= MaxHeaders
      /\ headersCount \in 0 .. (MaxHeaders + 1) /\ interimCount \in Nat
  BY <1>2, TypesOf DEF Running
<1>6. ReaderInv'
  <2>1. ASSUME phase' \in Running
        PROVE  Reads(r)' /\ interimCount' <= MaxInterim /\ headersCount' <= MaxHeaders
    <3>1. phase' = "status" /\ interimCount' <= MaxInterim
      BY <1>1, <1>5, <2>1, FramingAssumption DEF Running
    <3>2. ReadsStatus(r)'
      BY <1>1, <1>3 DEF ReadsStatus
    <3> QED BY <1>2, <1>5, <3>1, <3>2 DEF Reads, ReadsChunks
  <2> QED BY <1>2, <1>3, <2>1, TakesToken
<1>7. DeliveredInv' /\ SentInv'
  BY <1>1, <1>2, <1>4, NothingDelivered, ServerUntouched
<1>8. TypeOK'
  <2>1. interimCount' \in 0 .. (MaxInterim + 1)
    BY <1>1, <1>5, FramingAssumption
  <2>2. phase' \in Running \cup {"stopped", "invalid", "failed"}
    BY <1>1 DEF Running
  <2> QED BY <1>1, <1>2, <2>1, <2>2, TypesOf, ReaderTypes
<1> QED BY <1>6, <1>7, <1>8 DEF FramingInv

\* The loop is at the end of the headers of a final response, which reader is for.
LEMMA EndsFinalHeaders ==
    ASSUME FramingInv, NEW reader, HeadersEnd(reader), reader # "interim"
    PROVE  \E p, r : /\ AtEndOfHeaders(p, r)
                     /\ reader = IF status = 101 THEN "upgrade"
                                 ELSE IF p.follows = "nothing" THEN "empty" ELSE p.follows
BY EndsHeaders

LEMMA StopForUpgradeKeeps ==
    ASSUME FramingInv, StopForUpgrade
    PROVE  FramingInv'
<1>1. /\ HeadersEnd("upgrade") /\ phase' = "stopped"
      /\ delivered' = Append(delivered, [status |-> status, kind |-> "upgrade", body |-> <<>>,
                                         whole |-> TRUE])
      /\ interimCount' = interimCount /\ remains' = remains
  BY DEF StopForUpgrade, Goes, Deliver
<1>2. /\ input' = Tail(input) /\ body' = <<>> /\ UNCHANGED serverVars
      /\ status' = status /\ detected' = detected /\ headersCount' = headersCount
      /\ ~cut /\ Tail(input) \in Seq(Tokens) /\ <<>> \in Seq(Tokens)
  BY <1>1, EndsHeaders
<1>3. PICK p, r : AtEndOfHeaders(p, r) /\ status = 101 /\ p.follows = "nothing"
  <2>1. PICK p, r : /\ AtEndOfHeaders(p, r)
                    /\ "upgrade" = IF status = 101 THEN "upgrade"
                                   ELSE IF p.follows = "nothing" THEN "empty" ELSE p.follows
    BY <1>1, EndsFinalHeaders
  <2> QED BY <2>1 DEF AtEndOfHeaders
<1>4. PICK d : d = [status |-> status, kind |-> "upgrade", body |-> <<>>, whole |-> TRUE]
  OBVIOUS
<1>5. Fits(p.k, d) /\ d \in Deliveries
  BY <1>3, <1>4, WholeAtHeaders
<1>6. DeliveredInv' /\ Len(delivered') <= Len(asked)
  <2>1. p.k = Len(delivered) + 1 /\ delivered' = Append(delivered, d) /\ phase' # "invalid"
    BY <1>1, <1>3, <1>4 DEF AtEndOfHeaders
  <2> QED BY <1>2, <1>5, <2>1, DeliversOne
<1>7. SentInv'
  BY <1>2, ServerUntouched
<1>8. ReaderInv'
  BY <1>1 DEF ReaderInv, Running
<1>9. TypeOK'
  BY <1>1, <1>2, <1>6, TypesOf, ReaderTypes
<1> QED BY <1>6, <1>7, <1>8, <1>9 DEF FramingInv

\* What the empty line takes the server to.
LEMMA AfterHeaders ==
    ASSUME FramingInv, NEW p, NEW r, AtEndOfHeaders(p, r)
    PROVE  /\ p.follows = "nothing" \/ (p.follows = "length" /\ p.left = 0) => Begins(r, p.k + 1)
           /\ p.follows = "length" /\ p.left > 0
                 => r.at = "body" /\ SameResponse(p, r) /\ r.got = 0 /\ r.left = p.left
           /\ p.follows = "close"
                 => r.at = "rest" /\ SameResponse(p, r) /\ r.got = 0 /\ r.left = p.left
           /\ p.follows = "chunked" => r.at = "size" /\ r.k = p.k /\ r.got = 0
<1>1. p.left \in Nat /\ EndStep(p, NextToken, r)
  BY PositionType DEF AtEndOfHeaders
<1>2. CASE p.follows = "nothing" \/ (p.follows = "length" /\ p.left = 0)
  BY <1>1, <1>2 DEF EndStep
<1>3. CASE p.follows = "length" /\ p.left > 0
  BY <1>1, <1>3 DEF EndStep
<1>4. CASE p.follows = "close"
  BY <1>1, <1>4 DEF EndStep
<1>5. CASE p.follows = "chunked"
  BY <1>1, <1>5 DEF EndStep
<1>6. p.follows \in {"nothing", "length", "chunked", "close"}
  BY DEF AtEndOfHeaders
<1> QED BY <1>1, <1>2, <1>3, <1>4, <1>5, <1>6

\* Behind a response the loop is where the server begins the next one.
LEMMA NextResponse ==
    ASSUME FramingInv, phase \in Running, NEW p, NEW r, Between(p, r), NEW k, Begins(r, k + 1),
           Len(delivered') = k, phase' = "status", interimCount' = 0,
           headersCount' = headersCount, input' = Tail(input), UNCHANGED serverVars
    PROVE  ReaderInv'
<1>1. interimCount' <= MaxInterim /\ headersCount' <= MaxHeaders
  BY TypesOf, FramingAssumption
<1>2. Reads(r)'
  <2>1. ReadsStatus(r)'
    BY DEF Begins, ReadsStatus
  <2> QED BY <2>1 DEF Reads, ReadsChunks
<1> QED BY <1>1, <1>2, TakesToken

LEMMA DeliverEmptyKeeps ==
    ASSUME FramingInv, DeliverEmpty
    PROVE  FramingInv'
<1>1. /\ HeadersEnd("empty") /\ phase' = "status" /\ interimCount' = 0
      /\ delivered' = Append(delivered, [status |-> status, kind |-> "length", body |-> <<>>,
                                         whole |-> TRUE])
      /\ remains' = remains
  BY DEF DeliverEmpty, Goes, Deliver, InterimsEnd
<1>2. /\ phase = "headers" /\ input' = Tail(input) /\ body' = <<>> /\ UNCHANGED serverVars
      /\ status' = status /\ detected' = detected /\ headersCount' = headersCount
      /\ ~cut /\ Tail(input) \in Seq(Tokens) /\ <<>> \in Seq(Tokens)
  BY <1>1, EndsHeaders
<1>3. PICK p, r : AtEndOfHeaders(p, r) /\ status # 101 /\ p.follows = "nothing"
  <2>1. PICK p, r : /\ AtEndOfHeaders(p, r)
                    /\ "empty" = IF status = 101 THEN "upgrade"
                                 ELSE IF p.follows = "nothing" THEN "empty" ELSE p.follows
    BY <1>1, EndsFinalHeaders
  <2> QED BY <2>1 DEF AtEndOfHeaders
<1>4. PICK d : d = [status |-> status, kind |-> "length", body |-> <<>>, whole |-> TRUE]
  OBVIOUS
<1>5. Fits(p.k, d) /\ d \in Deliveries
  BY <1>3, <1>4, WholeAtHeaders
<1>6. DeliveredInv' /\ Len(delivered') = p.k /\ Len(delivered') <= Len(asked)
  <2>1. p.k = Len(delivered) + 1 /\ delivered' = Append(delivered, d) /\ phase' # "invalid"
    BY <1>1, <1>3, <1>4 DEF AtEndOfHeaders
  <2> QED BY <1>2, <1>5, <2>1, DeliversOne
<1>7. SentInv'
  BY <1>2, ServerUntouched
<1>8. ReaderInv'
  <2>1. Between(p, r) /\ Begins(r, p.k + 1)
    BY <1>3, AfterHeaders DEF AtEndOfHeaders
  <2>2. phase \in Running
    BY <1>2 DEF Running
  <2> QED BY <1>1, <1>2, <1>6, <2>1, <2>2, NextResponse
<1>9. TypeOK'
  <2>1. 0 \in 0 .. (MaxInterim + 1) /\ "status" \in Running
    BY FramingAssumption DEF Running
  <2> QED BY <1>1, <1>2, <1>6, <2>1, TypesOf, ReaderTypes
<1> QED BY <1>6, <1>7, <1>8, <1>9 DEF FramingInv

LEMMA BeginLengthKeeps ==
    ASSUME FramingInv, BeginLength
    PROVE  FramingInv'
<1>1. /\ HeadersEnd("length") /\ interimCount' = 0 /\ remains' = detected.n
      /\ IF detected.n = 0
         THEN /\ phase' = "status"
              /\ delivered' = Append(delivered, [status |-> status, kind |-> "length",
                                                 body |-> <<>>, whole |-> TRUE])
         ELSE /\ delivered' = delivered
              /\ phase' = IF detected.n > MaxBody THEN "invalid" ELSE "length"
  BY DEF BeginLength, Goes, Deliver, InterimsEnd, TooBig
<1>2. /\ phase = "headers" /\ input' = Tail(input) /\ body' = <<>> /\ UNCHANGED serverVars
      /\ status' = status /\ detected' = detected /\ headersCount' = headersCount
      /\ ~cut /\ Tail(input) \in Seq(Tokens) /\ <<>> \in Seq(Tokens)
  BY <1>1, EndsHeaders
<1>3. PICK p, r : AtEndOfHeaders(p, r) /\ status # 101 /\ p.follows = "length"
  <2>1. PICK p, r : /\ AtEndOfHeaders(p, r)
                    /\ "length" = IF status = 101 THEN "upgrade"
                                  ELSE IF p.follows = "nothing" THEN "empty" ELSE p.follows
    BY <1>1, EndsFinalHeaders
  <2> QED BY <2>1 DEF AtEndOfHeaders
<1>4. /\ detected.n = p.left /\ p.left \in Nat /\ Between(p, r) /\ p.k = Len(delivered) + 1
      /\ p \in Positions /\ r \in Positions
      /\ p.k \in DOMAIN sent /\ status = sent[p.k].status /\ Within(p)
      /\ phase \in Running
  BY <1>2, <1>3, PositionType DEF AtEndOfHeaders, Known, Running
<1>5. p.left > MaxBody => \E i \in DOMAIN sent : Bad(i)
  BY <1>3, <1>4, PositionType DEF Linked, HeadLinked, AtEndOfHeaders
<1>6. SentInv'
  BY <1>2, ServerUntouched
<1>7. DeliveredInv' /\ ReaderInv' /\ Len(delivered') <= Len(asked)
  <2>1. CASE detected.n = 0
    <3>1. PICK d : d = [status |-> status, kind |-> "length", body |-> <<>>, whole |-> TRUE]
      OBVIOUS
    <3>2. Fits(p.k, d) /\ d \in Deliveries
      BY <1>3, <1>4, <2>1, <3>1, WholeAtHeaders
    <3>3. DeliveredInv' /\ Len(delivered') = p.k /\ Len(delivered') <= Len(asked)
      <4>1. delivered' = Append(delivered, d) /\ phase' # "invalid"
        BY <1>1, <2>1, <3>1
      <4> QED BY <1>2, <1>4, <3>2, <4>1, DeliversOne
    <3>4. Begins(r, p.k + 1)
      BY <1>3, <1>4, <2>1, AfterHeaders
    <3> QED BY <1>1, <1>2, <1>4, <2>1, <3>3, <3>4, NextResponse
  <2>2. CASE detected.n # 0
    <3>1. /\ delivered' = delivered
          /\ phase' = IF p.left > MaxBody THEN "invalid" ELSE "length"
      BY <1>1, <1>4, <2>2
    <3>2. DeliveredInv'
      BY <1>2, <1>5, <3>1, NothingDelivered
    <3>3. ASSUME phase' \in Running
          PROVE  Reads(r)' /\ interimCount' <= MaxInterim /\ headersCount' <= MaxHeaders
      <4>1. phase' = "length" /\ p.left <= MaxBody /\ p.left > 0
        BY <1>4, <2>2, <3>1, <3>3, FramingAssumption DEF Running
      <4>2. r.at = "body" /\ SameResponse(p, r) /\ r.got = 0 /\ r.left = p.left
        BY <1>3, <4>1, AfterHeaders
      <4>3. <<>> = Data(r.k, r.got)
        BY <4>2, DataType
      <4>4. /\ r.k = Len(delivered') + 1 /\ Within(r) /\ status' = sent'[r.k].status
            /\ r.got <= MaxBody /\ remains' = r.left /\ r.left > 0 /\ r.got + r.left <= MaxBody
        BY <1>1, <1>2, <1>4, <3>1, <4>1, <4>2, FramingAssumption
           DEF SameResponse, SameRow, Within, serverVars
      <4>5. ReadsBody(r)'
        BY <1>1, <1>2, <4>1, <4>2, <4>3, <4>4 DEF ReadsBody, Within, Data
      <4>6. interimCount' <= MaxInterim /\ headersCount' <= MaxHeaders
        BY <1>1, <1>2, <1>4, TypesOf, FramingAssumption
      <4> QED BY <4>1, <4>5, <4>6 DEF Reads, ReadsChunks
    <3>4. ReaderInv'
      BY <1>2, <1>4, <3>3, TakesToken
    <3> QED BY <3>1, <3>2, <3>4, TypesOf
  <2> QED BY <2>1, <2>2
<1>8. TypeOK'
  <2>1. 0 \in 0 .. (MaxInterim + 1) /\ remains' \in Nat
    BY <1>1, <1>4, FramingAssumption
  <2>2. phase' \in Running \cup {"stopped", "invalid", "failed"}
    BY <1>1 DEF Running
  <2> QED BY <1>1, <1>2, <1>7, <2>1, <2>2, TypesOf, ReaderTypes
<1> QED BY <1>6, <1>7, <1>8 DEF FramingInv

LEMMA BeginChunkedKeeps ==
    ASSUME FramingInv, BeginChunked
    PROVE  FramingInv'
<1>1. /\ HeadersEnd("chunked") /\ phase' = "chunkSize" /\ interimCount' = 0
      /\ delivered' = Append(delivered, [status |-> status, kind |-> "chunked", body |-> <<>>,
                                         whole |-> FALSE])
      /\ remains' = remains
  BY DEF BeginChunked, Goes, Deliver, InterimsEnd
<1>2. /\ phase = "headers" /\ input' = Tail(input) /\ body' = <<>> /\ UNCHANGED serverVars
      /\ status' = status /\ detected' = detected /\ headersCount' = headersCount
      /\ ~cut /\ Tail(input) \in Seq(Tokens) /\ <<>> \in Seq(Tokens)
  BY <1>1, EndsHeaders
<1>3. PICK p, r : AtEndOfHeaders(p, r) /\ status # 101 /\ p.follows = "chunked"
  <2>1. PICK p, r : /\ AtEndOfHeaders(p, r)
                    /\ "chunked" = IF status = 101 THEN "upgrade"
                                   ELSE IF p.follows = "nothing" THEN "empty" ELSE p.follows
    BY <1>1, EndsFinalHeaders
  <2> QED BY <2>1 DEF AtEndOfHeaders
<1>4. /\ p.k = Len(delivered) + 1 /\ p.k \in DOMAIN sent /\ status = sent[p.k].status
      /\ Between(p, r) /\ r.at = "size" /\ r.k = p.k /\ r.got = 0
  BY <1>3, AfterHeaders DEF AtEndOfHeaders
<1>5. PICK d : d = [status |-> status, kind |-> "chunked", body |-> <<>>, whole |-> FALSE]
  OBVIOUS
<1>6. <<>> = Data(p.k, 0) /\ Len(<<>>) = 0
  BY DataType
<1>7. Fits(p.k, d) /\ d \in Deliveries
  <2>1. d \in Deliveries
    BY <1>2, <1>5, TypesOf DEF Deliveries
  <2>2. 0 <= Len(sent[p.k].body)
    <3>1. sent[p.k] \in Responses
      BY <1>4, TypesOf, ElementOfSeq
    <3> QED BY <3>1, LenProperties DEF Responses
  <2> QED BY <1>3, <1>4, <1>5, <1>6, <2>1, <2>2 DEF Fits
<1>8. /\ DeliveredInv' /\ Len(delivered') = p.k /\ Len(delivered') <= Len(asked)
      /\ delivered'[p.k] = d
  <2>1. delivered' = Append(delivered, d) /\ phase' # "invalid"
    BY <1>1, <1>5
  <2> QED BY <1>2, <1>4, <1>7, <2>1, DeliversOne
<1>9. SentInv'
  BY <1>2, ServerUntouched
<1>10. ReaderInv'
  <2>1. HandedOver(r.k, r.got)'
    BY <1>1, <1>4, <1>5, <1>6, <1>8 DEF HandedOver, Data
  <2>2. Reads(r)'
    BY <1>1, <1>4, <2>1 DEF Reads, ReadsChunks
  <2>3. interimCount' <= MaxInterim /\ headersCount' <= MaxHeaders
    BY <1>1, <1>2, TypesOf, FramingAssumption DEF Running
  <2> QED BY <1>2, <1>4, <2>2, <2>3, TakesToken
<1>11. TypeOK'
  <2>1. 0 \in 0 .. (MaxInterim + 1) /\ "chunkSize" \in Running
    BY FramingAssumption DEF Running
  <2> QED BY <1>1, <1>2, <1>8, <2>1, TypesOf, ReaderTypes
<1> QED BY <1>8, <1>9, <1>10, <1>11 DEF FramingInv

LEMMA BeginUntilCloseKeeps ==
    ASSUME FramingInv, BeginUntilClose
    PROVE  FramingInv'
<1>1. /\ HeadersEnd("close") /\ phase' = "close" /\ interimCount' = interimCount
      /\ remains' = remains /\ delivered' = delivered
  BY DEF BeginUntilClose, Goes
<1>2. /\ phase = "headers" /\ input' = Tail(input) /\ body' = <<>> /\ UNCHANGED serverVars
      /\ status' = status /\ detected' = detected /\ headersCount' = headersCount
      /\ ~cut /\ Tail(input) \in Seq(Tokens) /\ <<>> \in Seq(Tokens)
  BY <1>1, EndsHeaders
<1>3. PICK p, r : AtEndOfHeaders(p, r) /\ status # 101 /\ p.follows = "close"
  <2>1. PICK p, r : /\ AtEndOfHeaders(p, r)
                    /\ "close" = IF status = 101 THEN "upgrade"
                                 ELSE IF p.follows = "nothing" THEN "empty" ELSE p.follows
    BY <1>1, EndsFinalHeaders
  <2> QED BY <2>1 DEF AtEndOfHeaders
<1>4. /\ p.k = Len(delivered) + 1 /\ status = sent[p.k].status /\ Within(p)
      /\ Between(p, r) /\ r.at = "rest" /\ SameResponse(p, r) /\ r.got = 0
  BY <1>3, AfterHeaders DEF AtEndOfHeaders
<1>5. Reads(r)'
  <2>1. <<>> = Data(r.k, r.got)
    BY <1>4, DataType
  <2>2. r.k = Len(delivered') + 1 /\ Within(r) /\ status' = sent'[r.k].status /\ r.got <= MaxBody
    BY <1>1, <1>2, <1>4, FramingAssumption DEF SameResponse, SameRow, Within, serverVars
  <2>3. ReadsBody(r)'
    BY <1>1, <1>2, <1>4, <2>1, <2>2 DEF ReadsBody, Within, Data
  <2> QED BY <1>1, <2>3 DEF Reads, ReadsChunks
<1>6. ReaderInv'
  <2>1. interimCount' <= MaxInterim /\ headersCount' <= MaxHeaders
    BY <1>1, <1>2, TypesOf DEF Running
  <2> QED BY <1>2, <1>4, <1>5, <2>1, TakesToken
<1>7. DeliveredInv' /\ SentInv'
  BY <1>1, <1>2, NothingDelivered, ServerUntouched
<1>8. TypeOK'
  BY <1>1, <1>2, TypesOf, ReaderTypes DEF Running
<1> QED BY <1>6, <1>7, <1>8 DEF FramingInv

\* A response with 101 has no body.
LEMMA NoUpgradeWithBody ==
    ASSUME NEW k, FollowsIn(k) # "nothing"
    PROVE  sent[k].status # 101
BY DEF FollowsIn, Follows, NeverHasBody, Tunnel

\* Where the loop is in a body that is not chunked.
LEMMA InBody ==
    ASSUME FramingInv, phase \in {"length", "close"}, NEW p \in Positions, Reads(p)
    PROVE  /\ p.at = IF phase = "length" THEN "body" ELSE "rest"
           /\ p.k = Len(delivered) + 1 /\ p.k \in DOMAIN sent /\ p.k \in Nat
           /\ p.got \in Nat /\ p.left \in Nat
           /\ Within(p) /\ status = sent[p.k].status /\ status # 101
           /\ body = Data(p.k, p.got) /\ p.got <= MaxBody
           /\ phase = "length" => /\ remains = p.left /\ p.left > 0
                                  /\ p.got + p.left <= MaxBody /\ interimCount = 0
           /\ FollowsIn(p.k) # "chunked"
           /\ sent[p.k].body = Data(p.k, p.got + p.left)
           /\ (Bad(p.k) <=> p.got + p.left > MaxBody)
           /\ Len(sent[p.k].body) = p.got + p.left
<1>1. ReadsBody(p) /\ p.at = IF phase = "length" THEN "body" ELSE "rest"
  BY DEF Reads, ReadsBody
<1>2. BodyLinked(p) /\ p.got \in Nat /\ p.left \in Nat /\ p.k \in Nat
  BY PositionType DEF Linked
<1>3. /\ p.k \in DOMAIN sent /\ FollowsIn(p.k) \in {"length", "close"}
      /\ Len(sent[p.k].body) = p.got + p.left
      /\ Bad(p.k) => ~Within(p) \/ p.got + p.left > MaxBody
      /\ p.got + p.left > MaxBody => Bad(p.k)
  BY <1>1, <1>2 DEF BodyLinked
<1>4. sent[p.k].body = Data(p.k, p.got + p.left)
  BY <1>3 DEF FramingInv, SentInv
<1>5. sent[p.k].status # 101
  BY <1>3, NoUpgradeWithBody
<1> QED BY <1>1, <1>2, <1>3, <1>4, <1>5 DEF ReadsBody

\* What the next unit of such a body is, and where it takes the server.
LEMMA NextUnit ==
    ASSUME FramingInv, phase \in {"length", "close"}, NEW p, NEW r, Between(p, r)
    PROVE  /\ NextToken = Token("data", p.k) /\ p.left > 0
           /\ Append(body, NextToken) = Data(p.k, p.got + 1)
           /\ Append(body, NextToken) \in Seq(Tokens)
           /\ Len(body) = p.got
           /\ IF phase = "length" /\ p.left = 1
              THEN Begins(r, p.k + 1)
              ELSE /\ r.at = p.at /\ SameResponse(p, r) /\ r.got = p.got + 1
                   /\ r.left = p.left - 1
<1>1. p \in Positions /\ Reads(p) /\ Step(p, NextToken, r)
  BY DEF Between
<1>2. /\ p.at = IF phase = "length" THEN "body" ELSE "rest"
      /\ p.k \in Nat /\ p.got \in Nat /\ body = Data(p.k, p.got)
  BY <1>1, InBody
<1>3. BodyStep(p, NextToken, r)
  BY <1>1, <1>2 DEF Step, LineStep, InterimStep, HeaderStep, EndStep, ChunkStep
<1>4. NextToken = Token("data", p.k) /\ p.left > 0
  BY <1>3 DEF BodyStep
<1>5. Append(body, NextToken) = Data(p.k, p.got + 1)
  BY <1>2, <1>4, DataGrows
<1>6. Data(p.k, p.got + 1) \in Seq(Tokens) /\ Len(body) = p.got
  BY <1>2, DataType
<1>7. IF phase = "length" /\ p.left = 1
      THEN Begins(r, p.k + 1)
      ELSE r.at = p.at /\ SameResponse(p, r) /\ r.got = p.got + 1 /\ r.left = p.left - 1
  BY <1>2, <1>3 DEF BodyStep
<1> QED BY <1>4, <1>5, <1>6, <1>7

LEMMA ReadBodyKeeps ==
    ASSUME FramingInv, ReadBody
    PROVE  FramingInv'
<1>1. /\ phase = "length" /\ input # <<>> /\ input' = Tail(input) /\ remains' = remains - 1
      /\ body' = Append(body, NextToken)
      /\ IF remains = 1
         THEN /\ phase' = "status"
              /\ delivered' = Append(delivered, [status |-> status, kind |-> "length",
                                                 body |-> Append(body, NextToken),
                                                 whole |-> TRUE])
         ELSE delivered' = delivered /\ phase' = phase
      /\ UNCHANGED serverVars /\ UNCHANGED headVars
  BY DEF ReadBody, Goes, Deliver, LastUnit
<1>2. PICK p, r : Between(p, r)
  BY <1>1, TokenNext DEF Running
<1>3. ~cut /\ Tail(input) \in Seq(Tokens) /\ phase \in Running
  BY <1>1, TokenNext DEF Running
<1>4. p \in Positions /\ r \in Positions /\ Reads(p)
  BY <1>2 DEF Between
<1>5. /\ p.k = Len(delivered) + 1 /\ p.k \in DOMAIN sent /\ p.k \in Nat
      /\ p.got \in Nat /\ p.left \in Nat /\ Within(p) /\ status = sent[p.k].status /\ status # 101
      /\ remains = p.left /\ p.left > 0 /\ p.got + p.left <= MaxBody /\ interimCount = 0
      /\ FollowsIn(p.k) # "chunked" /\ sent[p.k].body = Data(p.k, p.got + p.left)
      /\ (Bad(p.k) <=> p.got + p.left > MaxBody) /\ p.at = "body"
      /\ Len(sent[p.k].body) = p.got + p.left
  BY <1>1, <1>4, InBody
<1>6. /\ Append(body, NextToken) = Data(p.k, p.got + 1)
      /\ Append(body, NextToken) \in Seq(Tokens)
      /\ IF p.left = 1
         THEN Begins(r, p.k + 1)
         ELSE r.at = p.at /\ SameResponse(p, r) /\ r.got = p.got + 1 /\ r.left = p.left - 1
  BY <1>1, <1>2, NextUnit
<1>7. SentInv'
  BY <1>1, <1>3, ServerUntouched
<1>8. DeliveredInv' /\ ReaderInv' /\ Len(delivered') <= Len(asked)
  <2>1. CASE remains = 1
    <3>1. PICK d : d = [status |-> status, kind |-> "length", body |-> Append(body, NextToken),
                        whole |-> TRUE]
      OBVIOUS
    <3>2. Fits(p.k, d) /\ d \in Deliveries
      <4>1. d \in Deliveries
        BY <1>6, <3>1, TypesOf DEF Deliveries
      <4>2. /\ d.body = sent[p.k].body /\ d.body = Data(p.k, Len(d.body))
            /\ Len(d.body) <= Len(sent[p.k].body)
        <5>1. d.body = Data(p.k, p.got + 1) /\ d.body = sent[p.k].body
          BY <1>5, <1>6, <2>1, <3>1
        <5>2. Len(d.body) = p.got + 1
          BY <1>5, <5>1, DataType
        <5> QED BY <1>5, <5>1, <5>2
      <4>3. ~Bad(p.k)
        BY <1>5, FramingAssumption
      <4>4. chunking => p.k < Len(sent)
        BY <1>5, NotChunking
      <4> QED BY <1>5, <3>1, <4>1, <4>2, <4>3, <4>4 DEF Fits
    <3>3. DeliveredInv' /\ Len(delivered') = p.k /\ Len(delivered') <= Len(asked)
      <4>1. delivered' = Append(delivered, d) /\ phase' # "invalid"
        BY <1>1, <2>1, <3>1
      <4> QED BY <1>1, <1>5, <3>2, <4>1, DeliversOne
    <3>4. Begins(r, p.k + 1) /\ phase' = "status"
      BY <1>1, <1>5, <1>6, <2>1
    <3>5. interimCount' = 0 /\ headersCount' = headersCount
      BY <1>1, <1>5 DEF headVars
    <3> QED BY <1>1, <1>2, <1>3, <3>3, <3>4, <3>5, NextResponse
  <2>2. CASE remains # 1
    <3>1. delivered' = delivered /\ phase' = "length"
      BY <1>1, <2>2
    <3>2. DeliveredInv'
      BY <1>1, <3>1, NothingDelivered
    <3>3. Reads(r)'
      <4>1. r.at = "body" /\ SameResponse(p, r) /\ r.got = p.got + 1 /\ r.left = p.left - 1
        BY <1>5, <1>6, <2>2
      <4>2. /\ r.k = Len(delivered') + 1 /\ Within(r) /\ status' = sent'[r.k].status
            /\ interimCount' = 0
        BY <1>1, <1>5, <3>1, <4>1 DEF SameResponse, SameRow, Within, serverVars, headVars
      <4>3. body' = Data(r.k, r.got)
        BY <1>1, <1>6, <4>1 DEF SameResponse, SameRow
      <4>4. r.got <= MaxBody /\ remains' = r.left /\ r.left > 0 /\ r.got + r.left <= MaxBody
        <5>1. /\ remains' = p.left - 1 /\ p.left # 1 /\ p.got \in Nat /\ p.left \in Nat
              /\ p.left > 0 /\ p.got + p.left <= MaxBody /\ MaxBody \in Nat
          BY <1>1, <1>5, <2>2, FramingAssumption
        <5>2. r.got = p.got + 1 /\ r.left = p.left - 1
          BY <4>1
        <5> QED BY <5>1, <5>2
      <4>5. ReadsBody(r)'
        BY <3>1, <4>1, <4>2, <4>3, <4>4 DEF ReadsBody, Within, Data
      <4> QED BY <3>1, <4>5 DEF Reads, ReadsChunks
    <3>4. interimCount' <= MaxInterim /\ headersCount' <= MaxHeaders
      BY <1>1, <1>3, TypesOf DEF headVars
    <3>5. ReaderInv'
      BY <1>1, <1>2, <3>3, <3>4, TakesToken
    <3> QED BY <3>1, <3>2, <3>5, TypesOf
  <2> QED BY <2>1, <2>2
<1>9. TypeOK'
  <2>1. remains' \in Nat
    BY <1>1, <1>5
  <2>2. phase' \in Running
    BY <1>1 DEF Running
  <2>3. body' \in Seq(Tokens)
    BY <1>1, <1>6
  <2> QED BY <1>1, <1>3, <1>8, <2>1, <2>2, <2>3, TypesOf, ReaderTypes DEF headVars
<1> QED BY <1>7, <1>8, <1>9 DEF FramingInv

LEMMA ReadUntilCloseKeeps ==
    ASSUME FramingInv, ReadUntilClose
    PROVE  FramingInv'
<1>1. /\ phase = "close" /\ input # <<>> /\ input' = Tail(input)
      /\ body' = Append(body, NextToken)
      /\ phase' = IF Len(body) + 1 > MaxBody THEN "invalid" ELSE "close"
      /\ UNCHANGED serverVars /\ UNCHANGED headVars
      /\ remains' = remains /\ delivered' = delivered
  BY DEF ReadUntilClose, Goes, TooBig
<1>2. PICK p, r : Between(p, r)
  BY <1>1, TokenNext DEF Running
<1>3. ~cut /\ Tail(input) \in Seq(Tokens) /\ phase \in Running
  BY <1>1, TokenNext DEF Running
<1>4. p \in Positions /\ r \in Positions /\ Reads(p)
  BY <1>2 DEF Between
<1>5. /\ p.k = Len(delivered) + 1 /\ p.k \in DOMAIN sent
      /\ p.got \in Nat /\ p.left \in Nat /\ Within(p) /\ status = sent[p.k].status
      /\ (Bad(p.k) <=> p.got + p.left > MaxBody) /\ p.at = "rest"
  BY <1>1, <1>4, InBody
<1>6. /\ Append(body, NextToken) = Data(p.k, p.got + 1)
      /\ Append(body, NextToken) \in Seq(Tokens) /\ Len(body) = p.got /\ p.left > 0
      /\ r.at = p.at /\ SameResponse(p, r) /\ r.got = p.got + 1 /\ r.left = p.left - 1
  BY <1>1, <1>2, NextUnit
<1>7. p.got + 1 > MaxBody => \E i \in DOMAIN sent : Bad(i)
  <2>1. p.got + 1 > MaxBody => Bad(p.k)
    BY <1>5, <1>6, FramingAssumption
  <2> QED BY <1>5, <2>1
<1>8. ReaderInv'
  <2>1. ASSUME phase' \in Running
        PROVE  Reads(r)' /\ interimCount' <= MaxInterim /\ headersCount' <= MaxHeaders
    <3>1. phase' = "close" /\ r.got <= MaxBody
      BY <1>1, <1>5, <1>6, <2>1, FramingAssumption DEF Running
    <3>2. r.k = Len(delivered') + 1 /\ Within(r) /\ status' = sent'[r.k].status
      BY <1>1, <1>5, <1>6 DEF SameResponse, SameRow, Within, serverVars, headVars
    <3>3. body' = Data(r.k, r.got)
      BY <1>1, <1>6 DEF SameResponse, SameRow
    <3>4. ReadsBody(r)'
      BY <1>5, <1>6, <3>1, <3>2, <3>3 DEF ReadsBody, Within, Data
    <3>5. interimCount' <= MaxInterim /\ headersCount' <= MaxHeaders
      BY <1>1, <1>3, TypesOf DEF headVars
    <3> QED BY <3>1, <3>4, <3>5 DEF Reads, ReadsChunks
  <2> QED BY <1>1, <1>2, <2>1, TakesToken
<1>9. DeliveredInv' /\ SentInv'
  BY <1>1, <1>3, <1>6, <1>7, NothingDelivered, ServerUntouched
<1>10. TypeOK'
  <2>1. phase' \in Running \cup {"stopped", "invalid", "failed"} /\ body' \in Seq(Tokens)
    BY <1>1, <1>6 DEF Running
  <2> QED BY <1>1, <1>3, <2>1, TypesOf, ReaderTypes DEF headVars
<1> QED BY <1>8, <1>9, <1>10 DEF FramingInv

LEMMA EndOfBodyKeeps ==
    ASSUME FramingInv, EndOfBody
    PROVE  FramingInv'
<1>1. /\ phase = "close" /\ input = <<>> /\ closed /\ phase' = "stopped"
      /\ delivered' = Append(delivered, [status |-> status, kind |-> "close", body |-> body,
                                         whole |-> TRUE])
      /\ UNCHANGED serverVars /\ UNCHANGED headVars
      /\ input' = input /\ remains' = remains /\ body' = body
  BY DEF EndOfBody, Goes, Deliver
<1>2. PICK p \in Positions : Reads(p) /\ (~cut => p.left = 0)
  <2>1. PICK p \in Positions, q \in Positions :
                Reads(p) /\ Leads(Positions, p, input, q) /\ (~cut => ServerAt(q))
    BY <1>1 DEF FramingInv, ReaderInv, Running
  <2>2. p = q
    BY <1>1, <2>1, TypesOf, LeadsEnds
  <2> QED BY <1>1, <2>1, <2>2 DEF ServerAt
<1>3. /\ p.k = Len(delivered) + 1 /\ p.k \in DOMAIN sent
      /\ p.got \in Nat /\ p.left \in Nat /\ status = sent[p.k].status /\ status # 101
      /\ body = Data(p.k, p.got) /\ p.got <= MaxBody
      /\ FollowsIn(p.k) # "chunked" /\ sent[p.k].body = Data(p.k, p.got + p.left)
      /\ (Bad(p.k) <=> p.got + p.left > MaxBody)
      /\ Len(sent[p.k].body) = p.got + p.left
  BY <1>1, <1>2, InBody
<1>4. Len(body) = p.got
  BY <1>3, DataType
<1>5. PICK d : d = [status |-> status, kind |-> "close", body |-> body, whole |-> TRUE]
  OBVIOUS
<1>6. Fits(p.k, d) /\ d \in Deliveries
  <2>1. d \in Deliveries
    BY <1>5, TypesOf DEF Deliveries
  <2>2. d.body = Data(p.k, Len(d.body)) /\ Len(d.body) <= Len(sent[p.k].body)
    BY <1>3, <1>4, <1>5
  <2>3. ~cut => d.body = sent[p.k].body
    BY <1>2, <1>3, <1>5
  <2>4. d.body = sent[p.k].body => ~Bad(p.k)
    BY <1>3, <1>4, <1>5, FramingAssumption
  <2>5. chunking => p.k < Len(sent)
    BY <1>3, NotChunking
  <2> QED BY <1>3, <1>5, <2>1, <2>2, <2>3, <2>4, <2>5 DEF Fits
<1>7. DeliveredInv' /\ Len(delivered') <= Len(asked)
  <2>1. delivered' = Append(delivered, d) /\ phase' # "invalid"
    BY <1>1, <1>5
  <2> QED BY <1>1, <1>3, <1>6, <2>1, DeliversOne
<1>8. SentInv'
  BY <1>1, ServerUntouched
<1>9. ReaderInv'
  BY <1>1 DEF ReaderInv, Running
<1>10. TypeOK'
  BY <1>1, <1>7, TypesOf, ReaderTypes DEF headVars
<1> QED BY <1>7, <1>8, <1>9, <1>10 DEF FramingInv

\* Where the loop is in a chunked body.
LEMMA InChunks ==
    ASSUME FramingInv, phase \in {"chunkSize", "chunk", "chunkEnd", "lastChunk"},
           NEW p \in Positions, Reads(p)
    PROVE  /\ phase = "chunkSize" => p.at = "size"
           /\ phase = "chunk" => p.at = "data"
           /\ phase = "chunkEnd" => p.at = "crlf"
           /\ phase = "lastChunk" => p.at = "last"
           /\ p.k = Len(delivered) /\ p.k \in Nat \ {0} /\ p.k \in DOMAIN sent
           /\ p.got \in Nat /\ p.left \in Nat /\ interimCount = 0
           /\ p.got <= Len(sent[p.k].body) /\ Len(sent[p.k].body) \in Nat
           /\ p.at = "data" => p.left > 0 /\ p.got + p.left <= Len(sent[p.k].body)
           /\ p.at = "last" => /\ p.got = Len(sent[p.k].body) /\ ~Bad(p.k)
                               /\ chunking => p.k < Len(sent)
           /\ sent[p.k].body = Data(p.k, Len(sent[p.k].body))
<1>1. /\ phase = "chunkSize" => p.at = "size"
      /\ phase = "chunk" => p.at = "data"
      /\ phase = "chunkEnd" => p.at = "crlf"
      /\ phase = "lastChunk" => p.at = "last"
      /\ p.k = Len(delivered) /\ interimCount = 0
  BY DEF Reads, ReadsChunks, HandedOver
<1>2. /\ p.k \in Nat \ {0} /\ p.got \in Nat /\ p.left \in Nat /\ ChunkLinked(p)
  BY PositionType DEF Linked
<1>3. p.at \in {"size", "data", "crlf", "last"}
  BY <1>1
<1>4. p.k \in DOMAIN sent
  BY <1>2, <1>3 DEF ChunkLinked
<1>5. Len(sent[p.k].body) \in Nat
  <2>1. sent[p.k] \in Responses
    BY <1>4, TypesOf, ElementOfSeq
  <2> QED BY <2>1, LenProperties DEF Responses
<1>6. sent[p.k].body = Data(p.k, Len(sent[p.k].body))
  BY <1>4 DEF FramingInv, SentInv
<1> QED BY <1>1, <1>2, <1>3, <1>4, <1>5, <1>6 DEF ChunkLinked

LEMMA NextOfChunks ==
    ASSUME FramingInv, phase \in {"chunkSize", "chunk", "chunkEnd", "lastChunk"}, input # <<>>
    PROVE  /\ ~cut /\ Tail(input) \in Seq(Tokens) /\ NextToken \in Tokens /\ phase \in Running
           /\ \E p, r : /\ Between(p, r) /\ p \in Positions /\ r \in Positions /\ Reads(p)
                        /\ ChunkStep(p, NextToken, r)
<1>1. phase \in Running
  BY DEF Running
<1>2. PICK p, r : Between(p, r)
  BY <1>1, TokenNext
<1>3. p \in Positions /\ r \in Positions /\ Reads(p) /\ Step(p, NextToken, r)
  BY <1>2 DEF Between
<1>4. p.at \in {"size", "data", "crlf", "last"}
  BY <1>3, InChunks
<1>5. ChunkStep(p, NextToken, r)
  BY <1>3, <1>4 DEF Step, LineStep, InterimStep, HeaderStep, EndStep, BodyStep
<1> QED BY <1>1, <1>2, <1>3, <1>5, TokenNext

\* The response whose chunks the loop reads.
LEMMA BeingRead ==
    ASSUME FramingInv, NEW k \in Nat \ {0}, k = Len(delivered)
    PROVE  delivered[k] \in Deliveries /\ Fits(k, delivered[k])
<1>1. delivered \in Seq(Deliveries) /\ k \in 1 .. Len(delivered) /\ DOMAIN delivered = 1 .. Len(delivered)
  BY TypesOf, LenProperties
<1> QED BY <1>1, ElementOfSeq DEF FramingInv, DeliveredInv

LEMMA ReadChunkSizeKeeps ==
    ASSUME FramingInv, ReadChunkSize
    PROVE  FramingInv'
<1>1. /\ phase = "chunkSize" /\ input # <<>> /\ input' = Tail(input) /\ NextToken.t = "size"
      /\ remains' = NextToken.v /\ body' = <<>>
      /\ phase' = IF NextToken.v = 0 THEN "lastChunk"
                  ELSE IF NextToken.v > MaxChunk THEN "invalid" ELSE "chunk"
      /\ UNCHANGED serverVars /\ UNCHANGED headVars
      /\ delivered' = delivered
  BY DEF ReadChunkSize, Take, Goes, TooBigChunk
<1>2. /\ ~cut /\ Tail(input) \in Seq(Tokens) /\ NextToken \in Tokens /\ phase \in Running
  BY <1>1, NextOfChunks
<1>3. PICK p, r : /\ Between(p, r) /\ p \in Positions /\ r \in Positions /\ Reads(p)
                  /\ ChunkStep(p, NextToken, r)
  BY <1>1, NextOfChunks
<1>4. HandedOver(p.k, p.got) /\ p.at = "size"
  BY <1>1, <1>3 DEF Reads, ReadsChunks
<1>5. /\ r.k = p.k /\ r.got = p.got
      /\ IF NextToken.v = 0 THEN r.at = "last" ELSE r.at = "data" /\ r.left = NextToken.v
  BY <1>3, <1>4 DEF ChunkStep
<1>6. ChunkLinked(r) /\ r.got \in Nat /\ r.left \in Nat
  BY <1>3, PositionType DEF Linked
<1>7. HandedOver(r.k, r.got)'
  BY <1>1, <1>4, <1>5 DEF HandedOver, headVars, Data
<1>8. NextToken.v # 0 /\ NextToken.v > MaxChunk => \E i \in DOMAIN sent : Bad(i)
  BY <1>5, <1>6 DEF ChunkLinked
<1>9. ReaderInv'
  <2>1. ASSUME phase' \in Running
        PROVE  Reads(r)' /\ interimCount' <= MaxInterim /\ headersCount' <= MaxHeaders
    <3>1. interimCount' <= MaxInterim /\ headersCount' <= MaxHeaders
      BY <1>1, <1>2, TypesOf DEF headVars
    <3>2. CASE NextToken.v = 0
      BY <1>1, <1>5, <1>7, <3>1, <3>2 DEF Reads, ReadsChunks
    <3>3. CASE NextToken.v # 0
      <4>1. phase' = "chunk" /\ r.at = "data" /\ remains' = r.left
        BY <1>1, <1>5, <2>1, <3>3 DEF Running
      <4>2. r.got \in 0 .. r.got /\ body' = Data(r.k, r.got - r.got)
        BY <1>1, <1>6, DataType
      <4>3. \E m \in 0 .. r.got : body' = Data(r.k, r.got - m) /\ HandedOver(r.k, m)'
        BY <1>7, <4>2
      <4>4. \E m \in 0 .. r.got : body' = Data(r.k, r.got - m)' /\ HandedOver(r.k, m)'
        BY <4>3 DEF Data
      <4> QED BY <3>1, <4>1, <4>4 DEF Reads, ReadsChunks
    <3> QED BY <3>2, <3>3
  <2> QED BY <1>1, <1>3, <2>1, TakesToken
<1>10. DeliveredInv' /\ SentInv'
  BY <1>1, <1>2, <1>8, NothingDelivered, ServerUntouched
<1>11. TypeOK'
  <2>1. phase' \in Running \cup {"stopped", "invalid", "failed"} /\ body' \in Seq(Tokens)
    BY <1>1, EmptySeq DEF Running
  <2>2. remains' \in Nat
    BY <1>1, <1>2 DEF Tokens
  <2> QED BY <1>1, <1>2, <2>1, <2>2, TypesOf, ReaderTypes DEF headVars
<1> QED BY <1>9, <1>10, <1>11 DEF FramingInv

LEMMA ReadChunkKeeps ==
    ASSUME FramingInv, ReadChunk
    PROVE  FramingInv'
<1>1. /\ phase = "chunk" /\ input # <<>> /\ input' = Tail(input)
      /\ remains' = remains - 1 /\ body' = Append(body, NextToken)
      /\ IF remains = 1
         THEN /\ phase' = "chunkEnd"
              /\ delivered' = [delivered EXCEPT ![Len(delivered)].body = @ \o Append(body, NextToken),
                                                ![Len(delivered)].whole = FALSE]
         ELSE delivered' = delivered /\ phase' = phase
      /\ UNCHANGED serverVars /\ UNCHANGED headVars
  BY DEF ReadChunk, Goes, LastUnit, ToLastBody
<1>2. /\ ~cut /\ Tail(input) \in Seq(Tokens) /\ NextToken \in Tokens /\ phase \in Running
  BY <1>1, NextOfChunks
<1>3. PICK p, r : /\ Between(p, r) /\ p \in Positions /\ r \in Positions /\ Reads(p)
                  /\ ChunkStep(p, NextToken, r)
  BY <1>1, NextOfChunks
<1>4. /\ p.at = "data" /\ p.k = Len(delivered) /\ p.k \in Nat \ {0} /\ p.k \in DOMAIN sent
      /\ p.got \in Nat /\ p.left \in Nat /\ interimCount = 0
      /\ p.left > 0 /\ p.got + p.left <= Len(sent[p.k].body) /\ Len(sent[p.k].body) \in Nat
      /\ remains = p.left
  BY <1>1, <1>3, InChunks DEF Reads, ReadsChunks
<1>5. PICK m \in 0 .. p.got : body = Data(p.k, p.got - m) /\ HandedOver(p.k, m)
  BY <1>1, <1>3 DEF Reads, ReadsChunks
<1>6. /\ NextToken = Token("data", p.k) /\ r.k = p.k /\ r.got = p.got + 1
      /\ IF p.left = 1 THEN r.at = "crlf" ELSE r.at = "data" /\ r.left = p.left - 1
  BY <1>3, <1>4 DEF ChunkStep
<1>7. /\ Append(body, NextToken) = Data(p.k, r.got - m)
      /\ Data(p.k, m) \o Data(p.k, r.got - m) = Data(p.k, r.got)
      /\ Data(p.k, r.got - m) \in Seq(Tokens) /\ Data(p.k, r.got) \in Seq(Tokens)
      /\ Len(Data(p.k, r.got)) = r.got /\ m \in 0 .. r.got
  <2>1. /\ p.got - m \in Nat /\ (p.got - m) + 1 = r.got - m /\ r.got - m \in Nat /\ r.got \in Nat
        /\ m + (r.got - m) = r.got /\ m \in Nat /\ m \in 0 .. r.got
    <3>1. p.got \in Nat /\ m \in 0 .. p.got /\ r.got = p.got + 1
      BY <1>4, <1>5, <1>6
    <3> QED BY <3>1
  <2>2. \A n, j \in Nat : /\ Append(Data(p.k, n), Token("data", p.k)) = Data(p.k, n + 1)
                          /\ Data(p.k, n) \o Data(p.k, j) = Data(p.k, n + j)
    BY <1>4, DataGrows
  <2>3. /\ Append(Data(p.k, p.got - m), Token("data", p.k)) = Data(p.k, (p.got - m) + 1)
        /\ Data(p.k, m) \o Data(p.k, r.got - m) = Data(p.k, m + (r.got - m))
    BY <2>1, <2>2
  <2>4. /\ Data(p.k, r.got - m) \in Seq(Tokens) /\ Data(p.k, r.got) \in Seq(Tokens)
        /\ Len(Data(p.k, r.got)) = r.got
    BY <1>4, <2>1, DataType
  <2> QED BY <1>5, <1>6, <2>1, <2>3, <2>4
<1>8. SentInv'
  BY <1>1, <1>2, ServerUntouched
<1>9. interimCount' = interimCount /\ interimCount' <= MaxInterim /\ headersCount' <= MaxHeaders
  BY <1>1, <1>2, TypesOf DEF headVars
<1>10. DeliveredInv' /\ ReaderInv' /\ Len(delivered') = Len(delivered)
  <2>1. CASE remains = 1
    <3>1. delivered[p.k] \in Deliveries /\ Fits(p.k, delivered[p.k])
      BY <1>4, BeingRead
    <3>2. PICK d : d = [delivered[p.k] EXCEPT !.body = Data(p.k, r.got), !.whole = FALSE]
      OBVIOUS
    <3>3. /\ d \in Deliveries /\ d.body = Data(p.k, r.got) /\ d.whole = FALSE
          /\ d.status = delivered[p.k].status /\ d.kind = delivered[p.k].kind
      BY <1>7, <3>1, <3>2 DEF Deliveries
    <3>4. Fits(p.k, d)
      <4>1. Len(d.body) <= Len(sent[p.k].body)
        <5>1. /\ p.got \in Nat /\ p.left \in Nat /\ p.left > 0
              /\ p.got + p.left <= Len(sent[p.k].body) /\ Len(sent[p.k].body) \in Nat
          BY <1>4
        <5>2. Len(d.body) = p.got + 1
          BY <1>6, <1>7, <3>3
        <5> QED BY <5>1, <5>2
      <4> QED BY <1>7, <3>1, <3>3, <4>1 DEF Fits
    <3>5. delivered' = [delivered EXCEPT ![p.k] = d]
      <4>1. delivered[p.k].body \o Append(body, NextToken) = Data(p.k, r.got)
        BY <1>5, <1>7 DEF HandedOver
      <4>2. delivered' = [delivered EXCEPT ![p.k].body = @ \o Append(body, NextToken),
                                           ![p.k].whole = FALSE]
        BY <1>1, <1>4, <2>1
      <4>3. p.k \in DOMAIN delivered
        BY <1>4, TypesOf, LenProperties
      <4> QED BY <3>2, <4>1, <4>2, <4>3
    <3>6. DeliveredInv' /\ Len(delivered') = p.k /\ delivered'[p.k] = d
      BY <1>1, <1>4, <2>1, <3>3, <3>4, <3>5, AmendsLast
    <3>7. HandedOver(r.k, r.got)'
      BY <1>4, <1>5, <1>6, <1>9, <3>3, <3>6 DEF HandedOver, Data
    <3>8. Reads(r)'
      BY <1>1, <1>4, <1>6, <2>1, <3>7 DEF Reads, ReadsChunks
    <3>9. ReaderInv'
      BY <1>1, <1>3, <1>9, <3>8, TakesToken
    <3> QED BY <1>4, <3>6, <3>9
  <2>2. CASE remains # 1
    <3>1. delivered' = delivered /\ phase' = "chunk"
      BY <1>1, <2>2
    <3>2. HandedOver(r.k, m)' /\ body' = Data(r.k, r.got - m)'
      BY <1>1, <1>5, <1>6, <1>7, <1>9, <3>1 DEF HandedOver, Data
    <3>3. r.at = "data" /\ remains' = r.left
      BY <1>1, <1>4, <1>6, <2>2
    <3>4. Reads(r)'
      BY <1>7, <3>1, <3>2, <3>3 DEF Reads, ReadsChunks
    <3>5. ReaderInv'
      BY <1>1, <1>3, <1>9, <3>4, TakesToken
    <3>6. DeliveredInv'
      BY <1>1, <3>1, NothingDelivered
    <3> QED BY <3>1, <3>5, <3>6
  <2> QED BY <2>1, <2>2
<1>11. TypeOK'
  <2>1. phase' \in Running \cup {"stopped", "invalid", "failed"} /\ body' \in Seq(Tokens)
    BY <1>1, <1>7 DEF Running
  <2>2. remains' \in Nat /\ Len(delivered') <= Len(asked)
    <3>1. remains' = remains - 1 /\ remains \in Nat /\ remains > 0
      BY <1>1, <1>4
    <3>2. Len(delivered') <= Len(asked)
      BY <1>10, TypesOf
    <3> QED BY <3>1, <3>2
  <2> QED BY <1>1, <1>2, <2>1, <2>2, TypesOf, ReaderTypes DEF headVars
<1> QED BY <1>8, <1>10, <1>11 DEF FramingInv

LEMMA SkipSeparatorKeeps ==
    ASSUME FramingInv, SkipSeparator
    PROVE  FramingInv'
<1>1. /\ phase = "chunkEnd" /\ input # <<>> /\ input' = Tail(input) /\ phase' = "chunkSize"
      /\ UNCHANGED serverVars /\ UNCHANGED headVars
      /\ remains' = remains /\ body' = body /\ delivered' = delivered
  BY DEF SkipSeparator, Goes
<1>2. /\ ~cut /\ Tail(input) \in Seq(Tokens) /\ phase \in Running
  BY <1>1, NextOfChunks
<1>3. PICK p, r : /\ Between(p, r) /\ p \in Positions /\ r \in Positions /\ Reads(p)
                  /\ ChunkStep(p, NextToken, r)
  BY <1>1, NextOfChunks
<1>4. HandedOver(p.k, p.got) /\ p.at = "crlf"
  BY <1>1, <1>3 DEF Reads, ReadsChunks
<1>5. r.at = "size" /\ r.k = p.k /\ r.got = p.got
  BY <1>3, <1>4 DEF ChunkStep
<1>6. HandedOver(r.k, r.got)'
  BY <1>1, <1>4, <1>5 DEF HandedOver, headVars, Data
<1>7. Reads(r)'
  BY <1>1, <1>5, <1>6 DEF Reads, ReadsChunks
<1>8. interimCount' <= MaxInterim /\ headersCount' <= MaxHeaders
  BY <1>1, <1>2, TypesOf DEF headVars
<1>9. ReaderInv'
  BY <1>1, <1>3, <1>7, <1>8, TakesToken
<1>10. DeliveredInv' /\ SentInv'
  BY <1>1, <1>2, NothingDelivered, ServerUntouched
<1>11. TypeOK'
  <2>1. phase' \in Running
    BY <1>1 DEF Running
  <2> QED BY <1>1, <1>2, <2>1, TypesOf, ReaderTypes DEF headVars
<1> QED BY <1>9, <1>10, <1>11 DEF FramingInv

LEMMA SkipLastKeeps ==
    ASSUME FramingInv, SkipLast
    PROVE  FramingInv'
<1>1. /\ phase = "lastChunk" /\ input # <<>> /\ input' = Tail(input) /\ phase' = "status"
      /\ delivered' = [delivered EXCEPT ![Len(delivered)].body = @ \o <<>>,
                                        ![Len(delivered)].whole = TRUE]
      /\ UNCHANGED serverVars /\ UNCHANGED headVars
      /\ remains' = remains /\ body' = body
  BY DEF SkipLast, Goes, ToLastBody
<1>2. /\ ~cut /\ Tail(input) \in Seq(Tokens) /\ phase \in Running
  BY <1>1, NextOfChunks
<1>3. PICK p, r : /\ Between(p, r) /\ p \in Positions /\ r \in Positions /\ Reads(p)
                  /\ ChunkStep(p, NextToken, r)
  BY <1>1, NextOfChunks
<1>4. /\ p.at = "last" /\ p.k = Len(delivered) /\ p.k \in Nat \ {0} /\ p.k \in DOMAIN sent
      /\ p.got \in Nat /\ interimCount = 0
      /\ p.got = Len(sent[p.k].body) /\ ~Bad(p.k) /\ (chunking => p.k < Len(sent))
      /\ sent[p.k].body = Data(p.k, p.got)
  BY <1>1, <1>3, InChunks
<1>5. HandedOver(p.k, p.got)
  BY <1>1, <1>3 DEF Reads, ReadsChunks
<1>6. Begins(r, p.k + 1)
  BY <1>3, <1>4 DEF ChunkStep
<1>7. delivered[p.k] \in Deliveries /\ Fits(p.k, delivered[p.k])
  BY <1>4, BeingRead
<1>8. PICK d : d = [delivered[p.k] EXCEPT !.whole = TRUE]
  OBVIOUS
<1>9. /\ d \in Deliveries /\ d.body = Data(p.k, p.got) /\ d.whole = TRUE
      /\ d.status = delivered[p.k].status /\ d.kind = delivered[p.k].kind
      /\ d.body = delivered[p.k].body
  BY <1>5, <1>7, <1>8 DEF Deliveries, HandedOver
<1>10. Fits(p.k, d)
  BY <1>4, <1>7, <1>9 DEF Fits
<1>11. delivered' = [delivered EXCEPT ![p.k] = d]
  <2>1. delivered[p.k].body \o <<>> = delivered[p.k].body
    <3>1. delivered[p.k].body \in Seq(Tokens)
      BY <1>7 DEF Deliveries
    <3> QED BY <3>1, ConcatEmptySeq
  <2>2. delivered' = [delivered EXCEPT ![p.k].body = @ \o <<>>, ![p.k].whole = TRUE]
    BY <1>1, <1>4
  <2>3. delivered[p.k] = [delivered[p.k] EXCEPT !.body = delivered[p.k].body]
    BY <1>7 DEF Deliveries
  <2>4. p.k \in DOMAIN delivered
    BY <1>4, TypesOf, LenProperties
  <2> QED BY <1>7, <1>8, <2>1, <2>2, <2>3, <2>4
<1>12. DeliveredInv' /\ Len(delivered') = p.k /\ delivered'[p.k] = d
  BY <1>1, <1>4, <1>9, <1>10, <1>11, AmendsLast
<1>13. SentInv'
  BY <1>1, <1>2, ServerUntouched
<1>14. ReaderInv'
  <2>1. interimCount' = 0 /\ headersCount' = headersCount
    BY <1>1, <1>4 DEF headVars
  <2> QED BY <1>1, <1>2, <1>3, <1>6, <1>12, <2>1, NextResponse
<1>15. TypeOK'
  <2>1. phase' \in Running
    BY <1>1 DEF Running
  <2>2. Len(delivered') <= Len(asked)
    BY <1>4, <1>12, TypesOf
  <2> QED BY <1>1, <1>2, <2>1, <2>2, TypesOf, ReaderTypes DEF headVars
<1> QED BY <1>12, <1>13, <1>14, <1>15 DEF FramingInv

LEMMA ReadMalformedKeeps ==
    ASSUME FramingInv, ReadMalformed
    PROVE  FramingInv'
<1>1. /\ phase \in {"status", "headers", "chunkSize"} /\ input # <<>> /\ input' = Tail(input)
      /\ NextToken.t \notin Parsed(phase) /\ phase' = "invalid"
      /\ UNCHANGED serverVars /\ UNCHANGED headVars
      /\ remains' = remains /\ body' = body /\ delivered' = delivered
  BY DEF ReadMalformed, Goes
<1>2. /\ ~cut /\ Tail(input) \in Seq(Tokens) /\ phase \in Running
  BY <1>1, TokenNext DEF Running
<1>3. PICK p, r : Between(p, r)
  BY <1>1, <1>2, TokenNext
<1>4. p \in Positions /\ r \in Positions /\ Reads(p) /\ Step(p, NextToken, r)
  BY <1>3 DEF Between
<1>5. r.at = "over"
  <2>1. CASE phase = "status"
    <3>1. p.at = "line" /\ NextToken.t # "status"
      BY <1>1, <1>4, <2>1 DEF Reads, ReadsStatus, Parsed
    <3>2. LineStep(p, NextToken, r)
      BY <1>4, <3>1 DEF Step, InterimStep, HeaderStep, EndStep, BodyStep, ChunkStep
    <3> QED BY <3>1, <3>2 DEF LineStep, Garbled, Token
  <2>2. CASE phase = "headers"
    <3>1. p.at \in {"interimHeader", "interimEnd", "head"}
          /\ NextToken.t \notin HeaderKinds \cup {"end"}
      BY <1>1, <1>4, <2>2 DEF Reads, ReadsHeaders, Parsed
    <3>2. InterimStep(p, NextToken, r)
      BY <1>4, <3>1 DEF Step, LineStep, HeaderStep, EndStep, BodyStep, ChunkStep, Token
    <3> QED BY <3>1, <3>2 DEF InterimStep, Garbled, Token, HeaderKinds
  <2>3. CASE phase = "chunkSize"
    <3>1. p.at = "size" /\ NextToken.t # "size"
      BY <1>1, <1>4, <2>3 DEF Reads, ReadsChunks, Parsed
    <3> QED BY <1>4, <3>1 DEF Step, LineStep, InterimStep, HeaderStep, EndStep, BodyStep, ChunkStep
  <2> QED BY <1>1, <2>1, <2>2, <2>3
<1>6. \E i \in DOMAIN sent : Bad(i)
  BY <1>4, <1>5, PositionType DEF Linked, OverLinked
<1>7. DeliveredInv' /\ SentInv'
  BY <1>1, <1>2, <1>6, NothingDelivered, ServerUntouched
<1>8. ReaderInv'
  BY <1>1 DEF ReaderInv, Running
<1>9. TypeOK'
  BY <1>1, <1>2, TypesOf, ReaderTypes DEF headVars
<1> QED BY <1>7, <1>8, <1>9 DEF FramingInv

LEMMA ReadEndsKeeps ==
    ASSUME FramingInv, ReadEnds
    PROVE  FramingInv'
<1>1. /\ phase' = "failed" /\ UNCHANGED serverVars /\ UNCHANGED headVars /\ input' = input
      /\ remains' = remains /\ body' = body /\ delivered' = delivered
  BY DEF ReadEnds, Goes
<1>2. DeliveredInv' /\ SentInv'
  BY <1>1, NothingDelivered, ServerUntouched
<1>3. ReaderInv'
  BY <1>1 DEF ReaderInv, Running
<1>4. TypeOK'
  BY <1>1, TypesOf, ReaderTypes DEF headVars
<1> QED BY <1>2, <1>3, <1>4 DEF FramingInv

LEMMA ReadKeeps ==
    ASSUME FramingInv, Read
    PROVE  FramingInv'
BY ReadStatusKeeps, ReadHeaderKeeps, SkipInterimKeeps, StopForUpgradeKeeps, DeliverEmptyKeeps,
   BeginLengthKeeps, BeginChunkedKeeps, BeginUntilCloseKeeps, ReadBodyKeeps, ReadUntilCloseKeeps,
   EndOfBodyKeeps, ReadChunkSizeKeeps, ReadChunkKeeps, SkipSeparatorKeeps, SkipLastKeeps,
   ReadMalformedKeeps, ReadEndsKeeps
   DEF Read
-----------------------------------------------------------------------------
(* Theorems *)

LEMMA FramingInvInit ==
    ASSUME Init
    PROVE  FramingInv
<1>1. /\ asked = <<>> /\ sent = <<>> /\ input = <<>> /\ chunking = FALSE /\ closed = FALSE
      /\ cut = FALSE /\ phase = "status" /\ status = 200 /\ detected = Unknown
      /\ headersCount = 0 /\ interimCount = 0 /\ remains = 0 /\ body = <<>> /\ delivered = <<>>
  BY DEF Init
<1>2. Len(<<>>) = 0 /\ DOMAIN <<>> = {} /\ \A T : <<>> \in Seq(T)
  BY EmptySeq
<1>3. Unknown \in Detections /\ 0 \in 0 .. (MaxHeaders + 1) /\ 0 \in 0 .. (MaxInterim + 1)
  BY FramingAssumption DEF Unknown, Size, Detections
<1>4. TypeOK
  <2>1. /\ asked \in Seq(Methods) /\ input \in Seq([t : TokenKinds, v : Nat])
        /\ sent \in Seq([status : Codes, framing : Framings, body : Seq(Units), bad : BOOLEAN])
        /\ body \in Seq([t : TokenKinds, v : Nat])
    BY <1>1, EmptySeq
  <2>2. /\ detected \in [size : {"unknown", "known", "chunked", "upgrade"}, n : Nat]
        /\ headersCount \in 0 .. (MaxHeaders + 1) /\ interimCount \in 0 .. (MaxInterim + 1)
    BY <1>1, <1>3 DEF Detections
  <2>3. phase \in Running \cup {"stopped", "invalid", "failed"} /\ status \in Codes
    BY <1>1 DEF Running, Codes
  <2>4. Len(sent) <= Len(asked) /\ Len(delivered) <= Len(asked) /\ remains \in Nat
    BY <1>1, <1>2
  <2>5. chunking \in BOOLEAN /\ closed \in BOOLEAN /\ cut \in BOOLEAN
    BY <1>1
  <2> QED BY <2>1, <2>2, <2>3, <2>4, <2>5 DEF TypeOK
<1>5. SentInv /\ DeliveredInv
  BY <1>1, <1>2, FramingAssumption DEF SentInv, DeliveredInv
<1> DEFINE p == LineAt("line", 1, 0)
<1>6. p \in Positions /\ p.at = "line" /\ p.k = 1 /\ p.interims = 0
  <2>1. p \in Position
    BY LineType
  <2>2. p.at = "line" /\ p.k = 1 /\ p.interims = 0
    BY DEF LineAt
  <2> HIDE DEF p
  <2>3. Linked(p)
    BY <2>2, FramingAssumption
       DEF Linked, LineLinked, OverLinked, HeadLinked, BodyLinked, ChunkLinked
  <2> QED BY <2>1, <2>2, <2>3 DEF Positions
<1> HIDE DEF p
<1>7. Reads(p)
  BY <1>1, <1>2, <1>6 DEF Reads, ReadsStatus, ReadsChunks
<1>8. Leads(Positions, p, input, p)
  BY <1>1, <1>6, LeadsNowhere
<1>9. ServerAt(p)
  BY <1>1, <1>2, <1>6 DEF ServerAt, Begins
<1>10. ReaderInv
  BY <1>1, <1>6, <1>7, <1>8, <1>9, FramingAssumption DEF ReaderInv
<1> QED BY <1>4, <1>5, <1>10 DEF FramingInv

LEMMA FramingInvStutter ==
    ASSUME FramingInv, UNCHANGED vars
    PROVE  FramingInv'
<1>1. /\ UNCHANGED serverVars /\ UNCHANGED headVars /\ input' = input /\ phase' = phase
      /\ remains' = remains /\ body' = body /\ delivered' = delivered
  BY DEF vars
<1>2. TypeOK' /\ SentInv' /\ DeliveredInv'
  <2>1. SentInv'
    BY <1>1, ServerUntouched
  <2>2. DeliveredInv'
    BY <1>1, NothingDelivered
  <2>3. TypeOK'
    BY <1>1, TypesOf, ReaderTypes DEF headVars
  <2> QED BY <2>1, <2>2, <2>3
<1>3. ReaderInv'
  <2>1. \A p : Reads(p)' <=> Reads(p)
    BY <1>1 DEF Reads, ReadsStatus, ReadsHeaders, ReadsBody, ReadsChunks, HandedOver, Within, Data,
                serverVars, headVars
  <2>2. Positions' = Positions /\ \A q : ServerAt(q)' <=> ServerAt(q)
    BY <1>1, PositionsSame
  <2>3. UNCHANGED <<phase, input, cut, interimCount, headersCount>>
    BY <1>1 DEF serverVars, headVars
  <2> QED BY <2>1, <2>2, <2>3 DEF FramingInv, ReaderInv
<1> QED BY <1>2, <1>3 DEF FramingInv

LEMMA FramingInvNext ==
    ASSUME ~AdvertisesUpgrade, FramingInv, [Next]_vars
    PROVE  FramingInv'
<1>1. ASSUME NEW m \in Methods, SendRequest(m) PROVE FramingInv'
  BY <1>1, RequestKeeps
<1>2. CASE Answer
  BY <1>2, AnswerKeeps
<1>3. ASSUME NEW n \in 1 .. (MaxChunk + 1), SendChunk(n) PROVE FramingInv'
  BY <1>3, ChunkKeeps
<1>4. CASE SendLastChunk
  BY <1>4, LastChunkKeeps
<1>5. ASSUME NEW lines \in 0 .. 1, RespondMalformed(lines) PROVE FramingInv'
  BY <1>5, MalformedKeeps
<1>6. CASE Cut
  BY <1>6, CutKeeps
<1>7. CASE Read
  BY <1>7, ReadKeeps
<1>8. CASE Returned
  BY <1>8, FramingInvStutter DEF Returned
<1>9. CASE UNCHANGED vars
  BY <1>9, FramingInvStutter
<1> QED BY <1>1, <1>2, <1>3, <1>4, <1>5, <1>6, <1>7, <1>8, <1>9 DEF Next

LEMMA FramingInvAlways ==
    ASSUME ~AdvertisesUpgrade
    PROVE  Spec => []FramingInv
<1>1. Init => FramingInv
  BY FramingInvInit
<1>2. FramingInv /\ [Next]_vars => FramingInv'
  BY FramingInvNext
<1> QED BY <1>1, <1>2, PTL DEF Spec

\* What a response handed over is, of the one the server sent.
LEMMA DeliveredIsSent ==
    ASSUME FramingInv, NEW i \in DOMAIN delivered
    PROVE  /\ Fits(i, delivered[i])
           /\ IsPrefix(delivered[i].body, sent[i].body)
<1>1. Fits(i, delivered[i])
  BY DEF FramingInv, DeliveredInv
<1>2. delivered[i] \in Deliveries
  <2>1. delivered \in Seq(Deliveries) /\ i \in 1 .. Len(delivered)
    BY TypesOf, LenProperties
  <2> QED BY <2>1, ElementOfSeq
<1>3. i \in DOMAIN sent /\ sent[i] \in Responses
  <2>1. i \in DOMAIN sent /\ i \in 1 .. Len(sent) /\ sent \in Seq(Responses)
    BY <1>1, TypesOf DEF Fits
  <2> QED BY <2>1, ElementOfSeq
<1>4. Len(delivered[i].body) \in Nat /\ Len(sent[i].body) \in Nat
  BY <1>2, <1>3, LenProperties DEF Deliveries, Responses
<1>5. /\ delivered[i].body = Data(i, Len(delivered[i].body))
      /\ sent[i].body = Data(i, Len(sent[i].body))
      /\ Len(delivered[i].body) <= Len(sent[i].body)
  BY <1>1, <1>3 DEF Fits, FramingInv, SentInv
<1>6. IsPrefix(Data(i, Len(delivered[i].body)), Data(i, Len(sent[i].body)))
  BY <1>4, <1>5, DataPrefix
<1> QED BY <1>1, <1>5, <1>6

\* The types of the state, whatever the server sends and wherever the connection breaks.
THEOREM TypeCorrect ==
    ASSUME ~AdvertisesUpgrade
    PROVE  Spec => []TypeOK
<1>1. FramingInv => TypeOK
  BY DEF FramingInv
<1> QED BY <1>1, FramingInvAlways, PTL

\* For any pipeline of requests and any responses of a correct server, of any lengths and framed in
\* any way, with any number of interim responses between them and cut off anywhere: a request gets
\* the response the server gave to it, with its body, and never a byte of another.
THEOREM NoForeignBodies ==
    ASSUME ~AdvertisesUpgrade
    PROVE  Spec => []BodiesAreTheServers
<1>1. FramingInv => BodiesAreTheServers
  <2> SUFFICES ASSUME FramingInv, NEW i \in DOMAIN delivered
               PROVE  /\ i \in DOMAIN sent
                      /\ delivered[i].status = sent[i].status
                      /\ (delivered[i].kind = "upgrade") <=> (sent[i].status = 101)
                      /\ IsPrefix(delivered[i].body, sent[i].body)
                      /\ delivered[i].whole /\ ~(cut /\ delivered[i].kind = "close")
                            => delivered[i].body = sent[i].body
    BY DEF BodiesAreTheServers
  <2> QED BY DeliveredIsSent DEF Fits
<1> QED BY <1>1, FramingInvAlways, PTL

\* Whatever the limits are: the loop gives up on a connection only for a response that is malformed
\* or exceeds one of them, and hands over no response that does with all of its body.
THEOREM OnlyTheBadAreRefused ==
    ASSUME ~AdvertisesUpgrade
    PROVE  Spec => []RefusesExactlyTheBad
<1>1. FramingInv => RefusesExactlyTheBad
  <2> SUFFICES ASSUME FramingInv PROVE RefusesExactlyTheBad
    OBVIOUS
  <2>1. phase = "invalid" => \E i \in DOMAIN sent : sent[i].bad
    BY DEF FramingInv, DeliveredInv, Bad
  <2>2. ASSUME NEW i \in DOMAIN delivered, delivered[i].whole, delivered[i].body = sent[i].body
        PROVE  ~sent[i].bad
    BY <2>2, DeliveredIsSent DEF Fits, Bad
  <2> QED BY <2>1, <2>2 DEF RefusesExactlyTheBad
<1> QED BY <1>1, FramingInvAlways, PTL
=============================================================================
