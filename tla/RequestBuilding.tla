--------------------------- MODULE RequestBuilding ---------------------------
(***************************************************************************)
(* How a request becomes bytes, and bytes a request again.  A request is   *)
(* built in one of three ways: by MyHttpRequestBuilder, from a             *)
(* MyHttpClientHeadersBuilder by MyHttpRequest::new, or from a request of  *)
(* hyper by from_hyper_request.  What comes out is a buffer, and every     *)
(* later reader searches it for separators: headers_contains, get_method,  *)
(* the iterator over headers, the conversions to hyper requests, and the   *)
(* server.                                                                 *)
(*                                                                         *)
(* The buffer is a sequence of tokens.  The separators are tokens, and so  *)
(* are the names the code looks for, in either case; "x" is any other      *)
(* text, and "1", "2" are the text of a number.  The ghost variable given  *)
(* is what the caller asked for.                                           *)
(***************************************************************************)
EXTENDS Naturals, Sequences, SequencesExt, FiniteSets

CONSTANTS
    Methods,     \* http::Method, as tokens
    Names,       \* header names a caller may pass
    Values,      \* header values a caller may pass
    HostValues,  \* those it may pass for Host: the http crate refuses others
    MaxHeaders   \* bound on the number of headers

VARIABLES
    source,   \* which of the three ways
    state,    \* of the construction: "start", "headers", "built" or "panicked"
    method,   \* of the request
    headers,  \* the buffer under construction
    body,
    given     \* history: the headers asked for, each with its value

vars == <<source, state, method, headers, body, given>>

Sources == {"builder", "new", "hyper"}
Bodies == {<<>>, <<"x">>, <<"x", "cr">>}
Space == {"sp", "tab"}
Separators == {":", "cr", "lf"} \cup Space
Tokens == Methods \cup Separators
            \cup {"x", "path", "version", "cl", "CL", "host", "HOST", "1", "2"}

\* A method is a token of RFC 9110 (http::Method); names and values are any text.
ASSUME RequestAssumption ==
    /\ MaxHeaders \in Nat
    /\ Methods \cap Separators = {}
    /\ Names \subseteq Seq(Tokens)
    /\ Values \subseteq Seq(Tokens)
    /\ HostValues \subseteq Values

CRLF == <<"cr", "lf">>

Lower(name) ==
    [i \in DOMAIN name |-> CASE name[i] = "CL" -> "cl" [] name[i] = "HOST" -> "host"
                             [] OTHER -> name[i]]

Decimal(n) == <<IF n = 1 THEN "1" ELSE "2">>

Init ==
    /\ source \in Sources
    /\ state = "start"
    /\ method \in Methods
    /\ headers = <<>>
    /\ body \in Bodies
    /\ given = <<>>
-----------------------------------------------------------------------------
(* Writing *)

ValidName(name) == name # <<>> /\ ToSet(name) \cap Separators = {}

\* Mutant: only a whole CR LF is forbidden.
ValidValueUnlessCrlf(value) == ~\E i \in 1 .. Len(value) - 1 : SubSeq(value, i, i + 1) = CRLF

ValidValue(value) == ToSet(value) \cap ToSet(CRLF) = {}

HeaderLine(name, value) == name \o <<":", "sp">> \o value \o CRLF

RequestLine == <<method, "sp", "path", "sp", "version">> \o CRLF

\* Mutant: a name that starts with the needle is taken for it.
ColonAtAlways(buf, j) == TRUE

\* The name ends at j: a colon follows, after optional white space.
ColonAt(buf, j) ==
    \E k \in j .. Len(buf) : buf[k] = ":" /\ \A i \in j .. k - 1 : buf[i] \in Space

\* headers_contains for "content-length", which is a single token.
HeadersContain(buf) ==
    \E i \in 1 .. Len(buf) - 3 :
        /\ SubSeq(buf, i, i + 1) = CRLF
        /\ Lower(SubSeq(buf, i + 2, i + 2)) = <<"cl">>
        /\ ColonAt(buf, i + 3)

NeedsLength(buf) == body # <<>> /\ ~HeadersContain(buf)

\* MyHttpRequestBuilder::new writes the request line first; the others write it when the headers
\* are known.
Start ==
    /\ state = "start"
    /\ state' = "headers"
    /\ headers' = IF source = "builder" THEN RequestLine ELSE <<>>
    /\ UNCHANGED <<source, method, body, given>>

\* append_header and add_header (write_header).  The headers of a hyper request are valid, and
\* their names are in lower case.
AddHeader(name, value) ==
    /\ state = "headers"
    /\ Len(given) < MaxHeaders
    /\ ValidName(name) /\ ValidValue(value)
    /\ source = "hyper" => Lower(name) = name
    /\ headers' = headers \o HeaderLine(name, value)
    /\ given' = Append(given, [name |-> name, value |-> value])
    /\ UNCHANGED <<source, state, method, body>>

\* validate_header_name and validate_header_value panic.
RefuseHeader(name, value) ==
    /\ state = "headers"
    /\ source # "hyper"
    /\ ~(ValidName(name) /\ ValidValue(value))
    /\ state' = "panicked"
    /\ UNCHANGED <<source, method, headers, body, given>>

\* build, build_with_body, MyHttpRequest::new, from_hyper_request.
Build ==
    /\ state = "headers"
    /\ LET buf == IF source = "builder" THEN headers ELSE RequestLine \o headers
           name == IF source = "builder" THEN <<"CL">> ELSE <<"cl">>
       IN  headers' = IF source # "hyper" /\ NeedsLength(buf)
                      THEN buf \o HeaderLine(name, Decimal(Len(body)))
                      ELSE buf
    /\ state' = "built"
    /\ UNCHANGED <<source, method, body, given>>

Done == state \in {"built", "panicked"} /\ UNCHANGED vars

Next ==
    \/ Start
    \/ \E name \in Names, value \in Values :
        /\ Lower(name) = <<"host">> => value \in HostValues
        /\ AddHeader(name, value) \/ RefuseHeader(name, value)
    \/ Build
    \/ Done

Spec == Init /\ [][Next]_vars

\* Mutant: the empty line is forgotten.
WriteToUnseparated == headers \o body

WriteTo == headers \o CRLF \o body
-----------------------------------------------------------------------------
(* Reading *)

\* Where the lines of a buffer end that end with CR LF, in order (find_next_cl_cr): SetToSortSeq,
\* in a form the provers can expand.
Ends(buf) == {i \in 1 .. Len(buf) - 1 : SubSeq(buf, i, i + 1) = CRLF}

LineEnds(buf) ==
    LET ends == Ends(buf)
    IN  [k \in 1 .. Cardinality(ends) |->
            CHOOSE e \in ends : Cardinality({d \in ends : d <= e}) = k]

\* The lines, without the CR LF.
Lines(buf) ==
    LET end == LineEnds(buf)
    IN  [k \in DOMAIN end |-> SubSeq(buf, IF k = 1 THEN 1 ELSE end[k - 1] + 2, end[k] - 1)]

TrimmedStart(text) ==
    LET kept == {i \in DOMAIN text : text[i] \notin Space}
    IN  IF kept = {} THEN <<>> ELSE SubSeq(text, CHOOSE i \in kept : \A j \in kept : i <= j, Len(text))

Trim(text) == Reverse(TrimmedStart(Reverse(TrimmedStart(text))))

Until(text, token) == SelectInSeq(text, LAMBDA t : t = token)

Before(text, token) ==
    IF Until(text, token) = 0 THEN text ELSE SubSeq(text, 1, Until(text, token) - 1)

After(text, token) ==
    IF Until(text, token) = 0 THEN <<>> ELSE SubSeq(text, Until(text, token) + 1, Len(text))

GetMethod(buf) == Before(buf, "sp")

ExtractNameAndValue(line) ==
    [name |-> Trim(Before(line, ":")), value |-> Trim(After(line, ":"))]

\* build_h1_headers: the first line, then the others.
ToHyperH1(buf) ==
    [method |-> GetMethod(Lines(buf)[1]),
     path   |-> Before(After(Lines(buf)[1], "sp"), "sp"),
     fields |-> [k \in 1 .. Len(Lines(buf)) - 1 |-> ExtractNameAndValue(Lines(buf)[k + 1])]]

\* Mutant: the name is compared byte by byte.
IsHostExactly(field) == field.name = <<"host">>

IsHost(field) == Lower(field.name) = <<"host">>

\* build_h2_headers: as above, but Host becomes the authority, the last one if there are several.
ToHyperH2(buf) ==
    LET h1 == ToHyperH1(buf)
        hosts == {k \in DOMAIN h1.fields : IsHost(h1.fields[k])}
    IN  [method    |-> h1.method,
         path      |-> h1.path,
         authority |-> IF hosts = {} THEN <<>> ELSE h1.fields[Max(hosts)].value,
         fields    |-> SelectSeq(h1.fields, LAMBDA f : ~IsHost(f))]

\* A call of next, of the iterator over a MyHttpClientHeadersBuilder that stands at pos: the
\* header there and where the call leaves the iterator, or nothing.
NextHeader(buf, pos) ==
    LET Find(token, from) == SelectInSubSeq(buf, from, Len(buf), LAMBDA t : t = token)
        colon == Find(":", pos)
        cr == Find("cr", colon + 2)
    IN  IF colon = 0 \/ cr = 0 THEN <<>>
        ELSE <<[name  |-> SubSeq(buf, pos, colon - 1),
                value |-> SubSeq(buf, colon + 2, cr - 1)], cr + 2>>

\* What a server makes of the bytes (RFC 9112): a request line, fields up to the empty line, and
\* a body.
ServerReads(wire) ==
    LET lines == Lines(wire)
        empty == {k \in DOMAIN lines : lines[k] = <<>>}
        last == CHOOSE k \in empty : \A j \in empty : k <= j
    IN  IF empty = {} THEN [fields |-> <<>>, body |-> <<>>, whole |-> FALSE]
        ELSE [fields |-> [k \in 1 .. last - 2 |-> ExtractNameAndValue(lines[k + 1])],
              body   |-> SubSeq(wire, LineEnds(wire)[last] + 2, Len(wire)),
              whole  |-> TRUE]
-----------------------------------------------------------------------------
(* Properties *)

\* Nothing that a reader could take for a separator ever is in a name, nor an end of line in a
\* value: validate_header_name and validate_header_value run before anything is written.
TypeOK ==
    /\ source \in Sources
    /\ state \in {"start", "headers", "built", "panicked"}
    /\ method \in Methods
    /\ headers \in Seq(Tokens)
    /\ body \in Bodies
    /\ Len(given) <= MaxHeaders
    /\ \A k \in DOMAIN given :
        /\ ToSet(given[k].name) \cap Separators = {}
        /\ ToSet(given[k].value) \cap {"cr", "lf"} = {}

Trimmed(fields) == [k \in DOMAIN fields |-> [fields[k] EXCEPT !.value = Trim(@)]]

IsLength(field) == Lower(field.name) = <<"cl">>

Supplied == \E k \in DOMAIN given : IsLength(given[k])

Computed(fields) == SubSeq(fields, Len(given) + 1, Len(fields))

\* The server reads the headers the caller gave, in their order, and the body; the only field it
\* may find besides is a Content-Length.
ServerReadsWhatWasGiven ==
    state = "built" =>
        LET read == ServerReads(WriteTo)
        IN  /\ read.whole
            /\ read.body = body
            /\ SubSeq(read.fields, 1, Len(given)) = Trimmed(given)
            /\ \A k \in DOMAIN Computed(read.fields) : IsLength(Computed(read.fields)[k])

\* A body never goes out without its length, and the client never contradicts or repeats a
\* length the caller supplied: headers_contains finds the name in any case, but neither in a value
\* nor at the start or the end of another name.  from_hyper_request writes none of its own.
LengthIsTheBodys ==
    state = "built" =>
        LET computed == Computed(ServerReads(WriteTo).fields)
        IN  IF source = "hyper" \/ body = <<>> \/ Supplied
            THEN computed = <<>>
            ELSE Len(computed) = 1 /\ computed[1].value = Decimal(Len(body))

\* A request converted for hyper's HTTP/1 is the one the caller gave: method, path, and every
\* header that goes out, once and in order.
HyperH1CarriesTheSame ==
    state = "built" =>
        LET h1 == ToHyperH1(headers)
        IN  /\ GetMethod(headers) = <<method>>
            /\ h1.method = <<method>> /\ h1.path = <<"path">>
            /\ h1.fields = ServerReads(WriteTo).fields

\* So is the one for HTTP/2, but for the Host, which becomes the authority.
HyperH2CarriesTheSame ==
    state = "built" =>
        LET h1 == ToHyperH1(headers)
            h2 == ToHyperH2(headers)
            hosts == {k \in DOMAIN given : Lower(given[k].name) = <<"host">>}
        IN  /\ h2.method = <<method>> /\ h2.path = <<"path">>
            /\ h2.authority = IF hosts = {} THEN <<>> ELSE Trim(given[Max(hosts)].value)
            /\ h2.fields = SelectSeq(h1.fields, LAMBDA f : Lower(f.name) # <<"host">>)

\* The iterator over a MyHttpClientHeadersBuilder yields what was added, header by header, also
\* values with colons and values that are empty or start with white space: a call at the start of a
\* header yields it and stops at the start of the next, and one at the end yields nothing.
IteratorYieldsWhatWasGiven ==
    state = "headers" /\ source = "new" =>
        LET StartOf(k) == IF k = 1 THEN 1 ELSE LineEnds(headers)[k - 1] + 2
        IN  /\ \A k \in DOMAIN given :
                NextHeader(headers, StartOf(k)) = <<given[k], StartOf(k + 1)>>
            /\ NextHeader(headers, StartOf(Len(given) + 1)) = <<>>

\* Whatever of the crate reads a buffer again finds in it what the caller gave.
ReadBackIsWhatWasGiven ==
    HyperH1CarriesTheSame /\ HyperH2CarriesTheSame /\ IteratorYieldsWhatWasGiven
=============================================================================
