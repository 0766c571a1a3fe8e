--------------------------- MODULE MCHttp2Client ---------------------------
EXTENDS Http2Client, TLC

\* Callers that differ in nothing the client looks at are interchangeable.
Symmetry == {p \in Permutations(Requests) :
               \A S \in {Idempotent, ExtendedConnect, Patient} : {p[r] : r \in S} = S}
=============================================================================
