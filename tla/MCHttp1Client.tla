--------------------------- MODULE MCHttp1Client ---------------------------
EXTENDS Http1Client, TLC

\* Callers that may not be upgraded are interchangeable.
Symmetry == Permutations(Requests \ UpgradeRequests)

\* How a caller that is done came out, but for an upgrade (BehindUpgrade), is read by no action
\* and no property: states that differ only in it have the same futures.
Outcomes == [r \in Requests |-> IF pc[r] = "done" /\ result[r] # "WebsocketUpgrade"
                                THEN "none" ELSE result[r]]
View == <<mutexVars, queueVars, flagVars, writerVars, pc, conn, Outcomes, loopVars, clientVars>>
=============================================================================
