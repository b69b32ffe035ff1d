------------------------------- MODULE MCServer -------------------------------
(***************************************************************************)
(* A small instance of every part of the server.                           *)
(***************************************************************************)
EXTENDS Server

CONSTANTS r1, r2, r3, r4, c1, c2, c3, c4, c5, q1, q2, q3, k1, k2, k3, p1, p2, p3, p4, v1, v2, v3, nil

MCRequests == {r1, r2, r3, r4}
MCReaders == {r3, r4}
MCPasswordCalls == {c1, c2, c3, c4, c5}
MCLogStreams == {"stdout", "stderr"}
MCCapacityRequests == {q1, q2, q3}
MCLifeRequests == {q1, q2}
MCRateKeys == {k1, k2, k3}
MCProbeCalls == {p1, p2, p3, p4}
MCReleases == {v1, v2, v3}
MCSound == {v1, v2}

\* Two filters, of which a request may exceed one's limits, and bases that name
\* the site, the API and its collection.
MCQueries == {"tags" :> "success", "limit" :> "1" @@ "tags" :> "success", "limit" :> "1000"}
MCBases ==
  {[path |-> p, filters |-> f] :
     p \in {<<>>, <<"quotes-api">>, <<"quotes-api", "quotes">>},
     f \in {<<>>, "limit" :> "9", "author" :> "someone"}}
MCValid(q) == \A k \in DOMAIN q : q[k] # "1000"
===============================================================================
