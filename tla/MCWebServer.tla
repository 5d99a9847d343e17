------------------------------ MODULE MCWebServer ------------------------------
\* WebServer with two requests for what one route, or both, match; one route has a
\* payload.  The results, and what is thrown before there is one, stand for every way to
\* answer; responses carry a code of success or of failure.
EXTENDS WebServer, TLC
CONSTANTS t1, t2, a, b, r1, r2
MCMatched == t1 :> {a} @@ t2 :> {a, b}
MCTarget == r1 :> a @@ r2 :> b
Result(thrown, kinds) == {[thrown |-> thrown, kind |-> k] : k \in kinds}
MCResults ==
    Result(FALSE, {"text", "unknown", "stream", "NotFound"}) \cup Result(TRUE, {"text", "PermissionError", "ServerError"})

================================================================================
