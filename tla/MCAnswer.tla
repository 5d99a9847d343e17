-------------------------------- MODULE MCAnswer -------------------------------
(* Options, requests and headers for Answer. *)
MCNames == {"Vary", "vary", "set-cookie", "content-type", "Content-Type", "x",
            "access-control-allow-origin", "access-control-allow-credentials",
            "access-control-allow-methods"}
MCLower == [n \in MCNames |-> CASE n = "Vary" -> "vary"
                              [] n = "Content-Type" -> "content-type"
                              [] OTHER -> n]

MCPolicies == [origin : {"*", "origin"}, credentials : BOOLEAN]
MCAsked == [method : {"GET", "OPTIONS"}, path : {"p", "q", "r"}, origin : {"o1", "o2"},
            accept : {"json", "any"}]
MCRoutes == {[method |-> "GET", path |-> "p"], [method |-> "POST", path |-> "p"],
             [method |-> "OPTIONS", path |-> "q"], [method |-> "HEAD", path |-> "r"]}
MCOwn == {<<>>, <<<<"Content-Type", "own">>, <<"vary", "Accept">>, <<"set-cookie", "own">>>>}
MCServer == {<<>>, <<<<"x", "server">>>>, <<<<"access-control-allow-origin", "server">>>>,
             <<<<"content-type", "server">>>>}
================================================================================
