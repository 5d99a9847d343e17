------------------------------- MODULE MCRunner -------------------------------
EXTENDS Runner

CONSTANTS mail, report, t1, t2, t3, narrow, shared

\* Two configurations with tasks of their own.  The first retries once.
MCTwo == {mail, report}
MCTwoSource == (mail :> {t1, t2}) @@ (report :> {t3})
MCTwoRetries == (mail :> 1) @@ (report :> 0)

\* One limiter of its own and one it shares.
MCLimiters == {narrow, shared}
MCTwoLimitersOf == (mail :> {narrow, shared}) @@ (report :> {shared})
MCLimit == (narrow :> 1) @@ (shared :> 2)

\* Two configurations that are alike and poll one store, of tasks that are alike.
MCPair == {mail, report}
MCPairSource == [p \in MCPair |-> {t1, t2}]
MCPairLimitersOf == [p \in MCPair |-> {shared}]
MCPairRetries == [p \in MCPair |-> 0]
MCSharedLimit == shared :> 2
MCAlike == Permutations(MCPair) \cup Permutations({t1, t2})

MCNoFaults == {}
MCAllFaults == {"factory", "poll", "close", "write"}

==============================================================================
