------------------------------ MODULE Application ------------------------------
(***************************************************************************)
(* Application of @bunt/app and the Unit that runs its actions: routes,    *)
(* the payload of a request, and the action it is for, up to the result    *)
(* that run() settles with.  All three transaction handlers are set, and   *)
(* throw nothing.  Resolvers, actions and what loads them are functions of *)
(* the application's, which may throw anything.                            *)
(*                                                                         *)
(* A result says whether it was thrown, and its kind: the name of an       *)
(* error's class, or what else it is.                                      *)
(***************************************************************************)
EXTENDS Naturals, Sequences, FiniteSets, SequencesExt

CONSTANTS
    Requests,
    Routes,
    NoRoute,
    Target,         \* what a request asks for: a method and a path
    Matched,        \* the targets that the pattern of a route matches
    WithPayload,    \* the routes that have a payload
    Failures,       \* the kinds of what resolvers, and what loads an action, may throw
    Results         \* what actions may end with

\* The classes of errors that the packages know, and what else an action may end with.
Errors == {"RouteNotFound", "NotFound", "AssertionError", "ValidationError", "PermissionError",
           "ServerError", "Error"}
Kinds == Errors \cup {"none", "text", "response", "stream", "unknown"}
Outcomes == [thrown : BOOLEAN, kind : Kinds]

ASSUME ApplicationAssumption == Failures \subseteq Kinds /\ Results \subseteq Outcomes

VARIABLES
    routes,     \* #routes: a Set, in the order of insertion
    index,      \* #index: what run() searches
    stage,      \* how far the run() of a request is
    route,      \* the route it has matched
    acted,      \* whether its action has been run
    result,     \* what run() settles with
    reports     \* what the handlers were told of it: "error", "finished", "failed"

routing == <<routes, index>>
running == <<route, acted, result, reports>>

None == [thrown |-> FALSE, kind |-> "none"]
Thrown(kind) == [thrown |-> TRUE, kind |-> kind]

\* watch(): what is thrown is told to the error handler.
Fails(r, kind) ==
    /\ stage' = [stage EXCEPT ![r] = "settled"]
    /\ result' = [result EXCEPT ![r] = Thrown(kind)]
    /\ reports' = [reports EXCEPT ![r] = Append(@, "error")]

GoesTo(r, next) ==
    /\ stage' = [stage EXCEPT ![r] = next]
    /\ UNCHANGED <<result, reports>>

\* add() asserts that the route is a new one.
AddRoute(t) ==
    /\ t \notin ToSet(routes)
    /\ routes' = Append(routes, t)
    /\ index' = Append(index, t)
    /\ UNCHANGED <<running, stage>>

\* Mutant: the index keeps what is removed.
RemoveFromSet(t) ==
    /\ \E k \in DOMAIN routes : routes[k] = t /\ routes' = RemoveAt(routes, k)
    /\ UNCHANGED <<running, stage, index>>

\* remove() makes the index anew.
RemoveRoute(t) ==
    /\ \E k \in DOMAIN routes : routes[k] = t /\ routes' = RemoveAt(routes, k)
    /\ index' = routes'
    /\ UNCHANGED <<running, stage>>

\* A route tests what is asked for with its matcher, and may have a payload.
Test(t, r) == Target[r] \in Matched[t]
HasPayload(t) == t \in WithPayload

\* The first route of the index that matches.
Find(r) == LET found == SelectInSeq(index, LAMBDA t : Test(t, r))
           IN  IF found = 0 THEN NoRoute ELSE index[found]

\* run() finds the route before anything else happens.
Run(r) ==
    LET t == Find(r)
    IN  /\ route' = [route EXCEPT ![r] = t]
        /\ acted' = [acted EXCEPT ![r] = FALSE]
        /\ IF t = NoRoute THEN Fails(r, "RouteNotFound")
           ELSE GoesTo(r, IF HasPayload(t) THEN "resolving" ELSE "loading")

\* payload.validate(): the resolvers read the body, or do whatever else they like, and a
\* type validates what they made of it, which throws a ValidationError.  The state is
\* frozen and linked to the request.
Resolve(r) ==
    /\ stage[r] = "resolving"
    /\ \/ GoesTo(r, "loading")
       \/ \E kind \in Failures \cup {"ValidationError"} : Fails(r, kind)
    /\ UNCHANGED <<routing, route, acted>>

\* Mutant: an action that cannot be loaded is not told to the error handler.
LoadQuietly(r) ==
    /\ stage[r] = "loading"
    /\ \/ GoesTo(r, "acting")
       \/ /\ stage' = [stage EXCEPT ![r] = "settled"]
          /\ result' = [result EXCEPT ![r] = Thrown("Error")]
          /\ UNCHANGED reports
    /\ UNCHANGED <<routing, route, acted>>

\* Unit.run(): the action is loaded, unless it is an action already; its module may
\* fail to load, and what it exports may be no action.
Load(r) ==
    /\ stage[r] = "loading"
    /\ \/ GoesTo(r, "acting")
       \/ \E kind \in Failures \cup {"AssertionError"} : Fails(r, kind)
    /\ UNCHANGED <<routing, route, acted>>

\* The action ends, and with it the transaction that the start handler has begun.
Act(r) ==
    /\ stage[r] = "acting"
    /\ stage' = [stage EXCEPT ![r] = "settled"]
    /\ acted' = [acted EXCEPT ![r] = TRUE]
    /\ \E res \in Results :
        /\ result' = [result EXCEPT ![r] = res]
        /\ reports' = [reports EXCEPT ![r] =
                        Append(@, IF res.thrown THEN "failed" ELSE "finished")]
    /\ UNCHANGED <<routing, route>>

RoutingInit ==
    /\ routes = <<>> /\ index = <<>>
    /\ stage = [r \in Requests |-> "none"]
    /\ route = [r \in Requests |-> NoRoute]
    /\ acted = [r \in Requests |-> FALSE]
    /\ result = [r \in Requests |-> None]
    /\ reports = [r \in Requests |-> <<>>]

------------------------------------------------------------------------------
\* Whatever has been added and removed, in whatever order, a request gets the route
\* that has been there longest of those that match, and none only if none does.
OldestRouteIsFound ==
    [][\A r \in Requests :
        stage[r] = "none" /\ stage'[r] \in {"resolving", "loading", "settled"} =>
            LET matching == {k \in DOMAIN routes : Target[r] \in Matched[routes[k]]}
            IN  \/ matching = {} /\ route'[r] = NoRoute
                \/ \E k \in matching : /\ route'[r] = routes[k]
                                       /\ \A j \in matching : k <= j]_<<routing, stage, running>>

================================================================================
