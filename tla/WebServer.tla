------------------------------- MODULE WebServer -------------------------------
(***************************************************************************)
(* WebServer of @bunt/web: the application behind an http.Server, from a   *)
(* request that arrives to the answer that its Responder sends, and the    *)
(* disposal of the server.  The http.Server and its connections are        *)
(* external.  A connection is named by the request it carries; a request   *)
(* may take over the idle connection of an earlier one.                    *)
(*                                                                         *)
(* The content of an answer is a promise or a stream of the application's: *)
(* nothing makes the one settle or the other come to its end, and a stream *)
(* whose error nobody listens to ends the process.                         *)
(***************************************************************************)
EXTENDS Application

CONSTANTS
    Validators,     \* what the validators may end with
    Codes           \* the codes that responses carry

\* A head without a code is none.
ASSUME WebServerAssumption == Codes \subseteq Nat \ {0}

VARIABLES
    web,        \* the http.Server: "listening", "closing" or "closed"; "gone" with its process
    conn,       \* the connection of a request
    head        \* the code that has been sent, or 0

vars == <<routing, running, stage, web, conn, head>>

\* What a ServerError is answered with is a code of its own, taken to be that of a
\* failure.
OwnCode == 503

TypeOK ==
    /\ routes \in Seq(Routes) /\ index \in Seq(Routes)
    /\ stage \in [Requests -> {"none", "resolving", "loading", "acting", "settled",
                               "responding", "streaming", "stuck", "done"}]
    /\ route \in [Requests -> Routes \cup {NoRoute}]
    /\ acted \in [Requests -> BOOLEAN]
    /\ result \in [Requests -> Outcomes]
    /\ reports \in [Requests -> Seq({"error", "finished", "failed"})]
    /\ web \in {"listening", "closing", "closed", "gone"}
    /\ conn \in [Requests -> {"none", "busy", "idle", "closed"}]
    /\ head \in [Requests -> {0, 200, 400, 403, 404, 500, OwnCode} \cup Codes]

------------------------------------------------------------------------------
(***************************************************************************)
(* Answers                                                                 *)
(***************************************************************************)

\* The classes of a class of errors, and #errorCodeMap in the order of its entries.
Classes(kind) ==
    CASE kind = "RouteNotFound" -> {kind, "NotFound"}
      [] kind = "AssertionError" -> {kind, "ValidationError"}
      [] OTHER -> {kind}
ErrorCodeMap == <<<<"PermissionError", 403>>, <<"ValidationError", 400>>, <<"NotFound", 404>>>>
IsError(kind) == kind \in Errors

\* TransformError: a ServerError has a code of its own, for others it is that of the
\* first entry that is a class of the error.
Status(kind) ==
    LET first == SelectInSeq(ErrorCodeMap, LAMBDA e : e[1] \in Classes(kind))
    IN  CASE ~IsError(kind) -> 200
          [] kind = "ServerError" -> OwnCode
          [] OTHER -> IF first = 0 THEN 500 ELSE ErrorCodeMap[first][2]

\* An answer that has ended leaves its connection to another request, or closes it.
Ended(r) ==
    /\ stage' = [stage EXCEPT ![r] = "done"]
    /\ \E next \in {"idle", "closed"} :
        conn' = IF conn[r] = "busy" THEN [conn EXCEPT ![r] = next] ELSE conn

\* What handle() throws is told to the error handler, and is a 500 unless the head has
\* been sent.  The answer is ended in any case.
Catch(r) ==
    /\ head' = [head EXCEPT ![r] = IF @ = 0 THEN 500 ELSE @]
    /\ reports' = [reports EXCEPT ![r] = Append(@, "error")]
    /\ Ended(r)

\* send(): a header, of the answer or of the server's options, may be none that can be sent.
Send(r, code) ==
    /\ \/ /\ head' = [head EXCEPT ![r] = code]
          /\ Ended(r)
          /\ UNCHANGED reports
       \/ Catch(r)

\* Mutant: what respond() does not know is left unanswered.
RespondKnown(r) ==
    /\ stage[r] = "settled"
    /\ CASE result[r].kind \in {"response", "stream"} ->
                /\ stage' = [stage EXCEPT ![r] = "responding"]
                /\ UNCHANGED <<conn, reports, head>>
         [] result[r].kind = "unknown" -> UNCHANGED <<stage, conn, reports, head>>
         [] OTHER -> Send(r, Status(result[r].kind))
    /\ UNCHANGED <<routing, web, route, acted, result>>

\* respond(): what was thrown is answered like what was returned.  null, a list or a
\* function is no answer it knows: handleRequest() ends it without a head of its own.
Respond(r) ==
    /\ stage[r] = "settled"
    /\ CASE result[r].kind \in {"response", "stream"} ->
                /\ stage' = [stage EXCEPT ![r] = "responding"]
                /\ UNCHANGED <<conn, reports, head>>
         [] result[r].kind = "unknown" ->
                /\ head' = [head EXCEPT ![r] = 200]
                /\ Ended(r)
                /\ UNCHANGED reports
         [] OTHER -> Send(r, Status(result[r].kind))
    /\ UNCHANGED <<routing, web, route, acted, result>>

\* What it waits for never comes: the request is left as it is.
Stays(r) ==
    /\ stage' = [stage EXCEPT ![r] = "stuck"]
    /\ UNCHANGED <<conn, reports, head>>

\* getResponse() of a ResponseAbstract, which has a code of its own.  Its headers and its
\* content may be promises, which settle, reject, or do neither.
GetResponse(r) ==
    /\ stage[r] = "responding"
    /\ \/ Catch(r)
       \/ Stays(r)
       \/ \E code \in Codes :
            \/ /\ result[r].kind = "response"
               /\ Send(r, code)
            \/ /\ result[r].kind = "stream"
               /\ stage' = [stage EXCEPT ![r] = "streaming"]
               /\ head' = [head EXCEPT ![r] = code]
               /\ UNCHANGED <<conn, reports>>
    /\ UNCHANGED <<routing, web, route, acted, result>>

\* send() waits until the response has finished or failed.  A client that leaves, or a
\* stream that fails, makes it do neither: the handler waits for good.
Stream(r) ==
    /\ stage[r] = "streaming"
    /\ conn[r] = "busy"
    /\ \/ Ended(r) /\ UNCHANGED <<head, reports>>
       \/ Catch(r)
       \/ Stays(r)
    /\ UNCHANGED <<routing, web, route, acted, result>>

\* The stream fails, and nobody but pipe() knows it: the error is an uncaught one.
StreamFails(r) ==
    /\ stage[r] = "streaming"
    /\ web' = "gone"
    /\ conn' = [q \in Requests |-> IF conn[q] = "none" THEN "none" ELSE "closed"]
    /\ UNCHANGED <<routing, running, stage, head>>

------------------------------------------------------------------------------
(***************************************************************************)
(* Requests and connections                                                *)
(***************************************************************************)

\* A request comes on a connection of its own, or on one that is idle.
Connects(r, rest) ==
    \/ web = "listening" /\ rest = [conn EXCEPT ![r] = "busy"]
    \/ \E q \in Requests : conn[q] = "idle" /\ rest = [conn EXCEPT ![q] = "closed", ![r] = "busy"]

\* handle(): a request that cannot be parsed, or that a validator throws an error at, is
\* a 500; a validator may answer it with what it throws; anything else it throws is
\* forgotten.
Arrive(r) ==
    /\ stage[r] = "none"
    /\ \E connected \in [Requests -> {"none", "busy", "idle", "closed"}] :
        /\ Connects(r, connected)
        /\ \/ /\ "error" \in Validators
              /\ stage' = [stage EXCEPT ![r] = "done"]
              /\ head' = [head EXCEPT ![r] = 500]
              /\ reports' = [reports EXCEPT ![r] = Append(@, "error")]
              /\ \E next \in {"idle", "closed"} : conn' = [connected EXCEPT ![r] = next]
              /\ UNCHANGED <<route, acted, result>>
           \/ /\ "response" \in Validators
              /\ stage' = [stage EXCEPT ![r] = "responding"]
              /\ result' = [result EXCEPT ![r] = Thrown("response")]
              /\ conn' = connected
              /\ UNCHANGED <<head, route, acted, reports>>
           \/ /\ Run(r)
              /\ conn' = connected
              /\ UNCHANGED head
    /\ UNCHANGED <<routing, web>>

\* The client, or the timeout of a connection that is idle.
Leave(r) ==
    /\ conn[r] \in {"busy", "idle"}
    /\ conn' = [conn EXCEPT ![r] = "closed"]
    /\ UNCHANGED <<routing, running, stage, web, head>>

\* dispose() asserts that the server listens.  Idle connections are closed; busy ones
\* stay open, and may even carry further requests.
Dispose ==
    /\ web = "listening"
    /\ web' = "closing"
    /\ conn' = [r \in Requests |-> IF conn[r] = "idle" THEN "closed" ELSE conn[r]]
    /\ UNCHANGED <<routing, running, stage, head>>

\* The server emits "close", which resolves what dispose() has returned.
Closed ==
    /\ web = "closing"
    /\ \A r \in Requests : conn[r] \notin {"busy", "idle"}
    /\ web' = "closed"
    /\ UNCHANGED <<routing, running, stage, conn, head>>

Init ==
    /\ RoutingInit
    /\ web = "listening"
    /\ conn = [r \in Requests |-> "none"]
    /\ head = [r \in Requests |-> 0]

AppStep(A) == A /\ UNCHANGED <<web, conn, head>>

Progress(r) == web # "gone" /\
    \/ AppStep(Resolve(r)) \/ AppStep(Load(r)) \/ AppStep(Act(r))
    \/ Respond(r) \/ GetResponse(r) \/ Stream(r)

\* Of a process that has ended nothing goes on.
Next == web # "gone" /\
    \/ \E t \in Routes : AppStep(AddRoute(t)) \/ AppStep(RemoveRoute(t))
    \/ \E r \in Requests : Arrive(r) \/ Progress(r) \/ StreamFails(r) \/ Leave(r)
    \/ Dispose \/ Closed

\* What is under way settles: bodies arrive, actions end, streams are read, but for the
\* content that never comes.  A connection does not stay idle for ever.
Fairness ==
    /\ \A r \in Requests : WF_vars(Progress(r)) /\ WF_vars(conn[r] = "idle" /\ Leave(r))
    /\ WF_vars(Closed)

Spec == Init /\ [][Next]_vars
FairSpec == Spec /\ Fairness

------------------------------------------------------------------------------
\* A code that says that the request has succeeded.
Success(code) == code < 400

\* A request is answered as it went.  It is answered as a success only if its action has
\* run, or if what was thrown before that is no error: a response, of a validator or a
\* resolver, says itself what it is, and anything else is taken for a result.  What is
\* thrown, in whichever of the places that catch it, is told to a handler, unless a
\* validator has thrown it; and what is answered as a failure is, unless it is a response
\* or an error that the action has returned.
AnswersAreTrue ==
    \A r \in Requests : stage[r] = "done" =>
        /\ head[r] # 0
        /\ Success(head[r]) => \/ acted[r]
                               \/ result[r].thrown /\ ~IsError(result[r].kind)
        /\ Success(head[r]) /\ "error" \in ToSet(reports[r]) =>
            result[r].kind = "stream" \/ result[r].thrown
        /\ result[r].thrown => \/ {"error", "failed"} \cap ToSet(reports[r]) # {}
                               \/ result[r].kind = "response" /\ route[r] = NoRoute
        /\ ~Success(head[r]) =>
            \/ {"error", "failed"} \cap ToSet(reports[r]) # {}
            \/ result[r].kind \in {"response", "stream"}
            \/ acted[r] /\ ~result[r].thrown /\ IsError(result[r].kind)

\* Whatever fails after the head has been sent, it is not sent again.
HeadIsSentOnce ==
    [][\A r \in Requests : head[r] # 0 => head'[r] = head[r]]_vars

\* Every request is answered, whatever its action ends with, or its client has left, or
\* the content of its answer never comes.
EveryRequestIsAnswered ==
    \A r \in Requests :
        stage[r] # "none" ~> stage[r] \in {"done", "stuck"} \/ conn[r] = "closed"

\* dispose() ends, whoever is connected and whatever is being answered: it waits for the
\* answers, for ever if one never comes and its client stays, and connections that stay
\* idle are closed.
DisposeEnds ==
    web = "closing" ~> \/ web \in {"closed", "gone"}
                       \/ \E r \in Requests : stage[r] = "stuck" /\ conn[r] = "busy"

\* What is told of a request is what became of it, whatever its way was.
RequestsAreToldTrue == TypeOK /\ AnswersAreTrue

\* A request runs the route that its application has known longest of those that match,
\* and is answered with one head.
OneRouteOneHead == OldestRouteIsFound /\ HeadIsSentOnce

\* Every request whose answer has a content is answered or its client leaves, and then
\* dispose() ends.
RequestsSettle == EveryRequestIsAnswered /\ DisposeEnds

================================================================================
