------------------------------- MODULE MCLibrary -------------------------------
(***************************************************************************)
(* The parts of the packages that wait for nobody but their callers,       *)
(* checked for safety in one run: the types of @bunt/input, what an action *)
(* of @bunt/app makes of a body, the contexts of @bunt/unit, the headers   *)
(* of an answer, the logger, the file storage, the pools and callbacks of  *)
(* @bunt/async and a transport of @bunt/queue with two lists.  `part' says *)
(* which of them a behaviour is about; the others stay where they begin.   *)
(***************************************************************************)
EXTENDS MCInput, MCRequestBody, MCContexts, MCAnswer, Library, ListTransport

CONSTANTS
    d1, caller1, caller2, region1, p1, p2, main, q1, q2, app, queue, MaxSteps

VARIABLES
    part, bodyType, body, stream, plan, reading, chunks, fields, files, given, outcome

bodyVars == <<bodyType, body, stream, plan, reading, chunks, fields, files, given, outcome>>
mcVars == <<part, vars, bodyVars, unitVars, answerVars, logVars, fileVars, poolVars,
            callbackVars, transportVars>>

Body == INSTANCE RequestBody
    WITH Bodies <- MCBodies, Plans <- MCPlans,
         Types <- {"none", "json", "text", "form", "multipart"},
         type <- bodyType, writing <- files, state <- given

MCUnits == {u1, u2, u3}
MCServices == {s1, s2, s3, value}
MCPlain == {value}
MCDisposable == {s1, s2, value}
MCCookies == {"a", "b"}
MCTransports == {"err", "out"}
MCSeverities == {3, 6}
MCAccepts == "err" :> 0 .. 4 @@ "out" :> 5 .. 7
MCDisposers == {d1}
MCFileCallers == {caller1, caller2}
MCRegions == {region1}
MCCallers == {p1, p2}
MCFalsy == {1, 3}
MCLists == {q1, q2}
MCMalformed == {2}
MCTasks == {1}
MCDisposeCalls == {app, queue}
MCDisposed == app :> <<"dispatcher", main>> @@ queue :> <<"queue", main>>

Parts == {"input", "body", "unit", "answer", "logger", "files", "pool", "callback", "transport"}

\* Where a part begins that has several beginnings, while it is not the one.
InputRests == type = <<"Int">> /\ payload = Undefined /\ verdict = Pending
BodyRests ==
    /\ bodyType = "none" /\ body = <<>> /\ stream = <<>> /\ plan = <<>> /\ reading = "none"
    /\ chunks = <<>> /\ fields = Body!Nothing /\ files = {} /\ given = <<>> /\ outcome = "resolved"
AnswerRests ==
    /\ policy = NoPolicy /\ asked = (CHOOSE q \in MCAsked : TRUE) /\ server = <<>>
    /\ stage = "arrived" /\ answer = "none" /\ ownHeaders = <<>> /\ cookies = <<>>
    /\ headers = Web!Nothing

MCInit ==
    /\ part \in Parts
    /\ IF part = "input" THEN Init ELSE InputRests
    /\ IF part = "body" THEN Body!Init ELSE BodyRests
    /\ IF part = "answer" THEN Web!Init ELSE AnswerRests
    /\ Unit!Init /\ Log!Init /\ Fs!Init /\ Pool!Init /\ Callback!Init /\ Transport!Init

\* Bound: of the transport's sendings, breaks and disposals, so many together.
TransportNext ==
    /\ Transport!Next
    /\ sent' + breaks' + Cardinality({c \in {app, queue} : <<"called", c>> \in visited'}) <= MaxSteps

MCNext ==
    \/ /\ part = "input" /\ Next
       /\ UNCHANGED <<part, bodyVars, unitVars, answerVars, logVars, fileVars, poolVars, callbackVars, transportVars>>
    \/ /\ part = "body" /\ Body!Next
       /\ UNCHANGED <<part, vars, unitVars, answerVars, logVars, fileVars, poolVars, callbackVars, transportVars>>
    \/ /\ part = "unit" /\ Unit!Next
       /\ UNCHANGED <<part, vars, bodyVars, answerVars, logVars, fileVars, poolVars, callbackVars, transportVars>>
    \/ /\ part = "answer" /\ Web!Next
       /\ UNCHANGED <<part, vars, bodyVars, unitVars, logVars, fileVars, poolVars, callbackVars, transportVars>>
    \/ /\ part = "logger" /\ Log!Next
       /\ UNCHANGED <<part, vars, bodyVars, unitVars, answerVars, fileVars, poolVars, callbackVars, transportVars>>
    \/ /\ part = "files" /\ Fs!Next
       /\ UNCHANGED <<part, vars, bodyVars, unitVars, answerVars, logVars, poolVars, callbackVars, transportVars>>
    \/ /\ part = "pool" /\ Pool!Next
       /\ UNCHANGED <<part, vars, bodyVars, unitVars, answerVars, logVars, fileVars, callbackVars, transportVars>>
    \/ /\ part = "callback" /\ Callback!Next
       /\ UNCHANGED <<part, vars, bodyVars, unitVars, answerVars, logVars, fileVars, poolVars, transportVars>>
    \/ /\ part = "transport" /\ TransportNext
       /\ UNCHANGED <<part, vars, bodyVars, unitVars, answerVars, logVars, fileVars, poolVars, callbackVars>>

MCSpec == MCInit /\ [][MCNext]_mcVars

------------------------------------------------------------------------------
\* What @bunt/input lets through conforms to its type, and what a resolver makes of a
\* request's body is made of all of it.
StatesAreValid == ValidatedConforms /\ Body!BodyIsWhole
================================================================================
