--------------------------------- MODULE Answer --------------------------------
(***************************************************************************)
(* What an answer of @bunt/web carries: the headers that the CORS          *)
(* validator, the response, its cookies and the server's options put on    *)
(* it, and the cookies that the client brings back.                        *)
(*                                                                         *)
(* Headers are functions of their names in lower case; entries are         *)
(* sequences of pairs whose names may be in any case.                      *)
(***************************************************************************)
EXTENDS Naturals, SequencesExt

CONSTANTS
    Lower,          \* the lower case of a name
    Policies,       \* options of CORS: [origin, credentials], or NoPolicy
    NoPolicy,
    Asked,          \* requests: [method, path, origin, accept]
    RouteTable,     \* the routes: [method, path]
    OwnHeaders,     \* entries that a response is made with
    ServerHeaders,  \* entries of the server's options
    CookieNames,
    MaxCookies

\* Names keep their lower case, and what the code writes itself it writes in it, "Vary"
\* aside.
AnswerAssumption ==
    /\ \A n \in DOMAIN Lower : Lower[n] \in DOMAIN Lower /\ Lower[Lower[n]] = Lower[n]
    /\ \A n \in {"access-control-allow-origin", "access-control-allow-methods", "vary",
                 "access-control-allow-credentials", "content-type", "set-cookie"} :
           n \in DOMAIN Lower /\ Lower[n] = n
    /\ "Vary" \in DOMAIN Lower /\ Lower["Vary"] = "vary"
    /\ MaxCookies \in Nat
    /\ OwnHeaders \cup ServerHeaders \subseteq Seq((DOMAIN Lower) \X STRING)

VARIABLES
    policy, asked, server,  \* the options of the server, and the request
    stage,      \* "arrived", "running", "answering", "sent"
    answer,     \* "response" (the action's) or "preflight" (both ResponseAbstract),
                \* "plain", "error", "bare" (never reaches send()), or "none" as yet
    own,        \* the entries that the response is made with
    cookies,    \* its cookies, pairs in the order of the Map
    headers     \* the headers of the ServerResponse, "set-cookie" among them

given == <<policy, asked, server>>
vars == <<given, stage, answer, own, cookies, headers>>

\* What is set later replaces.
Over(later, map) ==
    [n \in DOMAIN later \cup DOMAIN map |-> IF n \in DOMAIN later THEN later[n] ELSE map[n]]

Nothing == [n \in {} |-> ""]

Names(entries) == {Lower[entries[i][1]] : i \in DOMAIN entries}

\* Where the entries name n for the last time.
LastNamed(entries, n) ==
    CHOOSE i \in DOMAIN entries :
        /\ Lower[entries[i][1]] = n
        /\ \A j \in DOMAIN entries : Lower[entries[j][1]] = n => j <= i

\* StrictKeyValueMap: append(), fromObject() and the constructor set one entry after the
\* other, each by its name in lower case, so that of those of one name the last remains.
PutAll(map, entries) ==
    Over([n \in Names(entries) |-> entries[LastNamed(entries, n)][2]], map)
Put(map, name, value) == PutAll(map, <<<<name, value>>>>)

------------------------------------------------------------------------------
(***************************************************************************)
(* CorsValidation                                                          *)
(***************************************************************************)

\* "origin" stands for the request's own.
AllowedOrigin == IF policy.origin = "origin" THEN asked.origin ELSE policy.origin
Vary == IF policy.origin = "origin" THEN <<<<"Vary", "Origin">>>> ELSE <<>>
Credentials ==
    IF policy.credentials THEN <<<<"access-control-allow-credentials", "true">>>> ELSE <<>>

\* The routes that an OPTIONS request asks about: those of its path, whatever their method.
RouteTuples ==
    {t \in RouteTable : t.method \in {"GET", "POST", "PUT", "PATCH", "DELETE"} /\ t.path = asked.path}

AccessControlHeaders ==
    <<<<"access-control-allow-origin", AllowedOrigin>>,
      <<"access-control-allow-methods", {t.method : t \in RouteTuples}>>>> \o Vary \o Credentials

\* validate(): an OPTIONS request that has a route of its own is run; any other is
\* answered here, with what the routes of its path allow.  Where there are none it
\* fails: handle() throws that again, and handleRequest() writes a bare 500.
Preflight ==
    /\ stage = "arrived"
    /\ policy # NoPolicy /\ asked.method = "OPTIONS"
    /\ IF [method |-> "OPTIONS", path |-> asked.path] \in RouteTable
       THEN stage' = "running" /\ UNCHANGED <<answer, own>>
       ELSE /\ stage' = "answering"
            /\ answer' = IF RouteTuples = {} THEN "bare" ELSE "preflight"
            /\ own' = IF RouteTuples = {} THEN own ELSE AccessControlHeaders
    /\ UNCHANGED <<given, cookies, headers>>

\* A request that is none gets its headers now, whatever its answer will be.
Validate ==
    /\ stage = "arrived"
    /\ policy = NoPolicy \/ asked.method # "OPTIONS"
    /\ headers' = IF policy = NoPolicy THEN headers
                  ELSE PutAll(headers, <<<<"access-control-allow-origin", AllowedOrigin>>>>
                                       \o Credentials \o Vary)
    /\ stage' = "running"
    /\ UNCHANGED <<given, answer, own, cookies>>

------------------------------------------------------------------------------
(***************************************************************************)
(* The answer                                                              *)
(***************************************************************************)

\* The action makes a response, returns something else, or fails; null, a list or a
\* function is none of what respond() sends, and the answer is ended as it is.
Act ==
    /\ stage = "running"
    /\ stage' = "answering"
    /\ \/ answer' = "response" /\ own' \in OwnHeaders
       \/ answer' = "plain" /\ UNCHANGED own
       \/ answer' \in {"error", "bare"} /\ UNCHANGED own
    /\ UNCHANGED <<given, cookies, headers>>

\* setCookie(): one that is set again keeps its place.
SetCookie(name) ==
    /\ stage = "answering" /\ answer = "response"
    /\ Len(cookies) < MaxCookies
    /\ cookies' = IF \E i \in DOMAIN cookies : cookies[i][1] = name
                  THEN [i \in DOMAIN cookies |->
                            IF cookies[i][1] = name THEN <<name, cookies[i][2] + 1>> ELSE cookies[i]]
                  ELSE Append(cookies, <<name, 1>>)
    /\ \A i \in DOMAIN cookies' : cookies'[i][2] <= 2
    /\ UNCHANGED <<given, stage, answer, own, headers>>

\* getResponse() rejects, and so does respond(): the answer is a bare 500.
BodyFails ==
    /\ stage = "answering" /\ answer = "response"
    /\ answer' = "bare"
    /\ UNCHANGED <<given, stage, own, cookies, headers>>

\* What respond() hands to send(): a response its own entries over the content type of
\* its class, an error that of the form the client accepts, anything else none.
Composed ==
    CASE answer \in {"response", "preflight"} -> PutAll(Nothing, <<<<"content-type", "class">>>> \o own)
      [] answer = "error" /\ asked.accept = "json" -> Put(Nothing, "content-type", "json")
      [] OTHER -> Nothing

\* Each cookie is a header "set-cookie" that replaces the one before.
CookieHeader == IF cookies = <<>> THEN <<>> ELSE <<<<"set-cookie", Last(cookies)>>>>

\* Plain text where the answer names no content type.
Typed == IF "content-type" \in DOMAIN Composed THEN Composed
         ELSE Put(Composed, "content-type", "plain")

\* Mutant: the response's own headers come last.
SentLast == Over(Typed, PutAll(headers, CookieHeader \o server))

\* The answer's headers over the validator's, then the cookies, and over all of them
\* the server's options.
Sent == PutAll(Over(Typed, headers), CookieHeader \o server)

Send ==
    /\ stage = "answering" /\ answer # "bare"
    /\ stage' = "sent"
    /\ headers' = Sent
    /\ UNCHANGED <<given, answer, own, cookies>>

\* handleRequest() ends what send() has not, with the headers set so far.
EndsBare ==
    /\ stage = "answering" /\ answer = "bare"
    /\ stage' = "sent"
    /\ UNCHANGED <<given, answer, own, cookies, headers>>

Init ==
    /\ policy \in Policies \cup {NoPolicy}
    /\ asked \in Asked
    /\ server \in ServerHeaders
    /\ stage = "arrived" /\ answer = "none"
    /\ own = <<>> /\ cookies = <<>>
    /\ headers = Nothing

Next ==
    \/ Preflight \/ Validate \/ Act \/ BodyFails \/ Send \/ EndsBare
    \/ \E n \in CookieNames : SetCookie(n)

Spec == Init /\ [][Next]_vars

------------------------------------------------------------------------------
Overridden ==
    CASE answer = "bare" -> {}
      [] answer = "response" -> Names(server) \cup Names(own)
      [] OTHER -> Names(server)

\* CorsValidation answers a preflight itself and writes the headers of any other request
\* before its action runs: whoever makes the answer, and whether it succeeds or fails,
\* the origin is told the same origin, credentials and variance, but for what the
\* response or the server's options set themselves; an answer that never reaches send()
\* tells it, too.
OriginIsToldTheSame ==
    /\ stage = "sent"
    /\ policy # NoPolicy
    /\ asked.method # "OPTIONS" \/ answer = "preflight"
    => LET told == <<<<"access-control-allow-origin", AllowedOrigin>>>> \o Vary \o Credentials
       IN  \A i \in DOMAIN told :
               Lower[told[i][1]] \notin Overridden => headers[Lower[told[i][1]]] = told[i][2]

\* Responder.send() writes headers that four parties ask for: what it sends has one content
\* type, and of those that name the same header the server's options win over the cookies,
\* of which the last is sent, these over the response, and the response over the validator.
LastWordIsKept ==
    stage = "sent" /\ answer # "bare" =>
        /\ "content-type" \in DOMAIN headers
        /\ \A n \in DOMAIN headers :
               LET says(entries) == {entries[i][2] : i \in {j \in DOMAIN entries : Lower[entries[j][1]] = n}}
               IN  IF n \in Names(server) THEN headers[n] \in says(server)
                   ELSE IF n \in Names(CookieHeader) THEN headers[n] = Last(cookies)
                   ELSE answer = "response" /\ n \in Names(own) => headers[n] \in says(own)

\* No answer names a header twice, in another case.
TypeOK ==
    /\ stage \in {"arrived", "running", "answering", "sent"}
    /\ answer \in {"none", "response", "preflight", "plain", "error", "bare"}
    /\ (answer = "none") <=> (stage \in {"arrived", "running"})
    /\ \A n \in DOMAIN headers : Lower[n] = n
    /\ Len(cookies) <= MaxCookies
================================================================================
