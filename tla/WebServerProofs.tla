---------------------------- MODULE WebServerProofs ----------------------------
(***************************************************************************)
(* Theorems about WebServer and the Application behind it, for any         *)
(* requests, routes and patterns, whatever the resolvers and the validators *)
(* throw, the actions end with and the responses carry, and however        *)
(* connections come and go.                                                *)
(***************************************************************************)
EXTENDS WebServer, WellFoundedInduction, TLAPS

Stages == {"none", "resolving", "loading", "acting", "settled", "responding", "streaming", "stuck",
           "done"}
Told == {"error", "finished", "failed"}
Conns == {"none", "busy", "idle", "closed"}
Heads == {0, 200, 400, 403, 404, 500, OwnCode} \cup Codes

------------------------------------------------------------------------------
(***************************************************************************)
(* Sequences                                                               *)
(***************************************************************************)

\* A set of numbers has a first one.
LEMMA FirstIs ==
    ASSUME NEW I \in SUBSET Nat, I # {}
    PROVE  Min(I) \in I /\ \A k \in I : Min(I) <= k
<1>1. PICK x \in I : \A y \in I : ~(<<y, x>> \in OpToRel(<, Nat))
  BY NatLessThanWellFounded, WFMin
<1>2. \A y \in I : ~(y < x)
  BY <1>1 DEF OpToRel
<1>3. \A y \in I : x <= y
  BY <1>2
<1> QED
  BY <1>3 DEF Min

\* What is told of a request is told besides what was told before.
LEMMA Reported ==
    ASSUME NEW s \in Seq(Told), NEW e \in Told
    PROVE  /\ Append(s, e) \in Seq(Told)
           /\ ToSet(Append(s, e)) = ToSet(s) \cup {e}
<1>1. /\ Len(s) \in Nat /\ DOMAIN s = 1..Len(s) /\ DOMAIN Append(s, e) = 1..(Len(s) + 1)
      /\ \A k \in 1..Len(s) : Append(s, e)[k] = s[k]
      /\ Append(s, e)[Len(s) + 1] = e
      /\ Append(s, e) \in Seq(Told)
  OBVIOUS
<1>2. DOMAIN Append(s, e) = DOMAIN s \cup {Len(s) + 1}
  BY <1>1
<1>3. \A k \in DOMAIN s : Append(s, e)[k] = s[k]
  BY <1>1
<1> QED
  BY <1>1, <1>2, <1>3 DEF ToSet

------------------------------------------------------------------------------
(***************************************************************************)
(* Answers and routes                                                      *)
(***************************************************************************)

\* An error is never answered as a success, and nothing else is answered as a failure.
LEMMA StatusIs ==
    ASSUME NEW kind
    PROVE  /\ Status(kind) \in Heads \ {0}
           /\ Success(Status(kind)) <=> ~IsError(kind)
<1> DEFINE I == {i \in 1..Len(ErrorCodeMap) : ErrorCodeMap[i][1] \in Classes(kind)}
           first == IF I # {} THEN Min(I) ELSE 0
<1>1. Status(kind) = CASE ~IsError(kind) -> 200
                       [] kind = "ServerError" -> OwnCode
                       [] OTHER -> IF first = 0 THEN 500 ELSE ErrorCodeMap[first][2]
  BY DEF Status, SelectInSeq
<1>2. /\ Len(ErrorCodeMap) = 3
      /\ \A i \in 1..3 : ErrorCodeMap[i][2] \in {403, 400, 404}
  BY DEF ErrorCodeMap
<1>3. first = 0 \/ first \in 1..3
  <2>1. CASE I = {}
    BY <2>1
  <2>2. CASE I # {}
    <3>1. I \in SUBSET Nat
      BY <1>2
    <3>2. Min(I) \in I
      BY <2>2, <3>1, FirstIs
    <3> QED
      BY <1>2, <2>2, <3>2
  <2> QED
    BY <2>1, <2>2
<1> HIDE DEF I, first
<1>4. (IF first = 0 THEN 500 ELSE ErrorCodeMap[first][2]) \in {400, 403, 404, 500}
  BY <1>2, <1>3
<1>5. kind = "ServerError" => IsError(kind)
  BY DEF IsError, Errors
<1> QED
  BY <1>1, <1>4, <1>5 DEF Heads, OwnCode, Success

\* The route that is found is the first of the index that matches.
LEMMA FindIs ==
    ASSUME NEW r, index \in Seq(Routes)
    PROVE  \/ Find(r) = NoRoute /\ \A k \in DOMAIN index : ~Test(index[k], r)
           \/ \E k \in DOMAIN index :
                 /\ Find(r) = index[k] /\ Test(index[k], r)
                 /\ \A j \in DOMAIN index : Test(index[j], r) => k <= j
<1> DEFINE I == {i \in 1..Len(index) : Test(index[i], r)}
           first == IF I # {} THEN Min(I) ELSE 0
<1>1. Find(r) = IF first = 0 THEN NoRoute ELSE index[first]
  BY DEF Find, SelectInSeq
<1>2. DOMAIN index = 1..Len(index) /\ Len(index) \in Nat
  OBVIOUS
<1>3. CASE I = {}
  <2>1. first = 0
    BY <1>3
  <2>2. \A k \in DOMAIN index : ~Test(index[k], r)
    BY <1>2, <1>3
  <2> QED
    BY <1>1, <2>1, <2>2
<1>4. CASE I # {}
  <2>1. I \in SUBSET Nat
    BY <1>2
  <2>2. Min(I) \in I /\ \A k \in I : Min(I) <= k
    BY <1>4, <2>1, FirstIs
  <2>3. first = Min(I) /\ first # 0
    BY <1>2, <1>4, <2>2
  <2> HIDE DEF first
  <2>4. Find(r) = index[first] /\ first \in I /\ \A k \in I : first <= k
    BY <1>1, <2>2, <2>3
  <2> QED
    BY <1>2, <2>4
<1> QED
  BY <1>3, <1>4

------------------------------------------------------------------------------
(***************************************************************************)
(* The way of a request                                                    *)
(***************************************************************************)

\* What was thrown before the action was told of.
Failed(r) == result[r].thrown /\ "error" \in ToSet(reports[r])

\* What the action has ended with is told of as it was, and not as an error.
Returned(r) ==
    /\ acted[r]
    /\ "error" \notin ToSet(reports[r])
    /\ result[r].thrown => "failed" \in ToSet(reports[r])

\* A validator has answered.
Validated(r) ==
    /\ result[r] = Thrown("response")
    /\ route[r] = NoRoute
    /\ "error" \notin ToSet(reports[r])

\* What is answered in the end.
Answered(r) ==
    /\ head[r] # 0
    /\ Success(head[r]) => acted[r] \/ (result[r].thrown /\ ~IsError(result[r].kind))
    /\ Success(head[r]) /\ "error" \in ToSet(reports[r]) =>
        result[r].kind = "stream" \/ result[r].thrown
    /\ result[r].thrown => \/ {"error", "failed"} \cap ToSet(reports[r]) # {}
                           \/ result[r].kind = "response" /\ route[r] = NoRoute
    /\ ~Success(head[r]) =>
        \/ {"error", "failed"} \cap ToSet(reports[r]) # {}
        \/ result[r].kind \in {"response", "stream"}
        \/ acted[r] /\ ~result[r].thrown /\ IsError(result[r].kind)

\* How a request stands on its way, at each of its stages.
Way(r) ==
    /\ stage[r] \notin {"streaming", "stuck", "done"} => head[r] = 0
    /\ stage[r] = "none" => route[r] = NoRoute
    /\ stage[r] \in {"none", "resolving", "loading", "acting"} => reports[r] = <<>>
    /\ stage[r] = "settled" => Failed(r) \/ Returned(r)
    /\ stage[r] = "responding" => /\ result[r].kind \in {"response", "stream"}
                                  /\ Failed(r) \/ Returned(r) \/ Validated(r)
    /\ stage[r] = "streaming" => /\ result[r].kind = "stream" /\ head[r] # 0
                                 /\ Failed(r) \/ Returned(r)
    /\ stage[r] = "done" => Answered(r)

\* The inductive invariant: requests are on their way, and the index is up to date.
WayInv == TypeOK /\ index = routes /\ \A r \in Requests : Way(r)

\* A step leaves a request alone.
Untouched(r) ==
    /\ stage'[r] = stage[r] /\ acted'[r] = acted[r] /\ result'[r] = result[r]
    /\ reports'[r] = reports[r] /\ head'[r] = head[r] /\ route'[r] = route[r]
OthersUntouched(r) == \A q \in Requests : q # r => Untouched(q)

\* A request that is left alone stays where it is on its way.
LEMMA UntouchedWay ==
    ASSUME NEW q \in Requests, Way(q), Untouched(q)
    PROVE  Way(q)'
BY DEF Untouched, Way, Failed, Returned, Validated, Answered

\* The functions of a request keep their types where one request is updated.
LEMMA Updated ==
    ASSUME TypeOK, NEW r \in Requests
    PROVE  /\ \A s \in Stages : /\ [stage EXCEPT ![r] = s] \in [Requests -> Stages]
                                /\ [stage EXCEPT ![r] = s][r] = s
                                /\ \A q \in Requests : q # r => [stage EXCEPT ![r] = s][q] = stage[q]
           /\ \A b \in BOOLEAN : /\ [acted EXCEPT ![r] = b] \in [Requests -> BOOLEAN]
                                 /\ [acted EXCEPT ![r] = b][r] = b
                                 /\ \A q \in Requests : q # r => [acted EXCEPT ![r] = b][q] = acted[q]
           /\ \A o \in Outcomes : /\ [result EXCEPT ![r] = o] \in [Requests -> Outcomes]
                                  /\ [result EXCEPT ![r] = o][r] = o
                                  /\ \A q \in Requests : q # r => [result EXCEPT ![r] = o][q] = result[q]
           /\ \A c \in Heads : /\ [head EXCEPT ![r] = c] \in [Requests -> Heads]
                               /\ [head EXCEPT ![r] = c][r] = c
                               /\ \A q \in Requests : q # r => [head EXCEPT ![r] = c][q] = head[q]
BY DEF TypeOK, Stages, Outcomes, Heads

\* A report is added to those of one request.
LEMMA ReportAdded ==
    ASSUME TypeOK, NEW r \in Requests, NEW e \in Told,
           reports' = [reports EXCEPT ![r] = Append(@, e)]
    PROVE  /\ reports' \in [Requests -> Seq(Told)]
           /\ ToSet(reports'[r]) = ToSet(reports[r]) \cup {e}
           /\ \A q \in Requests : q # r => reports'[q] = reports[q]
<1>1. reports \in [Requests -> Seq(Told)]
  BY DEF TypeOK, Told
<1>2. reports[r] \in Seq(Told)
  BY <1>1
<1>3. /\ Append(reports[r], e) \in Seq(Told)
      /\ ToSet(Append(reports[r], e)) = ToSet(reports[r]) \cup {e}
  BY <1>2, Reported
<1>4. reports'[r] = Append(reports[r], e)
  BY <1>1
<1> QED
  BY <1>1, <1>3, <1>4

\* An answer has ended.
LEMMA EndedIs ==
    ASSUME TypeOK, NEW r \in Requests, Ended(r)
    PROVE  /\ stage' \in [Requests -> Stages] /\ stage'[r] = "done"
           /\ \A q \in Requests : q # r => stage'[q] = stage[q]
           /\ conn' \in [Requests -> Conns]
<1>1. stage' = [stage EXCEPT ![r] = "done"] /\ "done" \in Stages
  BY DEF Ended, Stages
<1>2. PICK next \in {"idle", "closed"} :
         conn' = IF conn[r] = "busy" THEN [conn EXCEPT ![r] = next] ELSE conn
  BY DEF Ended
<1>3. conn' \in [Requests -> Conns]
  BY <1>2 DEF TypeOK, Conns
<1>4. /\ stage' \in [Requests -> Stages] /\ stage'[r] = "done"
      /\ \A q \in Requests : q # r => stage'[q] = stage[q]
  <2>1. stage \in [Requests -> Stages]
    BY DEF TypeOK, Stages
  <2> QED
    BY <1>1, <2>1
<1> QED
  BY <1>3, <1>4

\* An answer has ended because something was thrown.
LEMMA CatchIs ==
    ASSUME TypeOK, NEW r \in Requests, Catch(r)
    PROVE  /\ stage' \in [Requests -> Stages] /\ stage'[r] = "done"
           /\ \A q \in Requests : q # r => stage'[q] = stage[q]
           /\ conn' \in [Requests -> Conns]
           /\ head' \in [Requests -> Heads]
           /\ head'[r] = IF head[r] = 0 THEN 500 ELSE head[r]
           /\ \A q \in Requests : q # r => head'[q] = head[q]
           /\ reports' \in [Requests -> Seq(Told)]
           /\ ToSet(reports'[r]) = ToSet(reports[r]) \cup {"error"}
           /\ \A q \in Requests : q # r => reports'[q] = reports[q]
<1>1. Ended(r) /\ reports' = [reports EXCEPT ![r] = Append(@, "error")]
      /\ head' = [head EXCEPT ![r] = IF @ = 0 THEN 500 ELSE @]
  BY DEF Catch
<1>2. "error" \in Told
  BY DEF Told
<1>3. /\ head' \in [Requests -> Heads]
      /\ head'[r] = IF head[r] = 0 THEN 500 ELSE head[r]
      /\ \A q \in Requests : q # r => head'[q] = head[q]
  BY <1>1 DEF TypeOK, Heads
<1> QED
  BY <1>1, <1>2, <1>3, EndedIs, ReportAdded

\* An answer is sent, or could not be.
LEMMA SendIs ==
    ASSUME TypeOK, NEW r \in Requests, NEW code \in Heads \ {0}, Send(r, code)
    PROVE  /\ stage' \in [Requests -> Stages] /\ stage'[r] = "done"
           /\ \A q \in Requests : q # r => stage'[q] = stage[q]
           /\ conn' \in [Requests -> Conns]
           /\ head' \in [Requests -> Heads]
           /\ \A q \in Requests : q # r => head'[q] = head[q]
           /\ reports' \in [Requests -> Seq(Told)]
           /\ \A q \in Requests : q # r => reports'[q] = reports[q]
           /\ \/ head'[r] = code /\ reports'[r] = reports[r]
              \/ /\ head'[r] = IF head[r] = 0 THEN 500 ELSE head[r]
                 /\ ToSet(reports'[r]) = ToSet(reports[r]) \cup {"error"}
<1>1. CASE Catch(r)
  <2>1. /\ stage' \in [Requests -> Stages] /\ stage'[r] = "done"
        /\ \A q \in Requests : q # r => stage'[q] = stage[q]
        /\ conn' \in [Requests -> Conns]
        /\ head' \in [Requests -> Heads]
        /\ head'[r] = IF head[r] = 0 THEN 500 ELSE head[r]
        /\ \A q \in Requests : q # r => head'[q] = head[q]
        /\ reports' \in [Requests -> Seq(Told)]
        /\ ToSet(reports'[r]) = ToSet(reports[r]) \cup {"error"}
        /\ \A q \in Requests : q # r => reports'[q] = reports[q]
    BY <1>1, CatchIs, Zenon
  <2> QED
    BY <2>1
<1>2. CASE head' = [head EXCEPT ![r] = code] /\ Ended(r) /\ UNCHANGED reports
  <2>1. reports' \in [Requests -> Seq(Told)]
    BY <1>2 DEF TypeOK, Told
  <2>2. /\ head' \in [Requests -> Heads] /\ head'[r] = code
        /\ \A q \in Requests : q # r => head'[q] = head[q]
    BY <1>2, Updated
  <2> QED
    BY <1>2, <2>1, <2>2, EndedIs
<1> QED
  BY <1>1, <1>2 DEF Send

------------------------------------------------------------------------------
(***************************************************************************)
(* Steps of the application                                                *)
(***************************************************************************)

\* Something is thrown on the way to the action.
LEMMA FailsIs ==
    ASSUME TypeOK, NEW r \in Requests, NEW kind \in Kinds, Fails(r, kind)
    PROVE  /\ stage' \in [Requests -> Stages] /\ stage'[r] = "settled"
           /\ result' \in [Requests -> Outcomes] /\ result'[r] = Thrown(kind)
           /\ reports' \in [Requests -> Seq(Told)]
           /\ ToSet(reports'[r]) = ToSet(reports[r]) \cup {"error"}
           /\ \A q \in Requests : q # r => /\ stage'[q] = stage[q] /\ result'[q] = result[q]
                                           /\ reports'[q] = reports[q]
<1>1. /\ stage' = [stage EXCEPT ![r] = "settled"]
      /\ result' = [result EXCEPT ![r] = Thrown(kind)]
      /\ reports' = [reports EXCEPT ![r] = Append(@, "error")]
  BY DEF Fails
<1>2. "settled" \in Stages /\ "error" \in Told /\ Thrown(kind) \in Outcomes
  BY DEF Stages, Told, Thrown, Outcomes
<1>3. /\ reports' \in [Requests -> Seq(Told)]
      /\ ToSet(reports'[r]) = ToSet(reports[r]) \cup {"error"}
      /\ \A q \in Requests : q # r => reports'[q] = reports[q]
  BY <1>1, <1>2, ReportAdded
<1>4. /\ stage' \in [Requests -> Stages] /\ stage'[r] = "settled"
      /\ result' \in [Requests -> Outcomes] /\ result'[r] = Thrown(kind)
      /\ \A q \in Requests : q # r => stage'[q] = stage[q] /\ result'[q] = result[q]
  <2>1. stage \in [Requests -> Stages] /\ result \in [Requests -> Outcomes]
    BY DEF TypeOK, Stages, Outcomes
  <2> QED
    BY <1>1, <1>2, <2>1
<1> QED
  BY <1>3, <1>4

\* A request goes on towards its action, or fails.
LEMMA GoesOrFails ==
    ASSUME TypeOK, NEW r \in Requests, Way(r), stage[r] \in {"none", "resolving", "loading"},
           acted' \in [Requests -> BOOLEAN],
           \A q \in Requests : q # r => acted'[q] = acted[q] /\ route'[q] = route[q],
           \/ \E next \in {"resolving", "loading", "acting"} : GoesTo(r, next)
           \/ \E kind \in Kinds : Fails(r, kind),
           UNCHANGED head
    PROVE  /\ stage' \in [Requests -> Stages]
           /\ result' \in [Requests -> Outcomes]
           /\ reports' \in [Requests -> Seq(Told)]
           /\ Way(r)' /\ OthersUntouched(r)
<1>1. head[r] = 0 /\ reports[r] = <<>>
  BY DEF Way
<1>2. ASSUME NEW next \in {"resolving", "loading", "acting"}, GoesTo(r, next)
      PROVE  /\ stage' \in [Requests -> Stages]
             /\ result' \in [Requests -> Outcomes]
             /\ reports' \in [Requests -> Seq(Told)]
             /\ Way(r)' /\ OthersUntouched(r)
  <2>1. stage' = [stage EXCEPT ![r] = next] /\ UNCHANGED <<result, reports>>
    BY <1>2 DEF GoesTo
  <2>2. next \in Stages
    BY DEF Stages
  <2>3. /\ stage' \in [Requests -> Stages] /\ stage'[r] = next
        /\ \A q \in Requests : q # r => stage'[q] = stage[q]
    BY <2>1, <2>2, Updated
  <2>4. Way(r)'
    BY <1>1, <2>1, <2>3 DEF Way
  <2> QED
    BY <2>1, <2>3, <2>4 DEF TypeOK, Outcomes, Told, OthersUntouched, Untouched
<1>3. ASSUME NEW kind \in Kinds, Fails(r, kind)
      PROVE  /\ stage' \in [Requests -> Stages]
             /\ result' \in [Requests -> Outcomes]
             /\ reports' \in [Requests -> Seq(Told)]
             /\ Way(r)' /\ OthersUntouched(r)
  <2>1. /\ stage' \in [Requests -> Stages] /\ stage'[r] = "settled"
        /\ result' \in [Requests -> Outcomes] /\ result'[r] = Thrown(kind)
        /\ reports' \in [Requests -> Seq(Told)]
        /\ ToSet(reports'[r]) = ToSet(reports[r]) \cup {"error"}
        /\ \A q \in Requests : q # r => /\ stage'[q] = stage[q] /\ result'[q] = result[q]
                                        /\ reports'[q] = reports[q]
    BY <1>3, FailsIs, Zenon
  <2>2. Failed(r)'
    BY <2>1 DEF Failed, Thrown
  <2>3. Way(r)'
    BY <1>1, <2>1, <2>2 DEF Way
  <2> QED
    BY <2>1, <2>3 DEF OthersUntouched, Untouched
<1> QED
  BY <1>2, <1>3

\* run() finds the route, or fails.
LEMMA RunIs ==
    ASSUME TypeOK, NEW r \in Requests, Way(r), stage[r] = "none", Run(r), UNCHANGED head
    PROVE  /\ stage' \in [Requests -> Stages]
           /\ route' \in [Requests -> Routes \cup {NoRoute}] /\ route'[r] = Find(r)
           /\ acted' \in [Requests -> BOOLEAN]
           /\ result' \in [Requests -> Outcomes]
           /\ reports' \in [Requests -> Seq(Told)]
           /\ Way(r)' /\ OthersUntouched(r)
<1>1. /\ route' = [route EXCEPT ![r] = Find(r)]
      /\ acted' = [acted EXCEPT ![r] = FALSE]
      /\ \/ \E next \in {"resolving", "loading", "acting"} : GoesTo(r, next)
         \/ \E kind \in Kinds : Fails(r, kind)
  BY DEF Run, Kinds, Errors
<1>2. Find(r) \in Routes \cup {NoRoute}
  <2>1. index \in Seq(Routes)
    BY DEF TypeOK
  <2>2. \A k \in DOMAIN index : index[k] \in Routes
    BY <2>1
  <2> QED
    BY <2>1, <2>2, FindIs
<1>3. /\ route' \in [Requests -> Routes \cup {NoRoute}] /\ route'[r] = Find(r)
      /\ \A q \in Requests : q # r => route'[q] = route[q]
  BY <1>1, <1>2 DEF TypeOK
<1>4. acted' \in [Requests -> BOOLEAN] /\ \A q \in Requests : q # r => acted'[q] = acted[q]
  <2>1. acted \in [Requests -> BOOLEAN]
    BY DEF TypeOK
  <2> QED
    BY <1>1, <2>1
<1> QED
  BY <1>1, <1>3, <1>4, GoesOrFails

\* The payload is resolved and the action loaded, or that fails.
LEMMA ResolvesOrLoads ==
    ASSUME TypeOK, NEW r \in Requests, Way(r), Resolve(r) \/ Load(r), UNCHANGED <<web, conn, head>>
    PROVE  TypeOK' /\ Way(r)' /\ OthersUntouched(r) /\ UNCHANGED <<routes, index>>
<1>1. /\ stage[r] \in {"none", "resolving", "loading"}
      /\ \/ \E next \in {"resolving", "loading", "acting"} : GoesTo(r, next)
         \/ \E kind \in Kinds : Fails(r, kind)
      /\ UNCHANGED <<routing, route, acted>>
  BY ApplicationAssumption DEF Resolve, Load, Kinds, Errors
<1>2. acted' \in [Requests -> BOOLEAN] /\ \A q \in Requests : q # r => acted'[q] = acted[q]
  BY <1>1 DEF TypeOK
<1>3. /\ stage' \in [Requests -> Stages]
      /\ result' \in [Requests -> Outcomes]
      /\ reports' \in [Requests -> Seq(Told)]
      /\ Way(r)' /\ OthersUntouched(r)
  BY <1>1, <1>2, GoesOrFails
<1> QED
  BY <1>1, <1>2, <1>3 DEF TypeOK, routing, Stages, Outcomes, Told

\* The action ends.
LEMMA ActIs ==
    ASSUME TypeOK, NEW r \in Requests, Way(r), Act(r), UNCHANGED <<web, conn, head>>
    PROVE  TypeOK' /\ Way(r)' /\ OthersUntouched(r) /\ UNCHANGED <<routes, index>>
<1>1. PICK res \in Results :
         /\ result' = [result EXCEPT ![r] = res]
         /\ reports' = [reports EXCEPT ![r] = Append(@, IF res.thrown THEN "failed" ELSE "finished")]
  BY DEF Act
<1>2. /\ stage[r] = "acting"
      /\ stage' = [stage EXCEPT ![r] = "settled"]
      /\ acted' = [acted EXCEPT ![r] = TRUE]
      /\ UNCHANGED <<routing, route>>
  BY DEF Act
<1>3. res \in Outcomes /\ "settled" \in Stages /\ TRUE \in BOOLEAN
  BY ApplicationAssumption DEF Outcomes, Stages
<1>4. PICK e \in Told : e = IF res.thrown THEN "failed" ELSE "finished"
  BY DEF Told
<1>5. /\ reports' \in [Requests -> Seq(Told)]
      /\ ToSet(reports'[r]) = ToSet(reports[r]) \cup {e}
      /\ \A q \in Requests : q # r => reports'[q] = reports[q]
  BY <1>1, <1>4, ReportAdded
<1>6. /\ stage' \in [Requests -> Stages] /\ stage'[r] = "settled"
      /\ acted' \in [Requests -> BOOLEAN] /\ acted'[r]
      /\ result' \in [Requests -> Outcomes] /\ result'[r] = res
      /\ \A q \in Requests : q # r => /\ stage'[q] = stage[q] /\ acted'[q] = acted[q]
                                      /\ result'[q] = result[q]
  <2>1. /\ stage' \in [Requests -> Stages] /\ stage'[r] = "settled"
        /\ \A q \in Requests : q # r => stage'[q] = stage[q]
    BY <1>2, <1>3, Updated
  <2>2. /\ acted' \in [Requests -> BOOLEAN] /\ acted'[r]
        /\ \A q \in Requests : q # r => acted'[q] = acted[q]
    <3>1. acted \in [Requests -> BOOLEAN]
      BY DEF TypeOK
    <3> QED
      BY <1>2, <3>1
  <2>3. /\ result' \in [Requests -> Outcomes] /\ result'[r] = res
        /\ \A q \in Requests : q # r => result'[q] = result[q]
    BY <1>1, <1>3, Updated
  <2> QED
    BY <2>1, <2>2, <2>3
<1>7. head[r] = 0 /\ ToSet(reports[r]) = {}
  BY <1>2 DEF Way, ToSet
<1>8. Returned(r)'
  BY <1>4, <1>5, <1>6, <1>7 DEF Returned
<1>9. Way(r)'
  BY <1>6, <1>7, <1>8 DEF Way
<1>10. OthersUntouched(r)
  BY <1>2, <1>5, <1>6 DEF OthersUntouched, Untouched
<1> QED
  BY <1>2, <1>5, <1>6, <1>9, <1>10 DEF TypeOK, routing, Stages, Outcomes, Told

------------------------------------------------------------------------------
(***************************************************************************)
(* Steps of the server                                                     *)
(***************************************************************************)

\* A request is left as it is.
LEMMA StaysIs ==
    ASSUME TypeOK, NEW r \in Requests, Stays(r)
    PROVE  /\ stage' \in [Requests -> Stages] /\ stage'[r] = "stuck"
           /\ \A q \in Requests : q # r => stage'[q] = stage[q]
           /\ UNCHANGED <<conn, reports, head>>
<1>1. stage \in [Requests -> Stages] /\ "stuck" \in Stages
  BY DEF TypeOK, Stages
<1> QED
  BY <1>1 DEF Stays

\* What run() has settled with is answered, or left to getResponse().
LEMMA RespondIs ==
    ASSUME TypeOK, NEW r \in Requests, Way(r), Respond(r)
    PROVE  TypeOK' /\ Way(r)' /\ OthersUntouched(r) /\ UNCHANGED <<routes, index>>
<1>1. /\ stage[r] = "settled" /\ head[r] = 0
      /\ Failed(r) \/ Returned(r)
      /\ UNCHANGED <<routes, index, web, route, acted, result>>
  BY DEF Respond, Way, routing
<1>2. SUFFICES /\ stage' \in [Requests -> Stages]
               /\ conn' \in [Requests -> Conns]
               /\ head' \in [Requests -> Heads]
               /\ reports' \in [Requests -> Seq(Told)]
               /\ Way(r)'
               /\ \A q \in Requests : q # r => /\ stage'[q] = stage[q] /\ head'[q] = head[q]
                                               /\ reports'[q] = reports[q]
  BY <1>1 DEF TypeOK, Stages, Conns, Heads, Told, OthersUntouched, Untouched
<1>3. CASE result[r].kind \in {"response", "stream"}
  <2>1. stage' = [stage EXCEPT ![r] = "responding"] /\ UNCHANGED <<conn, reports, head>>
    BY <1>3 DEF Respond
  <2>2. /\ stage' \in [Requests -> Stages] /\ stage'[r] = "responding"
        /\ \A q \in Requests : q # r => stage'[q] = stage[q]
    <3>1. stage \in [Requests -> Stages] /\ "responding" \in Stages
      BY DEF TypeOK, Stages
    <3> QED
      BY <2>1, <3>1
  <2>3. Failed(r)' \/ Returned(r)'
    BY <1>1, <2>1 DEF Failed, Returned
  <2>4. Way(r)'
    BY <1>1, <1>3, <2>1, <2>2, <2>3 DEF Way
  <2> QED
    BY <2>1, <2>2, <2>4 DEF TypeOK, Conns, Heads, Told
<1>4. CASE result[r].kind = "unknown"
  <2>1. head' = [head EXCEPT ![r] = 200] /\ Ended(r) /\ UNCHANGED reports
    BY <1>4 DEF Respond
  <2>2. /\ stage' \in [Requests -> Stages] /\ stage'[r] = "done"
        /\ \A q \in Requests : q # r => stage'[q] = stage[q]
        /\ conn' \in [Requests -> Conns]
    BY <2>1, EndedIs
  <2>3. /\ head' \in [Requests -> Heads] /\ head'[r] = 200
        /\ \A q \in Requests : q # r => head'[q] = head[q]
    <3>1. head \in [Requests -> Heads] /\ 200 \in Heads
      BY DEF TypeOK, Heads
    <3> QED
      BY <2>1, <3>1
  <2>4. ~IsError(result[r].kind)
    BY <1>4 DEF IsError, Errors
  <2>5. Answered(r)'
    <3>1. result' = result /\ reports' = reports /\ acted' = acted
      BY <1>1, <2>1
    <3>2. head'[r] # 0 /\ Success(head'[r])
      BY <2>3 DEF Success
    <3>3. CASE Failed(r)
      <4>1. "error" \in {"error", "failed"} \cap ToSet(reports'[r])
        BY <3>1, <3>3 DEF Failed
      <4> QED
        BY <2>4, <3>1, <3>2, <3>3, <4>1 DEF Answered, Failed
    <3>4. CASE Returned(r)
      <4>1. result[r].thrown => {"error", "failed"} \cap ToSet(reports'[r]) # {}
        BY <3>1, <3>4 DEF Returned
      <4>2. acted[r] /\ "error" \notin ToSet(reports'[r])
        BY <3>1, <3>4 DEF Returned
      <4> QED
        BY <3>1, <3>2, <4>1, <4>2 DEF Answered
    <3> QED
      BY <1>1, <3>3, <3>4
  <2>6. Way(r)'
    BY <2>2, <2>5 DEF Way
  <2> QED
    BY <2>1, <2>2, <2>3, <2>6 DEF TypeOK, Told
<1>5. CASE result[r].kind \notin {"response", "stream", "unknown"}
  <2>1. PICK code : code = Status(result[r].kind)
    OBVIOUS
  <2>2. Send(r, code)
    BY <1>5, <2>1 DEF Respond
  <2>3. code \in Heads \ {0}
    BY <2>1, StatusIs
  <2>4. Success(code) <=> ~IsError(result[r].kind)
    BY <2>1, StatusIs
  <2>5. /\ stage' \in [Requests -> Stages] /\ stage'[r] = "done"
        /\ \A q \in Requests : q # r => stage'[q] = stage[q]
        /\ conn' \in [Requests -> Conns]
        /\ head' \in [Requests -> Heads]
        /\ \A q \in Requests : q # r => head'[q] = head[q]
        /\ reports' \in [Requests -> Seq(Told)]
        /\ \A q \in Requests : q # r => reports'[q] = reports[q]
        /\ \/ head'[r] = code /\ reports'[r] = reports[r]
           \/ /\ head'[r] = IF head[r] = 0 THEN 500 ELSE head[r]
              /\ ToSet(reports'[r]) = ToSet(reports[r]) \cup {"error"}
    BY <2>2, <2>3, SendIs, Zenon
  <2>6. Answered(r)'
    <3>1. CASE head'[r] = code /\ reports'[r] = reports[r]
      <4>1. /\ result' = result /\ acted' = acted /\ head'[r] # 0
            /\ Success(head'[r]) <=> ~IsError(result[r].kind)
        BY <1>1, <2>3, <2>4, <3>1
      <4>2. CASE Failed(r)
        <5>1. "error" \in {"error", "failed"} \cap ToSet(reports'[r])
          BY <3>1, <4>2 DEF Failed
        <5>2. {"error", "failed"} \cap ToSet(reports'[r]) # {} /\ result[r].thrown
          BY <4>2, <5>1 DEF Failed
        <5> QED
          BY <4>1, <5>2 DEF Answered
      <4>3. CASE Returned(r)
        <5>1. result[r].thrown => {"error", "failed"} \cap ToSet(reports'[r]) # {}
          BY <3>1, <4>3 DEF Returned
        <5>2. acted[r] /\ "error" \notin ToSet(reports'[r])
          BY <3>1, <4>3 DEF Returned
        <5> QED
          BY <4>1, <5>1, <5>2 DEF Answered
      <4> QED
        BY <1>1, <4>2, <4>3
    <3>2. CASE head'[r] = 500 /\ "error" \in ToSet(reports'[r])
      <4>1. "error" \in {"error", "failed"} \cap ToSet(reports'[r])
        BY <3>2
      <4>2. ~Success(head'[r])
        BY <3>2 DEF Success
      <4> QED
        BY <3>2, <4>1, <4>2 DEF Answered
    <3> QED
      BY <1>1, <2>5, <3>1, <3>2
  <2>7. Way(r)'
    BY <2>5, <2>6 DEF Way
  <2> QED
    BY <2>5, <2>7
<1> QED
  BY <1>3, <1>4, <1>5

\* getResponse() has settled, or a stream has ended.
LEMMA GetResponseIs ==
    ASSUME TypeOK, NEW r \in Requests, Way(r), GetResponse(r)
    PROVE  TypeOK' /\ Way(r)' /\ OthersUntouched(r) /\ UNCHANGED <<routes, index>>
<1>1. /\ stage[r] = "responding" /\ head[r] = 0
      /\ result[r].kind \in {"response", "stream"}
      /\ Failed(r) \/ Returned(r) \/ Validated(r)
      /\ UNCHANGED <<routes, index, web, route, acted, result>>
  BY DEF GetResponse, Way, routing
<1>2. SUFFICES /\ stage' \in [Requests -> Stages]
               /\ conn' \in [Requests -> Conns]
               /\ head' \in [Requests -> Heads]
               /\ reports' \in [Requests -> Seq(Told)]
               /\ Way(r)'
               /\ \A q \in Requests : q # r => /\ stage'[q] = stage[q] /\ head'[q] = head[q]
                                               /\ reports'[q] = reports[q]
  BY <1>1 DEF TypeOK, Stages, Conns, Heads, Told, OthersUntouched, Untouched
<1>3. CASE Catch(r)
  <2>1. /\ stage' \in [Requests -> Stages] /\ stage'[r] = "done"
        /\ \A q \in Requests : q # r => stage'[q] = stage[q]
        /\ conn' \in [Requests -> Conns]
        /\ head' \in [Requests -> Heads]
        /\ head'[r] = IF head[r] = 0 THEN 500 ELSE head[r]
        /\ \A q \in Requests : q # r => head'[q] = head[q]
        /\ reports' \in [Requests -> Seq(Told)]
        /\ ToSet(reports'[r]) = ToSet(reports[r]) \cup {"error"}
        /\ \A q \in Requests : q # r => reports'[q] = reports[q]
    BY <1>3, CatchIs, Zenon
  <2>2. head'[r] = 500 /\ ~Success(head'[r])
    BY <1>1, <2>1 DEF Success
  <2>3. Answered(r)'
    <3>1. "error" \in {"error", "failed"} \cap ToSet(reports'[r])
      BY <2>1
    <3> QED
      BY <2>2, <3>1 DEF Answered
  <2>4. Way(r)'
    BY <2>1, <2>3 DEF Way
  <2> QED
    BY <2>1, <2>4
<1>4. ASSUME NEW code \in Codes, result[r].kind = "response", Send(r, code)
      PROVE  /\ stage' \in [Requests -> Stages]
             /\ conn' \in [Requests -> Conns]
             /\ head' \in [Requests -> Heads]
             /\ reports' \in [Requests -> Seq(Told)]
             /\ Way(r)'
             /\ \A q \in Requests : q # r => /\ stage'[q] = stage[q] /\ head'[q] = head[q]
                                             /\ reports'[q] = reports[q]
  <2>1. code \in Heads \ {0}
    BY WebServerAssumption DEF Heads
  <2>2. /\ stage' \in [Requests -> Stages] /\ stage'[r] = "done"
        /\ \A q \in Requests : q # r => stage'[q] = stage[q]
        /\ conn' \in [Requests -> Conns]
        /\ head' \in [Requests -> Heads]
        /\ \A q \in Requests : q # r => head'[q] = head[q]
        /\ reports' \in [Requests -> Seq(Told)]
        /\ \A q \in Requests : q # r => reports'[q] = reports[q]
        /\ \/ head'[r] = code /\ reports'[r] = reports[r]
           \/ /\ head'[r] = IF head[r] = 0 THEN 500 ELSE head[r]
              /\ ToSet(reports'[r]) = ToSet(reports[r]) \cup {"error"}
    BY <1>4, <2>1, SendIs, Zenon
  <2>3. Answered(r)'
    <3>1. CASE head'[r] = code /\ reports'[r] = reports[r]
      <4>1. /\ result' = result /\ acted' = acted /\ route' = route /\ head'[r] # 0
            /\ result[r].kind = "response"
        BY <1>1, <1>4, <2>1, <3>1
      <4>2. ~IsError("response")
        BY DEF IsError, Errors
      <4>3. CASE Failed(r)
        <5>1. "error" \in {"error", "failed"} \cap ToSet(reports'[r])
          BY <3>1, <4>3 DEF Failed
        <5> QED
          BY <4>1, <4>2, <4>3, <5>1 DEF Answered, Failed
      <4>4. CASE Returned(r)
        <5>1. result[r].thrown => {"error", "failed"} \cap ToSet(reports'[r]) # {}
          BY <3>1, <4>4 DEF Returned
        <5>2. acted[r] /\ "error" \notin ToSet(reports'[r])
          BY <3>1, <4>4 DEF Returned
        <5> QED
          BY <4>1, <5>1, <5>2 DEF Answered
      <4>5. CASE Validated(r)
        <5>1. result[r].thrown /\ route[r] = NoRoute /\ "error" \notin ToSet(reports'[r])
          BY <3>1, <4>5 DEF Validated, Thrown
        <5> QED
          BY <4>1, <4>2, <5>1 DEF Answered
      <4> QED
        BY <1>1, <4>3, <4>4, <4>5
    <3>2. CASE head'[r] = 500 /\ "error" \in ToSet(reports'[r])
      <4>1. "error" \in {"error", "failed"} \cap ToSet(reports'[r])
        BY <3>2
      <4>2. ~Success(head'[r])
        BY <3>2 DEF Success
      <4> QED
        BY <3>2, <4>1, <4>2 DEF Answered
    <3> QED
      BY <1>1, <2>2, <3>1, <3>2
  <2>4. Way(r)'
    BY <2>2, <2>3 DEF Way
  <2> QED
    BY <2>2, <2>4
<1>5. ASSUME NEW code \in Codes,
             result[r].kind = "stream",
             stage' = [stage EXCEPT ![r] = "streaming"],
             head' = [head EXCEPT ![r] = code],
             UNCHANGED <<conn, reports>>
      PROVE  /\ stage' \in [Requests -> Stages]
             /\ conn' \in [Requests -> Conns]
             /\ head' \in [Requests -> Heads]
             /\ reports' \in [Requests -> Seq(Told)]
             /\ Way(r)'
             /\ \A q \in Requests : q # r => /\ stage'[q] = stage[q] /\ head'[q] = head[q]
                                             /\ reports'[q] = reports[q]
  <2>1. /\ stage' \in [Requests -> Stages] /\ stage'[r] = "streaming"
        /\ \A q \in Requests : q # r => stage'[q] = stage[q]
    <3>1. stage \in [Requests -> Stages] /\ "streaming" \in Stages
      BY DEF TypeOK, Stages
    <3> QED
      BY <1>5, <3>1
  <2>2. /\ head' \in [Requests -> Heads] /\ head'[r] # 0
        /\ \A q \in Requests : q # r => head'[q] = head[q]
    <3>1. head \in [Requests -> Heads] /\ code \in Heads /\ code # 0
      BY WebServerAssumption DEF TypeOK, Heads
    <3> QED
      BY <1>5, <3>1
  <2>3. Failed(r)' \/ Returned(r)'
    BY <1>1, <1>5 DEF Validated, Thrown, Failed, Returned
  <2>4. Way(r)'
    BY <1>1, <1>5, <2>1, <2>2, <2>3 DEF Way
  <2> QED
    BY <1>5, <2>1, <2>2, <2>4 DEF TypeOK, Conns, Told
<1>6. CASE Stays(r)
  <2>1. /\ stage' \in [Requests -> Stages] /\ stage'[r] = "stuck"
        /\ \A q \in Requests : q # r => stage'[q] = stage[q]
        /\ UNCHANGED <<conn, reports, head>>
    BY <1>6, StaysIs
  <2>2. Way(r)'
    BY <2>1 DEF Way
  <2> QED
    BY <2>1, <2>2 DEF TypeOK, Conns, Heads, Told
<1>7. \/ Catch(r) \/ Stays(r)
      \/ \E code \in Codes :
           \/ /\ result[r].kind = "response"
              /\ Send(r, code)
           \/ /\ result[r].kind = "stream"
              /\ stage' = [stage EXCEPT ![r] = "streaming"]
              /\ head' = [head EXCEPT ![r] = code]
              /\ UNCHANGED <<conn, reports>>
  BY DEF GetResponse
<1> QED
  BY <1>3, <1>4, <1>5, <1>6, <1>7

\* A stream has ended, or is not heard of.
LEMMA StreamIs ==
    ASSUME TypeOK, NEW r \in Requests, Way(r), Stream(r)
    PROVE  TypeOK' /\ Way(r)' /\ OthersUntouched(r) /\ UNCHANGED <<routes, index>>
<1>1. /\ result[r].kind = "stream" /\ head[r] # 0
      /\ Failed(r) \/ Returned(r)
      /\ UNCHANGED <<routes, index, web, route, acted, result>>
  BY DEF Stream, Way, routing
<1>2. SUFFICES /\ stage' \in [Requests -> Stages]
               /\ conn' \in [Requests -> Conns]
               /\ head' \in [Requests -> Heads]
               /\ reports' \in [Requests -> Seq(Told)]
               /\ Way(r)'
               /\ \A q \in Requests : q # r => /\ stage'[q] = stage[q] /\ head'[q] = head[q]
                                               /\ reports'[q] = reports[q]
  BY <1>1 DEF TypeOK, Stages, Conns, Heads, Told, OthersUntouched, Untouched
<1>3. ASSUME stage'[r] = "done", head'[r] = head[r],
             ToSet(reports[r]) \subseteq ToSet(reports'[r])
      PROVE  Way(r)'
  <2>1. result' = result /\ acted' = acted /\ head'[r] # 0 /\ result[r].kind = "stream"
    BY <1>1, <1>3
  <2>2. ~IsError("stream")
    BY DEF IsError, Errors
  <2>3. result[r].thrown => {"error", "failed"} \cap ToSet(reports'[r]) # {}
    <3>1. CASE Failed(r)
      <4>1. "error" \in {"error", "failed"} \cap ToSet(reports'[r])
        BY <1>3, <3>1 DEF Failed
      <4> QED
        BY <4>1
    <3>2. CASE Returned(r)
      <4>1. result[r].thrown => "failed" \in {"error", "failed"} \cap ToSet(reports'[r])
        BY <1>3, <3>2 DEF Returned
      <4> QED
        BY <4>1
    <3> QED
      BY <1>1, <3>1, <3>2
  <2>4. acted[r] \/ result[r].thrown
    BY <1>1 DEF Failed, Returned
  <2>5. Answered(r)'
    BY <2>1, <2>2, <2>3, <2>4 DEF Answered
  <2> QED
    BY <1>3, <2>5 DEF Way
<1>4. CASE Ended(r) /\ UNCHANGED <<head, reports>>
  <2>1. /\ stage' \in [Requests -> Stages] /\ stage'[r] = "done"
        /\ \A q \in Requests : q # r => stage'[q] = stage[q]
        /\ conn' \in [Requests -> Conns]
    BY <1>4, EndedIs
  <2>2. Way(r)'
    BY <1>3, <1>4, <2>1
  <2> QED
    BY <1>4, <2>1, <2>2 DEF TypeOK, Heads, Told
<1>5. CASE Catch(r)
  <2>1. /\ stage' \in [Requests -> Stages] /\ stage'[r] = "done"
        /\ \A q \in Requests : q # r => stage'[q] = stage[q]
        /\ conn' \in [Requests -> Conns]
        /\ head' \in [Requests -> Heads]
        /\ head'[r] = IF head[r] = 0 THEN 500 ELSE head[r]
        /\ \A q \in Requests : q # r => head'[q] = head[q]
        /\ reports' \in [Requests -> Seq(Told)]
        /\ ToSet(reports'[r]) = ToSet(reports[r]) \cup {"error"}
        /\ \A q \in Requests : q # r => reports'[q] = reports[q]
    BY <1>5, CatchIs, Zenon
  <2>2. head'[r] = head[r] /\ ToSet(reports[r]) \subseteq ToSet(reports'[r])
    BY <1>1, <2>1
  <2>3. Way(r)'
    BY <1>3, <2>1, <2>2
  <2> QED
    BY <2>1, <2>3
<1>6. CASE Stays(r)
  <2>1. /\ stage' \in [Requests -> Stages] /\ stage'[r] = "stuck"
        /\ \A q \in Requests : q # r => stage'[q] = stage[q]
        /\ UNCHANGED <<conn, reports, head>>
    BY <1>6, StaysIs
  <2>2. Way(r)'
    BY <2>1 DEF Way
  <2> QED
    BY <2>1, <2>2 DEF TypeOK, Conns, Heads, Told
<1> QED
  BY <1>4, <1>5, <1>6 DEF Stream

\* A request arrives: it fails, or is answered, or runs.
LEMMA ArriveIs ==
    ASSUME TypeOK, NEW r \in Requests, Way(r), Arrive(r)
    PROVE  TypeOK' /\ Way(r)' /\ OthersUntouched(r) /\ UNCHANGED <<routes, index>>
<1>1. PICK connected \in [Requests -> Conns] :
        \/ /\ stage' = [stage EXCEPT ![r] = "done"]
           /\ head' = [head EXCEPT ![r] = 500]
           /\ reports' = [reports EXCEPT ![r] = Append(@, "error")]
           /\ \E next \in {"idle", "closed"} : conn' = [connected EXCEPT ![r] = next]
           /\ UNCHANGED <<route, acted, result>>
        \/ /\ stage' = [stage EXCEPT ![r] = "responding"]
           /\ result' = [result EXCEPT ![r] = Thrown("response")]
           /\ conn' = connected
           /\ UNCHANGED <<head, route, acted, reports>>
        \/ Run(r) /\ conn' = connected /\ UNCHANGED head
  BY DEF Arrive, Conns
<1>2. /\ stage[r] = "none" /\ head[r] = 0 /\ route[r] = NoRoute /\ ToSet(reports[r]) = {}
      /\ UNCHANGED <<routes, index, web>>
  BY DEF Arrive, Way, routing, ToSet
<1>3. /\ stage \in [Requests -> Stages] /\ head \in [Requests -> Heads]
      /\ result \in [Requests -> Outcomes] /\ reports \in [Requests -> Seq(Told)]
      /\ acted \in [Requests -> BOOLEAN]
  BY DEF TypeOK, Stages, Heads, Told
<1>4. ASSUME stage' = [stage EXCEPT ![r] = "done"],
             head' = [head EXCEPT ![r] = 500],
             reports' = [reports EXCEPT ![r] = Append(@, "error")],
             \E next \in {"idle", "closed"} : conn' = [connected EXCEPT ![r] = next],
             UNCHANGED <<route, acted, result>>
      PROVE  TypeOK' /\ Way(r)' /\ OthersUntouched(r)
  <2>1. "done" \in Stages /\ 500 \in Heads /\ "error" \in Told
    BY DEF Stages, Heads, Told
  <2>2. /\ stage' \in [Requests -> Stages] /\ stage'[r] = "done"
        /\ head' \in [Requests -> Heads] /\ head'[r] = 500
        /\ conn' \in [Requests -> Conns]
        /\ \A q \in Requests : q # r => stage'[q] = stage[q] /\ head'[q] = head[q]
    BY <1>3, <1>4, <2>1 DEF Conns
  <2>3. /\ reports' \in [Requests -> Seq(Told)]
        /\ ToSet(reports'[r]) = ToSet(reports[r]) \cup {"error"}
        /\ \A q \in Requests : q # r => reports'[q] = reports[q]
    BY <1>4, <2>1, ReportAdded
  <2>4. Answered(r)'
    <3>1. "error" \in {"error", "failed"} \cap ToSet(reports'[r])
      BY <2>3
    <3>2. ~Success(head'[r])
      BY <2>2 DEF Success
    <3> QED
      BY <2>2, <3>1, <3>2 DEF Answered
  <2>5. Way(r)'
    BY <2>2, <2>4 DEF Way
  <2> QED
    BY <1>2, <1>4, <2>2, <2>3, <2>5 DEF TypeOK, Stages, Conns, Heads, Told, OthersUntouched, Untouched
<1>5. ASSUME stage' = [stage EXCEPT ![r] = "responding"],
             result' = [result EXCEPT ![r] = Thrown("response")],
             conn' = connected,
             UNCHANGED <<head, route, acted, reports>>
      PROVE  TypeOK' /\ Way(r)' /\ OthersUntouched(r)
  <2>1. "responding" \in Stages /\ Thrown("response") \in Outcomes /\ Thrown("response").kind = "response"
    BY DEF Stages, Thrown, Outcomes, Kinds
  <2>2. /\ stage' \in [Requests -> Stages] /\ stage'[r] = "responding"
        /\ result' \in [Requests -> Outcomes] /\ result'[r] = Thrown("response")
        /\ \A q \in Requests : q # r => stage'[q] = stage[q] /\ result'[q] = result[q]
    BY <1>3, <1>5, <2>1
  <2>3. Validated(r)'
    BY <1>2, <1>5, <2>2 DEF Validated, Thrown
  <2>4. Way(r)'
    BY <1>2, <1>5, <2>1, <2>2, <2>3 DEF Way
  <2> QED
    BY <1>2, <1>5, <2>2, <2>4 DEF TypeOK, Stages, Conns, Heads, Told, OthersUntouched, Untouched
<1>6. ASSUME Run(r), conn' = connected, UNCHANGED head
      PROVE  TypeOK' /\ Way(r)' /\ OthersUntouched(r)
  <2>1. /\ stage' \in [Requests -> Stages]
        /\ route' \in [Requests -> Routes \cup {NoRoute}]
        /\ acted' \in [Requests -> BOOLEAN]
        /\ result' \in [Requests -> Outcomes]
        /\ reports' \in [Requests -> Seq(Told)]
        /\ Way(r)' /\ OthersUntouched(r)
    BY <1>2, <1>6, RunIs
  <2> QED
    BY <1>2, <1>6, <2>1 DEF TypeOK, Stages, Conns, Heads, Told
<1> QED
  BY <1>1, <1>2, <1>4, <1>5, <1>6


\* Of the requests, a step moves at most one.
LEMMA ProgressIs ==
    ASSUME TypeOK, NEW r \in Requests, Way(r), Progress(r)
    PROVE  TypeOK' /\ Way(r)' /\ OthersUntouched(r) /\ UNCHANGED <<routes, index>>
<1>1. CASE AppStep(Resolve(r)) \/ AppStep(Load(r))
  BY <1>1, ResolvesOrLoads DEF AppStep
<1>2. CASE AppStep(Act(r))
  BY <1>2, ActIs DEF AppStep
<1>3. CASE Respond(r)
  BY <1>3, RespondIs, Zenon
<1>4. CASE GetResponse(r)
  BY <1>4, GetResponseIs, Zenon
<1>5. CASE Stream(r)
  BY <1>5, StreamIs, Zenon
<1> QED
  BY <1>1, <1>2, <1>3, <1>4, <1>5 DEF Progress

\* Routes are added to the index and removed from it together.
LEMMA RoutesAre ==
    ASSUME TypeOK, index = routes, NEW t \in Routes, AppStep(AddRoute(t)) \/ AppStep(RemoveRoute(t))
    PROVE  TypeOK' /\ (index = routes)' /\ \A q \in Requests : Untouched(q)
<1>1. UNCHANGED <<running, stage, web, conn, head>>
  BY DEF AppStep, AddRoute, RemoveRoute
<1>2. routes' \in Seq(Routes) /\ index' = routes'
  <2>1. CASE AddRoute(t)
    BY <2>1 DEF AddRoute, TypeOK
  <2>2. CASE RemoveRoute(t)
    <3>1. PICK k \in DOMAIN routes : routes' = RemoveAt(routes, k)
      BY <2>2 DEF RemoveRoute
    <3>2. ASSUME NEW s \in Seq(Routes), NEW i \in DOMAIN s
          PROVE  RemoveAt(s, i) \in Seq(Routes)
      BY DEF RemoveAt
    <3> QED
      BY <2>2, <3>1, <3>2 DEF RemoveRoute, TypeOK
  <2> QED
    BY <2>1, <2>2 DEF AppStep
<1>3. TypeOK'
  BY <1>1, <1>2 DEF TypeOK, running
<1> QED
  BY <1>1, <1>2, <1>3 DEF Untouched, running

\* Clients leave, and the server is disposed of or ends with its process, without a
\* request going on.
LEMMA ClosesAre ==
    ASSUME TypeOK, (\E r \in Requests : Leave(r) \/ StreamFails(r)) \/ Dispose \/ Closed
    PROVE  TypeOK' /\ UNCHANGED <<routes, index>> /\ \A q \in Requests : Untouched(q)
<1>1. UNCHANGED <<routing, running, stage, head>>
  BY DEF Leave, StreamFails, Dispose, Closed
<1>2. conn \in [Requests -> Conns] /\ web \in {"listening", "closing", "closed", "gone"}
  BY DEF TypeOK, Conns
<1>3. conn' \in [Requests -> Conns] /\ web' \in {"listening", "closing", "closed", "gone"}
  <2>1. CASE \E r \in Requests : Leave(r)
    BY <1>2, <2>1 DEF Leave, Conns
  <2>2. CASE \E r \in Requests : StreamFails(r)
    BY <1>2, <2>2 DEF StreamFails, Conns
  <2>3. CASE Dispose
    BY <1>2, <2>3 DEF Dispose, Conns
  <2>4. CASE Closed
    BY <1>2, <2>4 DEF Closed
  <2> QED
    BY <2>1, <2>2, <2>3, <2>4
<1>4. TypeOK'
  BY <1>1, <1>3 DEF TypeOK, routing, running, Conns
<1> QED
  BY <1>1, <1>4 DEF Untouched, routing, running

\* The invariant holds of a server that has just been started.
LEMMA WayInit ==
    Init => WayInv
<1> SUFFICES ASSUME Init PROVE WayInv
  OBVIOUS
<1>1. TypeOK
  BY DEF Init, RoutingInit, TypeOK, None, Outcomes, Kinds
<1>2. index = routes
  BY DEF Init, RoutingInit
<1>3. ASSUME NEW r \in Requests PROVE Way(r)
  BY DEF Init, RoutingInit, Way
<1> QED
  BY <1>1, <1>2, <1>3 DEF WayInv

\* Every step keeps it.
LEMMA WayKept ==
    WayInv /\ [Next]_vars => WayInv'
<1> SUFFICES ASSUME WayInv, [Next]_vars PROVE WayInv'
  OBVIOUS
<1>1. TypeOK /\ index = routes /\ \A r \in Requests : Way(r)
  BY DEF WayInv
<1>2. ASSUME NEW r \in Requests, Way(r)', OthersUntouched(r)
      PROVE  \A q \in Requests : Way(q)'
  BY <1>1, <1>2, UntouchedWay DEF OthersUntouched
<1>3. ASSUME \A q \in Requests : Untouched(q)
      PROVE  \A q \in Requests : Way(q)'
  BY <1>1, <1>3, UntouchedWay
<1>4. CASE \E r \in Requests : Arrive(r)
  BY <1>1, <1>2, <1>4, ArriveIs DEF WayInv
<1>5. CASE \E r \in Requests : Progress(r)
  BY <1>1, <1>2, <1>5, ProgressIs DEF WayInv
<1>6. CASE \E t \in Routes : AppStep(AddRoute(t)) \/ AppStep(RemoveRoute(t))
  BY <1>1, <1>3, <1>6, RoutesAre DEF WayInv
<1>7. CASE (\E r \in Requests : Leave(r) \/ StreamFails(r)) \/ Dispose \/ Closed
  BY <1>1, <1>3, <1>7, ClosesAre DEF WayInv
<1>8. CASE UNCHANGED vars
  <2>1. TypeOK' /\ (index = routes)'
    BY <1>1, <1>8 DEF TypeOK, vars, routing, running
  <2>2. \A q \in Requests : Untouched(q)
    BY <1>8 DEF Untouched, vars, running
  <2> QED
    BY <1>3, <2>1, <2>2 DEF WayInv
<1> QED
  BY <1>4, <1>5, <1>6, <1>7, <1>8 DEF Next

\* Requests are on their way, and the index is up to date.
THEOREM WayInvariant == Spec => []WayInv
BY WayInit, WayKept, PTL DEF Spec

\* A request is answered as a success only if its action has run, or what was thrown before
\* that is no error; whatever is thrown on the way is told to a handler, but for what a
\* validator answers with; and a failure is answered only where something has failed, or a
\* response says so.
THEOREM AnswersTellTheTruth == Spec => []RequestsAreToldTrue
<1>1. WayInv => RequestsAreToldTrue
  BY DEF WayInv, Way, Answered, RequestsAreToldTrue, AnswersAreTrue
<1> QED
  BY <1>1, WayInvariant, PTL

------------------------------------------------------------------------------
(***************************************************************************)
(* One route and one head                                                  *)
(***************************************************************************)

\* A request that starts to run runs the oldest route that matches.
LEMMA ArriveFinds ==
    ASSUME WayInv, NEW r \in Requests, Arrive(r), stage'[r] \in {"resolving", "loading", "settled"}
    PROVE  LET matching == {k \in DOMAIN routes : Target[r] \in Matched[routes[k]]}
           IN  \/ matching = {} /\ route'[r] = NoRoute
               \/ \E k \in matching : /\ route'[r] = routes[k]
                                      /\ \A j \in matching : k <= j
<1>1. TypeOK /\ index = routes /\ Way(r) /\ stage[r] = "none"
  BY DEF WayInv, Arrive
<1>2. Run(r) /\ UNCHANGED head
  BY <1>1 DEF Arrive, TypeOK
<1>3. route'[r] = Find(r)
  BY <1>1, <1>2, RunIs
<1>4. routes \in Seq(Routes) /\ index \in Seq(Routes)
  BY <1>1 DEF TypeOK
<1>5. \/ Find(r) = NoRoute /\ \A k \in DOMAIN index : ~Test(index[k], r)
      \/ \E k \in DOMAIN index :
            /\ Find(r) = index[k] /\ Test(index[k], r)
            /\ \A j \in DOMAIN index : Test(index[j], r) => k <= j
  BY <1>4, FindIs
<1> QED
  BY <1>1, <1>3, <1>5 DEF Test

\* Only a request that arrives starts to run.
LEMMA OldestRouteStep ==
    ASSUME WayInv, [Next]_vars, NEW r \in Requests,
           stage[r] = "none", stage'[r] \in {"resolving", "loading", "settled"}
    PROVE  Arrive(r)
<1>1. TypeOK /\ index = routes /\ \A q \in Requests : Way(q)
  BY DEF WayInv
<1>2. ~Untouched(r)
  BY DEF Untouched
<1>3. CASE \E q \in Requests : Arrive(q)
  BY <1>1, <1>2, <1>3, ArriveIs DEF OthersUntouched
<1>4. CASE \E q \in Requests : Progress(q)
  <2>1. PICK q \in Requests : Progress(q)
    BY <1>4
  <2>2. stage[q] # "none"
    BY <2>1 DEF Progress, AppStep, Resolve, Load, Act, Respond, GetResponse, Stream
  <2> QED
    BY <1>1, <1>2, <2>1, <2>2, ProgressIs DEF OthersUntouched
<1>5. CASE \E t \in Routes : AppStep(AddRoute(t)) \/ AppStep(RemoveRoute(t))
  BY <1>1, <1>2, <1>5, RoutesAre
<1>6. CASE (\E q \in Requests : Leave(q) \/ StreamFails(q)) \/ Dispose \/ Closed
  BY <1>1, <1>2, <1>6, ClosesAre
<1>7. CASE UNCHANGED vars
  BY <1>7 DEF vars
<1> QED
  BY <1>3, <1>4, <1>5, <1>6, <1>7 DEF Next

\* A head that has been sent stays.
LEMMA HeadStep ==
    ASSUME WayInv, [Next]_vars, NEW r \in Requests, head[r] # 0
    PROVE  head'[r] = head[r]
<1>1. TypeOK /\ index = routes /\ \A q \in Requests : Way(q)
  BY DEF WayInv
<1>2. stage[r] \in {"streaming", "stuck", "done"}
  BY <1>1 DEF Way, TypeOK
<1>3. CASE \E q \in Requests : Arrive(q)
  <2>1. PICK q \in Requests : Arrive(q)
    BY <1>3
  <2>2. q # r
    BY <1>2, <2>1 DEF Arrive
  <2> QED
    BY <1>1, <2>1, <2>2, ArriveIs DEF OthersUntouched, Untouched
<1>4. CASE \E q \in Requests : Progress(q)
  <2>1. PICK q \in Requests : Progress(q)
    BY <1>4
  <2>2. CASE q # r
    BY <1>1, <2>1, <2>2, ProgressIs DEF OthersUntouched, Untouched
  <2>3. CASE q = r
    <3>1. Stream(r)
      BY <1>2, <2>1, <2>3 DEF Progress, AppStep, Resolve, Load, Act, Respond, GetResponse
    <3>2. CASE UNCHANGED head
      BY <3>2
    <3>3. CASE Catch(r)
      BY <1>1, <3>3 DEF Catch, TypeOK
    <3> QED
      BY <3>1, <3>2, <3>3 DEF Stream, Stays
  <2> QED
    BY <2>2, <2>3
<1>5. CASE \E t \in Routes : AppStep(AddRoute(t)) \/ AppStep(RemoveRoute(t))
  BY <1>5 DEF AppStep
<1>6. CASE (\E q \in Requests : Leave(q) \/ StreamFails(q)) \/ Dispose \/ Closed
  BY <1>6 DEF Leave, StreamFails, Dispose, Closed
<1>7. CASE UNCHANGED vars
  BY <1>7 DEF vars
<1> QED
  BY <1>3, <1>4, <1>5, <1>6, <1>7 DEF Next

\* A request runs the route that has been known longest of those that match, and is
\* answered with one head.
THEOREM OneRouteAndOneHead == Spec => OneRouteOneHead
<1> DEFINE Oldest == \A r \in Requests :
              stage[r] = "none" /\ stage'[r] \in {"resolving", "loading", "settled"} =>
                  LET matching == {k \in DOMAIN routes : Target[r] \in Matched[routes[k]]}
                  IN  \/ matching = {} /\ route'[r] = NoRoute
                      \/ \E k \in matching : /\ route'[r] = routes[k]
                                             /\ \A j \in matching : k <= j
           Once == \A r \in Requests : head[r] # 0 => head'[r] = head[r]
<1>1. WayInv /\ [Next]_vars => [Oldest]_<<routing, stage, running>>
  BY OldestRouteStep, ArriveFinds
<1>2. WayInv /\ [Next]_vars => [Once]_vars
  BY HeadStep
<1> QED
  BY <1>1, <1>2, WayInvariant, PTL DEF Spec, OneRouteOneHead, OldestRouteIsFound, HeadIsSentOnce

================================================================================
