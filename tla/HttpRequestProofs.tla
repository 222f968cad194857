--------------------------- MODULE HttpRequestProofs ---------------------------
(***************************************************************************)
(* What one request may do and what its answer says, for any requests and  *)
(* any body limit.                                                         *)
(*                                                                         *)
(* Two invariants.  Checked: what a handler is still to check and what has *)
(* held make up all of its checks, and a body is read before it is parsed. *)
(* Recorded: by the step of the handler, what the recorder holds and what  *)
(* it says of the effect on the store.                                     *)
(***************************************************************************)
EXTENDS HttpRequest, SequenceTheorems, TLAPS

Kinds == {"read", "write", "noQuery", "format", "json", "path", "spelling", "body", "parse"}
Names(checks) == {checks[i] : i \in 1..Len(checks)}

\* What it means that a check has held.
Passed(c) ==
    /\ c = "read" => request.token \in {"read", "write"}
    /\ c = "write" => request.token = "write"
    /\ c = "noQuery" => request.query = "none"
    /\ c = "format" => request.query \in {"none", "format", "unparsable"}
    /\ c = "json" => request.media = "json"
    /\ c = "path" => request.path = "code"
    /\ c = "body" => consumed = request.length /\ consumed <= MaxRequestBytes
    /\ c = "parse" => /\ request.content = "good"
                      /\ request.route = "dataset" => request.path = "code"

BodyFirst(checks) == \A i \in 2..Len(checks) : checks[i] = "parse" => checks[i - 1] = "body"

Routed == request.route \in DOMAIN Methods /\ request.method \in Methods[request.route]

AllPassed == \A c \in Names(Checks(request)) : Passed(c)

Checked ==
    /\ request \in Request
    /\ pc = "routing" => ~called
    /\ pc = "checking" =>
        /\ ~called /\ Routed
        /\ todo \in Seq(Kinds) /\ BodyFirst(todo)
        /\ \A c \in Names(Checks(request)) \ Names(todo) : Passed(c)
        /\ HasBody(request) /\ todo = <<"parse">> => consumed = request.length
    /\ called => Routed /\ request.route \notin Static /\ AllPassed

-----------------------------------------------------------------------------
(* Checks.                                                                 *)

\* The tail of a list of checks has all of their names but the first.
LEMMA TailNames ==
    ASSUME NEW s \in Seq(Kinds), s # <<>>
    PROVE  /\ Tail(s) \in Seq(Kinds) /\ Names(s) = {Head(s)} \cup Names(Tail(s))
           /\ BodyFirst(s) => BodyFirst(Tail(s))
           /\ BodyFirst(s) /\ Tail(s) = <<"parse">> => Head(s) = "body"
<1>1. /\ Tail(s) \in Seq(Kinds) /\ Len(Tail(s)) = Len(s) - 1 /\ Len(s) \in Nat \ {0}
      /\ \A i \in 1..Len(Tail(s)) : Tail(s)[i] = s[i + 1]
      /\ Head(s) = s[1]
  BY HeadTailProperties, EmptySeq
<1>2. Names(s) = {Head(s)} \cup Names(Tail(s))
  <2>1. ASSUME NEW i \in 1..Len(s) PROVE s[i] \in {Head(s)} \cup Names(Tail(s))
    <3>1. CASE i = 1
      BY <1>1, <3>1
    <3>2. CASE i # 1
      <4>1. i - 1 \in 1..Len(Tail(s)) /\ Tail(s)[i - 1] = s[i]
        BY <1>1, <3>2
      <4> QED
        BY <4>1 DEF Names
    <3> QED
      BY <3>1, <3>2
  <2>2. ASSUME NEW i \in 1..Len(Tail(s)) PROVE Tail(s)[i] \in Names(s)
    BY <1>1 DEF Names
  <2>3. Head(s) \in Names(s)
    BY <1>1 DEF Names
  <2> QED
    BY <2>1, <2>2, <2>3 DEF Names
<1>3. BodyFirst(s) => BodyFirst(Tail(s))
  <2> SUFFICES ASSUME BodyFirst(s), NEW i \in 2..Len(Tail(s)), Tail(s)[i] = "parse"
               PROVE Tail(s)[i - 1] = "body"
    BY DEF BodyFirst
  <2>1. i + 1 \in 2..Len(s) /\ s[i + 1] = "parse"
    BY <1>1
  <2>2. s[(i + 1) - 1] = "body"
    BY <2>1 DEF BodyFirst
  <2>3. i - 1 \in 1..Len(Tail(s)) /\ Tail(s)[i - 1] = s[(i - 1) + 1]
    BY <1>1
  <2> QED
    BY <2>2, <2>3
<1>4. BodyFirst(s) /\ Tail(s) = <<"parse">> => Head(s) = "body"
  <2> SUFFICES ASSUME BodyFirst(s), Tail(s) = <<"parse">> PROVE s[1] = "body"
    BY <1>1
  <2>1. Len(<<"parse">>) = 1 /\ <<"parse">>[1] = "parse"
    OBVIOUS
  <2>2. Len(Tail(s)) = 1 /\ Tail(s)[1] = "parse"
    BY <2>1
  <2>3. Len(s) = 2 /\ s[1 + 1] = "parse"
    BY <1>1, <2>2
  <2>4. 2 \in 2..Len(s) /\ s[2 - 1] = s[1] /\ s[2] = "parse"
    BY <2>3
  <2> QED
    BY <2>4 DEF BodyFirst
<1> QED
  BY <1>1, <1>2, <1>3, <1>4

\* By operation: the list of its checks, and the names on it.
LEMMA ChecksAre ==
    ASSUME NEW q
    PROVE  /\ Checks(q) \in Seq(Kinds) /\ BodyFirst(Checks(q)) /\ Len(Checks(q)) # 1
           /\ q.route = "dataset" /\ q.method = "POST" =>
                {"write", "noQuery", "json", "body", "parse"} \subseteq Names(Checks(q))
           /\ q.route = "dataset" /\ q.method = "DELETE" =>
                {"write", "noQuery", "path"} \subseteq Names(Checks(q))
           /\ (q.route = "dataset" /\ q.method = "GET") \/ q.route \in {"structure", "datasets"} =>
                {"read", "noQuery", "path"} \subseteq Names(Checks(q))
           /\ q.route = "data" => {"read", "format", "path"} \subseteq Names(Checks(q))
           /\ q.route = "query" =>
                {"read", "json", "format", "path", "body", "parse"} \subseteq Names(Checks(q))
           /\ q.route = "providers" => {"read", "noQuery"} \subseteq Names(Checks(q))
<1>1. CASE q.route = "dataset" /\ q.method = "POST"
  <2>1. Checks(q) = <<"write", "noQuery", "json", "spelling", "body", "parse">>
    BY <1>1 DEF Checks
  <2>2. /\ Len(Checks(q)) = 6 /\ Checks(q) \in Seq(Kinds)
        /\ Checks(q)[1] = "write" /\ Checks(q)[2] = "noQuery" /\ Checks(q)[3] = "json"
        /\ Checks(q)[4] = "spelling" /\ Checks(q)[5] = "body" /\ Checks(q)[6] = "parse"
    BY <2>1 DEF Kinds
  <2>3. {"write", "noQuery", "json", "body", "parse"} \subseteq Names(Checks(q))
    BY <2>2 DEF Names
  <2>4. BodyFirst(Checks(q))
    BY <2>2 DEF BodyFirst
  <2> QED
    BY <1>1, <2>2, <2>3, <2>4
<1>2. CASE q.route = "dataset" /\ q.method = "DELETE"
  <2>1. Checks(q) = <<"write", "noQuery", "path">>
    BY <1>2 DEF Checks
  <2>2. /\ Len(Checks(q)) = 3 /\ Checks(q) \in Seq(Kinds)
        /\ Checks(q)[1] = "write" /\ Checks(q)[2] = "noQuery" /\ Checks(q)[3] = "path"
    BY <2>1 DEF Kinds
  <2>3. {"write", "noQuery", "path"} \subseteq Names(Checks(q))
    BY <2>2 DEF Names
  <2>4. BodyFirst(Checks(q))
    BY <2>2 DEF BodyFirst
  <2> QED
    BY <1>2, <2>2, <2>3, <2>4
<1>3. CASE (q.route = "dataset" /\ q.method = "GET") \/ q.route \in {"structure", "datasets"}
  <2>1. Checks(q) = <<"read", "noQuery", "path">>
    BY <1>3 DEF Checks
  <2>2. /\ Len(Checks(q)) = 3 /\ Checks(q) \in Seq(Kinds)
        /\ Checks(q)[1] = "read" /\ Checks(q)[2] = "noQuery" /\ Checks(q)[3] = "path"
    BY <2>1 DEF Kinds
  <2>3. {"read", "noQuery", "path"} \subseteq Names(Checks(q))
    BY <2>2 DEF Names
  <2>4. BodyFirst(Checks(q))
    BY <2>2 DEF BodyFirst
  <2> QED
    BY <1>3, <2>2, <2>3, <2>4
<1>4. CASE q.route = "data"
  <2>1. Checks(q) = <<"read", "format", "path">>
    BY <1>4 DEF Checks
  <2>2. /\ Len(Checks(q)) = 3 /\ Checks(q) \in Seq(Kinds)
        /\ Checks(q)[1] = "read" /\ Checks(q)[2] = "format" /\ Checks(q)[3] = "path"
    BY <2>1 DEF Kinds
  <2>3. {"read", "format", "path"} \subseteq Names(Checks(q))
    BY <2>2 DEF Names
  <2>4. BodyFirst(Checks(q))
    BY <2>2 DEF BodyFirst
  <2> QED
    BY <1>4, <2>2, <2>3, <2>4
<1>5. CASE q.route = "query"
  <2>1. Checks(q) = <<"read", "json", "format", "path", "body", "parse">>
    BY <1>5 DEF Checks
  <2>2. /\ Len(Checks(q)) = 6 /\ Checks(q) \in Seq(Kinds)
        /\ Checks(q)[1] = "read" /\ Checks(q)[2] = "json" /\ Checks(q)[3] = "format"
        /\ Checks(q)[4] = "path" /\ Checks(q)[5] = "body" /\ Checks(q)[6] = "parse"
    BY <2>1 DEF Kinds
  <2>3. {"read", "json", "format", "path", "body", "parse"} \subseteq Names(Checks(q))
    BY <2>2 DEF Names
  <2>4. BodyFirst(Checks(q))
    BY <2>2 DEF BodyFirst
  <2> QED
    BY <1>5, <2>2, <2>3, <2>4
<1>6. CASE q.route = "providers"
  <2>1. Checks(q) = <<"read", "noQuery">>
    BY <1>6 DEF Checks
  <2>2. /\ Len(Checks(q)) = 2 /\ Checks(q) \in Seq(Kinds)
        /\ Checks(q)[1] = "read" /\ Checks(q)[2] = "noQuery"
    BY <2>1 DEF Kinds
  <2>3. {"read", "noQuery"} \subseteq Names(Checks(q))
    BY <2>2 DEF Names
  <2>4. BodyFirst(Checks(q))
    BY <2>2 DEF BodyFirst
  <2> QED
    BY <1>6, <2>2, <2>3, <2>4
<1>7. CASE /\ ~(q.route = "dataset" /\ q.method \in {"POST", "DELETE", "GET"})
           /\ q.route \notin {"structure", "datasets", "data", "query", "providers"}
  <2>1. Checks(q) = <<>>
    BY <1>7 DEF Checks
  <2> QED
    BY <1>7, <2>1 DEF Names, BodyFirst
<1> QED
  BY <1>1, <1>2, <1>3, <1>4, <1>5, <1>6, <1>7

\* A check that holds leaves the list and has passed; one that does not ends
\* the checking.
LEMMA CheckStep ==
    ASSUME Checked, NEW c, NEW holds \in BOOLEAN, NEW code, Check(c, holds, code),
           holds => Passed(c)', consumed' = consumed \/ c = "body"
    PROVE  Checked'
<1>0. /\ pc = "checking" /\ todo # <<>> /\ Head(todo) = c /\ todo \in Seq(Kinds) /\ BodyFirst(todo)
      /\ ~called /\ called' = called /\ request' = request /\ Routed /\ request \in Request
  BY DEF Check, Checked
<1>1. CASE ~holds
  <2>1. pc' = "answering"
    BY <1>1 DEF Check, Answer
  <2> QED
    BY <1>0, <2>1 DEF Checked
<1>2. CASE holds
  <2>1. pc' = pc /\ todo' = Tail(todo)
    BY <1>2 DEF Check
  <2>2. /\ Tail(todo) \in Seq(Kinds) /\ Names(todo) = {c} \cup Names(Tail(todo))
        /\ BodyFirst(Tail(todo)) /\ (Tail(todo) = <<"parse">> => c = "body")
    BY <1>0, TailNames
  <2>3. ASSUME NEW n \in Names(Checks(request)) \ Names(Tail(todo)) PROVE Passed(n)'
    <3>1. CASE n = c
      BY <1>2, <3>1
    <3>2. CASE n # c
      <4>1. Passed(n)
        BY <1>0, <2>2, <3>2 DEF Checked
      <4>2. CASE n = "body"
        BY <1>0, <3>2, <4>1, <4>2 DEF Passed
      <4>3. CASE n # "body"
        BY <1>0, <4>1, <4>3 DEF Passed
      <4> QED
        BY <4>2, <4>3
    <3> QED
      BY <3>1, <3>2
  <2>4. Tail(todo) = <<"parse">> => consumed' = request'.length
    BY <1>0, <1>2, <2>2 DEF Passed
  <2> QED
    BY <1>0, <2>1, <2>2, <2>3, <2>4 DEF Checked, Routed
<1> QED
  BY <1>1, <1>2

\* What neither reads nor checks anything keeps the invariant.
LEMMA Elsewhere ==
    ASSUME Checked, request' = request, consumed' = consumed, called' = called,
           \/ pc' = pc /\ todo' = todo
           \/ pc' \notin {"routing", "checking"}
    PROVE  Checked'
<1>1. \A c : Passed(c)' <=> Passed(c)
  BY DEF Passed
<1> QED
  BY <1>1 DEF Checked, Routed, AllPassed

\* server.go: what Checked says holds from the first step of ServeHTTP on.
LEMMA CheckedInitially == Init => Checked
BY DEF Init, Checked

\* Every step of a handler keeps Checked.
LEMMA CheckedInductive == Checked /\ [Next]_vars => Checked'
<1>0. SUFFICES ASSUME Checked, [Next]_vars PROVE Checked'
  OBVIOUS
<1> USE DEF storeVars, responseVars, Answer
<1>1. CASE Dispatch
  <2>1. request' = request /\ called' = called /\ consumed' = consumed /\ ~called
    BY <1>0, <1>1 DEF Dispatch, Checked
  <2>2. CASE pc' = "answering"
    BY <1>0, <2>1, <2>2, Elsewhere
  <2>3. CASE pc' = "checking" /\ todo' = Checks(request) /\ Routed
    <3>1. /\ Checks(request) \in Seq(Kinds) /\ BodyFirst(Checks(request))
          /\ Len(Checks(request)) # 1 /\ Len(<<"parse">>) = 1
      BY ChecksAre
    <3> QED
      BY <1>0, <2>1, <2>3, <3>1 DEF Checked, Routed
  <2> QED
    BY <1>1, <2>2, <2>3 DEF Dispatch, Routed
<1>2. CASE Authorize
  <2>1. CASE Check("read", request.token \in {"read", "write"}, 401)
    <3> DEFINE holds == request.token \in {"read", "write"}
    <3>1. request' = request /\ consumed' = consumed
      BY <1>2, <2>1 DEF Check, Authorize
    <3>2. (holds => Passed("read")') /\ holds \in BOOLEAN
      BY <3>1 DEF Passed
    <3>3. Check("read", holds, 401)
      BY <2>1
    <3> HIDE DEF holds
    <3> QED
      BY <1>0, <3>1, <3>2, <3>3, CheckStep
  <2>2. CASE Check("write", request.token = "write", IF request.token = "read" THEN 403 ELSE 401)
    <3> DEFINE code == IF request.token = "read" THEN 403 ELSE 401
    <3>1. request' = request /\ consumed' = consumed
      BY <1>2, <2>2 DEF Check, Authorize
    <3>2. request.token = "write" => Passed("write")'
      BY <3>1 DEF Passed
    <3>3. Check("write", request.token = "write", code)
      BY <2>2
    <3> HIDE DEF code
    <3> QED
      BY <1>0, <3>1, <3>2, <3>3, CheckStep
  <2> QED
    BY <1>2, <2>1, <2>2 DEF Authorize
<1>3. CASE ValidateNoQuery
  <2>1. Check("noQuery", request.query = "none", 400) /\ consumed' = consumed
    BY <1>3 DEF ValidateNoQuery
  <2>2. request.query = "none" => Passed("noQuery")'
    BY <2>1 DEF Check, Passed
  <2> QED
    BY <1>0, <2>1, <2>2, CheckStep
<1>4. CASE ReadFormat
  <2> DEFINE holds == request.query \in {"none", "format", "unparsable"}
  <2>1. Check("format", holds, 400) /\ consumed' = consumed
    BY <1>4 DEF ReadFormat
  <2>2. (holds => Passed("format")') /\ holds \in BOOLEAN
    BY <2>1 DEF Check, Passed
  <2> HIDE DEF holds
  <2> QED
    BY <1>0, <2>1, <2>2, CheckStep
<1>5. CASE RequireJSON
  <2>1. Check("json", request.media = "json", 415) /\ consumed' = consumed
    BY <1>5 DEF RequireJSON
  <2>2. request.media = "json" => Passed("json")'
    BY <2>1 DEF Check, Passed
  <2> QED
    BY <1>0, <2>1, <2>2, CheckStep
<1>6. CASE PathCode
  <2>1. Check("path", request.path = "code", 400) /\ consumed' = consumed
    BY <1>6 DEF PathCode
  <2>2. request.path = "code" => Passed("path")'
    BY <2>1 DEF Check, Passed
  <2> QED
    BY <1>0, <2>1, <2>2, CheckStep
<1>7. CASE PathSpelling
  <2>1. Check("spelling", request.path # "slash", 400) /\ consumed' = consumed
    BY <1>7 DEF PathSpelling
  <2>2. request.path # "slash" => Passed("spelling")'
    BY <2>1 DEF Check, Passed
  <2> QED
    BY <1>0, <2>1, <2>2, CheckStep
<1>8. CASE ReadBody
  <2>1. CASE Check("body", ~TooLarge, 413) /\ TooLarge
    BY <1>0, <2>1, CheckStep
  <2>2. CASE /\ consumed' = Smaller(request.length, Limit)
             /\ Check("body", consumed' <= MaxRequestBytes, 413)
    <3> DEFINE holds == consumed' <= MaxRequestBytes
    <3>1. holds => consumed' = request.length
      BY <1>0, <2>2, RequestAssumption DEF Checked, Smaller, Limit
    <3>2. (holds => Passed("body")') /\ holds \in BOOLEAN
      BY <2>2, <3>1 DEF Check, Passed
    <3>3. Check("body", holds, 413)
      BY <2>2
    <3> HIDE DEF holds
    <3> QED
      BY <1>0, <3>2, <3>3, CheckStep
  <2> QED
    BY <1>8, <2>1, <2>2 DEF ReadBody
<1>9. CASE ReadBodyFails
  <2>1. Check("body", FALSE, 400)
    BY <1>9 DEF ReadBodyFails
  <2> QED
    BY <1>0, <2>1, CheckStep
<1>10. CASE Parse
  <2> DEFINE holds == request.content = "good" /\ (request.route = "dataset" => request.path = "code")
             code == IF request.route = "dataset" /\ request.path # "code" THEN 422
                     ELSE IF request.content = "broken" THEN 400 ELSE 422
  <2>1. Check("parse", holds, code) /\ consumed' = consumed
    BY <1>10 DEF Parse
  <2>2. holds => Passed("parse")'
    BY <2>1 DEF Check, Passed
  <2>3. holds \in BOOLEAN
    OBVIOUS
  <2> HIDE DEF holds, code
  <2> QED
    BY <1>0, <2>1, <2>2, <2>3, CheckStep
<1>11. CASE CallStore
  <2>1. /\ pc = "checking" /\ todo = <<>> /\ request.route \notin Static /\ pc' = "storing"
        /\ request' = request /\ consumed' = consumed
    BY <1>11 DEF CallStore
  <2>2. Names(todo) = {}
    BY <2>1 DEF Names
  <2>3. Routed /\ AllPassed
    BY <1>0, <2>1, <2>2 DEF Checked, AllPassed
  <2>4. \A c : Passed(c)' <=> Passed(c)
    BY <2>1 DEF Passed
  <2> QED
    BY <1>0, <2>1, <2>3, <2>4 DEF Checked, Routed, AllPassed
<1>12. CASE ServeStatic
  BY <1>0, <1>12, Elsewhere DEF ServeStatic
<1>13. CASE Cancel
  BY <1>0, <1>13, Elsewhere DEF Cancel
<1>14. CASE StoreReturns
  BY <1>0, <1>14, Elsewhere DEF StoreReturns
<1>15. CASE WriteHeader
  BY <1>0, <1>15, Elsewhere DEF WriteHeader
<1>16. CASE WriteBody
  BY <1>0, <1>16, Elsewhere DEF WriteBody
<1>17. CASE Panic
  BY <1>0, <1>17, Elsewhere DEF Panic
<1>18. CASE Recover
  BY <1>0, <1>18, Elsewhere DEF Recover
<1>19. CASE Log
  BY <1>0, <1>19, Elsewhere DEF Log
<1>20. CASE UNCHANGED vars
  BY <1>0, <1>20, Elsewhere DEF vars
<1> QED
  BY <1>0, <1>1, <1>2, <1>3, <1>4, <1>5, <1>6, <1>7, <1>8, <1>9, <1>10, <1>11, <1>12, <1>13,
     <1>14, <1>15, <1>16, <1>17, <1>18, <1>19, <1>20 DEF Next, Finished

\* Checked holds in every state.
LEMMA AlwaysChecked == Spec => []Checked
<1> QED
  BY CheckedInitially, CheckedInductive, PTL DEF Spec

\* For any requests: the store is called for acceptable ones alone, in whatever
\* order a handler of server.go makes its checks and whichever it makes.
THEOREM OnlyAcceptable == Spec => []CallsAreAcceptable
<1>1. ASSUME Checked, called PROVE Acceptable(request)
  <2>1. /\ request.route \in DOMAIN Methods /\ request.method \in Methods[request.route]
        /\ request.route \notin Static
    BY <1>1 DEF Checked, Routed
  <2>2. /\ request.route \in Static \cup {"health", "providers", "datasets", "dataset",
                                        "structure", "data", "query"}
        /\ request.route = "dataset" => request.method \in {"GET", "POST", "DELETE"}
    BY <2>1 DEF Methods, Static
  <2>3. \A c \in Names(Checks(request)) : Passed(c)
    BY <1>1 DEF Checked, AllPassed
  <2> USE DEF Acceptable, HasBody, Mutation, Public, Static, Passed
  <2>4. CASE request.route = "health"
    BY <2>1, <2>4
  <2>5. CASE request.route = "providers"
    <3>1. Passed("read") /\ Passed("noQuery")
      BY <2>3, <2>5, ChecksAre
    <3> QED
      BY <2>1, <2>5, <3>1
  <2>6. CASE request.route \in {"datasets", "structure"} \/ (request.route = "dataset" /\ request.method = "GET")
    <3>1. Passed("read") /\ Passed("noQuery") /\ Passed("path")
      BY <2>3, <2>6, ChecksAre
    <3> QED
      BY <2>1, <2>6, <3>1
  <2>7. CASE request.route = "data"
    <3>1. Passed("read") /\ Passed("format") /\ Passed("path")
      BY <2>3, <2>7, ChecksAre
    <3> QED
      BY <2>1, <2>7, <3>1
  <2>8. CASE request.route = "query"
    <3>1. /\ Passed("read") /\ Passed("json") /\ Passed("format") /\ Passed("path")
          /\ Passed("body") /\ Passed("parse")
      BY <2>3, <2>8, ChecksAre
    <3> QED
      BY <2>1, <2>8, <3>1
  <2>9. CASE request.route = "dataset" /\ request.method = "POST"
    <3>1. /\ Passed("write") /\ Passed("noQuery") /\ Passed("json")
          /\ Passed("body") /\ Passed("parse")
      BY <2>3, <2>9, ChecksAre
    <3> QED
      BY <2>1, <2>9, <3>1
  <2>10. CASE request.route = "dataset" /\ request.method = "DELETE"
    <3>1. Passed("write") /\ Passed("noQuery") /\ Passed("path")
      BY <2>3, <2>10, ChecksAre
    <3> QED
      BY <2>1, <2>10, <3>1
  <2> QED
    BY <2>1, <2>2, <2>4, <2>5, <2>6, <2>7, <2>8, <2>9, <2>10
<1> QED
  BY <1>1, AlwaysChecked, PTL DEF CallsAreAcceptable

\* For any limit and any bodies: what readBody hands on to be parsed is the
\* whole body.
THEOREM ParsedWhole == Spec => []WholeBody
<1>1. Checked => WholeBody
  BY DEF Checked, WholeBody
<1> QED
  BY <1>1, AlwaysChecked, PTL

-----------------------------------------------------------------------------
(* Answers.                                                                *)

\* A status below 500 tells the writer the truth.
Truthful(code) ==
    Mutation => (code \in {200, 201} => effect) /\ (code \in 400..499 => ~effect)

Recorded ==
    /\ pc \in {"routing", "checking", "storing", "answering", "writing", "panicked", "returned", "done"}
    /\ answer \in Int /\ status \in Int /\ effect \in BOOLEAN
    /\ pc \in {"routing", "checking", "storing", "answering"} => status = 0 /\ documents = <<>>
    /\ pc \in {"routing", "checking", "storing"} => ~effect
    /\ pc \in {"answering", "writing"} => answer # 0 /\ Truthful(answer)
    /\ pc = "writing" => status = answer /\ documents = <<>>
    /\ pc = "panicked" => documents = <<>> /\ (status # 0 => Truthful(status))
    /\ pc \in {"returned", "done"} =>
        status # 0 /\ documents \in {<<>>, <<status>>} /\ Truthful(status)
    /\ pc = "done" => logged = status

\* server.go: the recorder of a request that has just arrived holds nothing.
LEMMA RecordedInitially == Init => Recorded
<1> SUFFICES ASSUME Init PROVE Recorded
  OBVIOUS
<1>1. pc = "routing" /\ answer = 0 /\ status = 0 /\ documents = <<>>
  BY DEF Init
<1>2. effect \in BOOLEAN /\ ~effect
  BY DEF Init
<1> HIDE DEF Init
<1> QED
  BY <1>1, <1>2 DEF Recorded

\* An early return: nothing has been done, and a refusal says so.
LEMMA Refused ==
    ASSUME Recorded, pc \in {"routing", "checking"}, NEW code \in Int, Answer(code),
           code # 0, code \in {200, 201} => ~Mutation, request' = request,
           effect' = effect, status' = status, documents' = documents
    PROVE  Recorded'
BY DEF Recorded, Answer, Truthful, Mutation

\* A handler that goes on checking has done nothing either.
LEMMA GoesOn ==
    ASSUME Recorded, pc \in {"routing", "checking"}, pc' = "checking", UNCHANGED <<answer, status, documents, effect>>
    PROVE  Recorded'
BY DEF Recorded

LEMMA CheckRecords ==
    ASSUME Recorded, NEW c, NEW holds, NEW code \in 400..499, Check(c, holds, code)
    PROVE  Recorded'
<1>1. CASE holds
  BY <1>1, GoesOn DEF Check, responseVars
<1>2. CASE ~holds
  BY <1>2, Refused DEF Check, responseVars
<1> QED
  BY <1>1, <1>2

\* writeStoreError: the statuses there are, and those of what is left open.
LEMMA StatusOf ==
    ASSUME NEW result
    PROVE  /\ StoreStatus(result) \in {404, 409, 422, 500, 503}
           /\ result \in {"deadline", "failure"} => StoreStatus(result) \in {500, 503}
<1>1. CASE request.route = "health"
  BY <1>1 DEF StoreStatus
<1>2. CASE request.route # "health" /\ result = "not found"
  <2>1. StoreStatus(result) = 404
    BY <1>2 DEF StoreStatus
  <2> QED
    BY <1>2, <2>1
<1>3. CASE request.route # "health" /\ result = "exists"
  BY <1>3 DEF StoreStatus
<1>4. CASE request.route # "health" /\ result \in {"limit", "selection"}
  BY <1>4 DEF StoreStatus
<1>5. CASE request.route # "health" /\ result = "deadline"
  BY <1>5 DEF StoreStatus
<1>6. CASE request.route # "health" /\ result \notin {"not found", "exists", "limit", "selection", "deadline"}
  <2>1. StoreStatus(result) = IF cancelled THEN 503 ELSE 500
    BY <1>6 DEF StoreStatus
  <2>2. StoreStatus(result) \in {500, 503}
    BY <2>1
  <2> QED
    BY <2>2
<1> QED
  BY <1>1, <1>2, <1>3, <1>4, <1>5, <1>6

\* What the store may return to a writer, and what it tells of the effect.
LEMMA OutcomesAre ==
    ASSUME NEW o \in Outcomes
    PROVE  /\ o.effect \in BOOLEAN
           /\ o.result \in {"created", "replaced"} => o.effect
           /\ Mutation => o.result \in {"deadline", "failure", "created", "replaced", "exists", "ok"}
           /\ o.result = "exists" => ~o.effect
<1> DEFINE open(result) == {[result |-> result, effect |-> e] : e \in IF Mutation THEN BOOLEAN ELSE {FALSE}}
           done(results) == {[result |-> r, effect |-> FALSE] : r \in results}
<1>1. CASE o \in open("deadline") \cup open("failure")
  <2>1. PICK r \in {"deadline", "failure"} : o \in open(r)
    BY <1>1
  <2>2. PICK e \in IF Mutation THEN BOOLEAN ELSE {FALSE} : o = [result |-> r, effect |-> e]
    BY <2>1
  <2>3. o.result = r /\ o.effect = e /\ e \in BOOLEAN
    BY <2>2
  <2> QED
    BY <2>3
<1>2. CASE o \notin open("deadline") \cup open("failure")
  <2>1. CASE request.route = "dataset" /\ request.method = "POST"
    <3>1. o \in {[result |-> "created", effect |-> TRUE], [result |-> "replaced", effect |-> TRUE],
                 [result |-> "exists", effect |-> FALSE]}
      BY <1>2, <2>1 DEF Outcomes
    <3>2. CASE o = [result |-> "created", effect |-> TRUE]
      BY <3>2
    <3>3. CASE o = [result |-> "replaced", effect |-> TRUE]
      BY <3>3
    <3>4. CASE o = [result |-> "exists", effect |-> FALSE]
      BY <3>4
    <3> QED
      BY <3>1, <3>2, <3>3, <3>4
  <2>2. CASE request.route = "dataset" /\ request.method = "DELETE"
    <3>1. o \in {[result |-> "ok", effect |-> e] : e \in BOOLEAN}
      BY <1>2, <2>2 DEF Outcomes
    <3>2. PICK e \in BOOLEAN : o = [result |-> "ok", effect |-> e]
      BY <3>1
    <3> QED
      BY <3>2
  <2>3. CASE ~Mutation
    <3>1. o \in done({"ok", "not found", "limit", "selection"})
      BY <1>2, <2>3 DEF Outcomes, Mutation
    <3>2. PICK r \in {"ok", "not found", "limit", "selection"} : o = [result |-> r, effect |-> FALSE]
      BY <3>1
    <3> QED
      BY <2>3, <3>2
  <2> QED
    BY <2>1, <2>2, <2>3 DEF Mutation
<1> QED
  BY <1>1, <1>2

\* Every step of a handler keeps Recorded.
LEMMA RecordedInductive == Recorded /\ [Next]_vars => Recorded'
<1>0. SUFFICES ASSUME Recorded, [Next]_vars PROVE Recorded'
  OBVIOUS
<1> USE DEF storeVars, responseVars
<1>1. CASE Dispatch
  <2>1. \/ Answer(404) \/ Answer(405)
        \/ pc' = "checking" /\ answer' = answer
    BY <1>1 DEF Dispatch
  <2> QED
    BY <1>0, <1>1, <2>1, GoesOn, Refused DEF Dispatch
<1>2. CASE Authorize
  BY <1>0, <1>2, CheckRecords DEF Authorize
<1>3. CASE ValidateNoQuery
  BY <1>0, <1>3, CheckRecords DEF ValidateNoQuery
<1>4. CASE ReadFormat
  BY <1>0, <1>4, CheckRecords DEF ReadFormat
<1>5. CASE RequireJSON
  BY <1>0, <1>5, CheckRecords DEF RequireJSON
<1>6. CASE PathCode
  BY <1>0, <1>6, CheckRecords DEF PathCode
<1>7. CASE PathSpelling
  BY <1>0, <1>7, CheckRecords DEF PathSpelling
<1>8. CASE ReadBody
  BY <1>0, <1>8, CheckRecords DEF ReadBody
<1>9. CASE ReadBodyFails
  <2>1. Check("body", FALSE, 400)
    BY <1>9 DEF ReadBodyFails
  <2> QED
    BY <1>0, <2>1, Refused DEF Check
<1>10. CASE Parse
  BY <1>0, <1>10, CheckRecords DEF Parse
<1>11. CASE CallStore
  BY <1>0, <1>11 DEF CallStore, Recorded
<1>12. CASE ServeStatic
  <2>1. PICK code \in {308, 200, 503} : Answer(code)
    BY <1>12 DEF ServeStatic
  <2>2. ~Mutation
    BY <1>12 DEF ServeStatic, Static, Mutation
  <2> QED
    BY <1>0, <1>12, <2>1, <2>2, Refused DEF ServeStatic
<1>13. CASE Cancel
  BY <1>0, <1>13 DEF Cancel, Recorded, Truthful, Mutation
<1>14. CASE StoreReturns
  <2>1. PICK o \in Outcomes :
          /\ effect' = o.effect
          /\ \/ o.result = "created" /\ Answer(201)
             \/ o.result = "ok" /\ Mutation /\ Answer(204)
             \/ (o.result = "replaced" \/ (o.result = "ok" /\ ~Mutation)) /\ Answer(200)
             \/ o.result \notin {"created", "ok", "replaced"} /\ Answer(StoreStatus(o.result))
    BY <1>14 DEF StoreReturns
  <2>2. /\ o.effect \in BOOLEAN
        /\ o.result \in {"created", "replaced"} => o.effect
        /\ Mutation => o.result \in {"deadline", "failure", "created", "replaced", "exists", "ok"}
        /\ o.result = "exists" => ~o.effect
    BY OutcomesAre
  <2>3. /\ StoreStatus(o.result) \in {404, 409, 422, 500, 503}
        /\ o.result \in {"deadline", "failure"} => StoreStatus(o.result) \in {500, 503}
    BY StatusOf
  <2>4. /\ pc' = "answering" /\ answer' \in Int \ {0}
        /\ request' = request /\ status' = status /\ documents' = documents
        /\ effect' \in BOOLEAN
    BY <1>14, <2>1, <2>2, <2>3 DEF StoreReturns, Answer
  <2>5. Truthful(answer)'
    BY <2>1, <2>2, <2>3, <2>4 DEF Truthful, Mutation, Answer
  <2> QED
    BY <1>0, <1>14, <2>4, <2>5 DEF StoreReturns, Recorded
<1>15. CASE WriteHeader
  BY <1>0, <1>15 DEF WriteHeader, Recorded, Truthful, Mutation
<1>16. CASE WriteBody
  BY <1>0, <1>16 DEF WriteBody, Recorded, Truthful, Mutation
<1>17. CASE Panic
  BY <1>0, <1>17 DEF Panic, Recorded, Truthful, Mutation
<1>18. CASE Recover
  <2>1. Append(<<>>, 500) = <<500>>
    OBVIOUS
  <2>2. CASE status = 0
    BY <1>0, <1>18, <2>1, <2>2 DEF Recover, Recorded, Truthful, Mutation
  <2>3. CASE status # 0
    BY <1>0, <1>18, <2>3 DEF Recover, Recorded, Truthful, Mutation
  <2> QED
    BY <2>2, <2>3
<1>19. CASE Log
  BY <1>0, <1>19 DEF Log, Recorded, Truthful, Mutation
<1>20. CASE UNCHANGED vars
  BY <1>0, <1>20 DEF vars, Recorded, Truthful, Mutation
<1> QED
  BY <1>0, <1>1, <1>2, <1>3, <1>4, <1>5, <1>6, <1>7, <1>8, <1>9, <1>10, <1>11, <1>12, <1>13,
     <1>14, <1>15, <1>16, <1>17, <1>18, <1>19, <1>20 DEF Next, Finished

\* Recorded holds in every state.
LEMMA AlwaysRecorded == Spec => []Recorded
<1> QED
  BY RecordedInitially, RecordedInductive, PTL DEF Spec

\* For any requests: an answer below 500 tells a writer whether the change was
\* made, wherever the handler panics (writeStoreError and the recorder).
THEOREM AnswersTellTheEffect == Spec => []AnswerTellsEffect
<1>1. Recorded => AnswerTellsEffect
  BY DEF Recorded, Truthful, AnswerTellsEffect
<1> QED
  BY <1>1, AlwaysRecorded, PTL

\* For any requests: a request gets one status, at most one document that goes
\* with it, and a log line that agrees (responseRecorder, recover).
THEOREM OneAnswerEach == Spec => []OneAnswer
<1>1. Recorded => OneAnswer
  BY DEF Recorded, OneAnswer
<1> QED
  BY <1>1, AlwaysRecorded, PTL
=============================================================================
