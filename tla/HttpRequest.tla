------------------------------ MODULE HttpRequest ------------------------------
(***************************************************************************)
(* One request through internal/httpapi/server.go: ServeHTTP, the route    *)
(* table, the checks of each handler in the order it makes them, the call  *)
(* of the store, the answer through responseRecorder, panics and the log   *)
(* line.  The store is external here: what it may return, and whether it   *)
(* has changed anything, is what DatasetStore allows.                      *)
(***************************************************************************)
EXTENDS Integers, Sequences

CONSTANTS Request,        \* the requests that arrive: records, see MCHttpRequest
          MaxRequestBytes

ASSUME RequestAssumption ==
    MaxRequestBytes \in Nat \ {0} /\ \A q \in Request : q.length \in Nat

VARIABLES request,  \* [route, method, token, query, media, path, declared, length, content]
          pc, todo, \* the handler's step, and its checks that are still to be made
          consumed, \* bytes of the body that were read (requestBytes)
          called,   \* has the store been called?
          effect,   \* has the store changed anything?
          cancelled, \* is the request's context done: client gone, or REQUEST_TIMEOUT?
          answer,   \* the status the handler is about to write
          status,   \* responseRecorder: the status written, 0 for none
          documents, \* documents that were written: the statuses they tell of
          logged    \* the status of the log line, 0 before it

vars == <<request, pc, todo, consumed, called, effect, cancelled, answer, status, documents, logged>>
storeVars == <<consumed, called, effect>>
responseVars == <<status, documents, logged>>

-----------------------------------------------------------------------------
(* The route table and what each operation checks.                         *)

Methods ==
    [health |-> {"GET"}, openapi |-> {"GET"}, docs |-> {"GET"}, swagger |-> {"GET"},
     providers |-> {"GET"}, datasets |-> {"GET"}, dataset |-> {"GET", "POST", "DELETE"},
     structure |-> {"GET"}, data |-> {"GET"}, query |-> {"POST"}]

Static == {"openapi", "docs", "swagger"}
Public == Static \cup {"health"}

\* By handler, in source order.
Checks(q) ==
    CASE q.route = "dataset" /\ q.method = "POST" ->
            <<"write", "noQuery", "json", "spelling", "body", "parse">>
      [] q.route = "dataset" /\ q.method = "DELETE" -> <<"write", "noQuery", "path">>
      [] q.route = "dataset" /\ q.method = "GET" -> <<"read", "noQuery", "path">>
      [] q.route \in {"structure", "datasets"} -> <<"read", "noQuery", "path">>
      [] q.route = "data" -> <<"read", "format", "path">>
      [] q.route = "query" -> <<"read", "json", "format", "path", "body", "parse">>
      [] q.route = "providers" -> <<"read", "noQuery">>
      [] OTHER -> <<>>

Init ==
    /\ request \in Request
    /\ pc = "routing" /\ todo = <<>>
    /\ consumed = 0 /\ called = FALSE /\ effect = FALSE /\ cancelled = FALSE
    /\ answer = 0 /\ status = 0 /\ documents = <<>> /\ logged = 0

Answer(code) == pc' = "answering" /\ answer' = code

Dispatch ==
    /\ pc = "routing"
    /\ \/ request.route \notin DOMAIN Methods /\ Answer(404) /\ UNCHANGED todo
       \/ /\ request.route \in DOMAIN Methods /\ request.method \notin Methods[request.route]
          /\ Answer(405) /\ UNCHANGED todo
       \/ /\ request.route \in DOMAIN Methods /\ request.method \in Methods[request.route]
          /\ pc' = "checking" /\ todo' = Checks(request) /\ UNCHANGED answer
    /\ UNCHANGED <<request, storeVars, cancelled, responseVars>>

\* The next check is c: the handler goes on if it holds, and answers otherwise.
Check(c, holds, code) ==
    /\ pc = "checking" /\ todo # <<>> /\ Head(todo) = c
    /\ IF holds THEN todo' = Tail(todo) /\ UNCHANGED <<pc, answer>>
                ELSE Answer(code) /\ UNCHANGED todo
    /\ UNCHANGED <<request, called, effect, cancelled, responseVars>>

\* Mutant of Authorize: either token will do.
AuthorizeEither ==
    /\ \/ Check("read", request.token \in {"read", "write"}, 401)
       \/ Check("write", request.token \in {"read", "write"}, 401)
    /\ UNCHANGED consumed

Authorize ==
    /\ \/ Check("read", request.token \in {"read", "write"}, 401)
       \/ Check("write", request.token = "write", IF request.token = "read" THEN 403 ELSE 401)
    /\ UNCHANGED consumed

ValidateNoQuery == Check("noQuery", request.query = "none", 400) /\ UNCHANGED consumed

\* url.Query drops what it cannot parse: then nothing was asked for.
ReadFormat == Check("format", request.query \in {"none", "format", "unparsable"}, 400) /\ UNCHANGED consumed

RequireJSON == Check("json", request.media = "json", 415) /\ UNCHANGED consumed

\* pathIdentity normalizes; replace leaves that to ParseReplacement.
PathCode == Check("path", request.path = "code", 400) /\ UNCHANGED consumed
PathSpelling == Check("spelling", request.path # "slash", 400) /\ UNCHANGED consumed

Smaller(a, b) == IF a < b THEN a ELSE b

\* Mutant of Limit: the reader stops at the limit itself.
LimitAt == MaxRequestBytes

Limit == MaxRequestBytes + 1

TooLarge == request.declared > MaxRequestBytes

\* A body that is declared too large is not read at all.
ReadBody ==
    \/ Check("body", ~TooLarge, 413) /\ TooLarge /\ UNCHANGED consumed
    \/ /\ ~TooLarge /\ consumed' = Smaller(request.length, Limit)
       /\ Check("body", consumed' <= MaxRequestBytes, 413)

\* The client goes away in the middle of it.
ReadBodyFails ==
    /\ ~TooLarge /\ consumed' \in 0..Smaller(request.length, Limit)
    /\ Check("body", FALSE, 400)

Parse ==
    /\ Check("parse", request.content = "good" /\ (request.route = "dataset" => request.path = "code"),
             IF request.route = "dataset" /\ request.path # "code" THEN 422
             ELSE IF request.content = "broken" THEN 400 ELSE 422)
    /\ UNCHANGED consumed

-----------------------------------------------------------------------------
(* The store and the answer.                                               *)

CallStore ==
    /\ pc = "checking" /\ todo = <<>> /\ request.route \notin Static
    /\ pc' = "storing" /\ called' = TRUE
    /\ UNCHANGED <<request, todo, consumed, effect, cancelled, answer, responseVars>>

\* Documentation is static, or was not given to the server.
ServeStatic ==
    /\ pc = "checking" /\ request.route \in Static
    /\ IF request.route = "docs" THEN Answer(308) ELSE \E code \in {200, 503} : Answer(code)
    /\ UNCHANGED <<request, todo, storeVars, cancelled, responseVars>>

Cancel ==
    /\ ~cancelled /\ pc # "done"
    /\ cancelled' = TRUE
    /\ UNCHANGED <<request, pc, todo, storeVars, answer, responseVars>>

Mutation == request.route = "dataset" /\ request.method \in {"POST", "DELETE"}

\* What a call of the store returns, and whether it may then have changed
\* anything: an error of a commit leaves that open.
Outcomes ==
    {[result |-> "deadline", effect |-> e] : e \in IF Mutation THEN BOOLEAN ELSE {FALSE}}
    \cup {[result |-> "failure", effect |-> e] : e \in IF Mutation THEN BOOLEAN ELSE {FALSE}}
    \cup CASE request.route = "dataset" /\ request.method = "POST" ->
                {[result |-> "created", effect |-> TRUE], [result |-> "replaced", effect |-> TRUE],
                 [result |-> "exists", effect |-> FALSE]}
           [] request.route = "dataset" /\ request.method = "DELETE" ->
                {[result |-> "ok", effect |-> e] : e \in BOOLEAN}
           [] request.route = "query" ->
                {[result |-> r, effect |-> FALSE] : r \in {"ok", "not found", "limit", "selection"}}
           [] request.route \in {"health", "providers"} -> {[result |-> "ok", effect |-> FALSE]}
           [] OTHER -> {[result |-> r, effect |-> FALSE] : r \in {"ok", "not found"}}

\* Mutant of StoreStatus: a request that was cancelled is the client's error.
StoreStatusBlaming(result) ==
    CASE result = "not found" -> 404
      [] result = "exists" -> 409
      [] result \in {"limit", "selection"} -> 422
      [] result = "deadline" -> 503
      [] OTHER -> IF cancelled THEN 408 ELSE 500

\* writeStoreError, and what handleQuery and handleHealth answer themselves.
StoreStatus(result) ==
    IF request.route = "health" THEN 503
    ELSE CASE result = "not found" -> 404
           [] result = "exists" -> 409
           [] result \in {"limit", "selection"} -> 422
           [] result = "deadline" -> 503
           [] OTHER -> IF cancelled THEN 503 ELSE 500

StoreReturns ==
    /\ pc = "storing"
    /\ \E o \in Outcomes :
        /\ effect' = o.effect
        /\ \/ o.result = "created" /\ Answer(201)
           \/ o.result = "ok" /\ Mutation /\ Answer(204)
           \/ (o.result = "replaced" \/ (o.result = "ok" /\ ~Mutation)) /\ Answer(200)
           \/ o.result \notin {"created", "ok", "replaced"} /\ Answer(StoreStatus(o.result))
    /\ UNCHANGED <<request, todo, consumed, called, cancelled, responseVars>>

\* responseRecorder.WriteHeader: only the first status counts.
WriteHeader ==
    /\ pc = "answering"
    /\ status' = IF status = 0 THEN answer ELSE status
    /\ pc' = "writing"
    /\ UNCHANGED <<request, todo, storeVars, cancelled, answer, documents, logged>>

WriteBody ==
    /\ pc = "writing"
    /\ documents' = IF answer = 204 THEN documents ELSE Append(documents, answer)
    /\ pc' = "returned"
    /\ UNCHANGED <<request, todo, storeVars, cancelled, answer, status, logged>>

\* Any step of a handler may panic, also between the two writes; what the
\* store did then stays done.
Panic ==
    /\ pc \in {"routing", "checking", "storing", "answering", "writing"}
    /\ effect' \in IF pc = "storing" /\ Mutation THEN BOOLEAN ELSE {effect}
    /\ pc' = "panicked"
    /\ UNCHANGED <<request, todo, consumed, called, cancelled, answer, responseVars>>

\* Mutant of Recover: the internal error is written whatever was written before.
RecoverAlways ==
    /\ pc = "panicked"
    /\ status' = (IF status = 0 THEN 500 ELSE status) /\ documents' = Append(documents, 500)
    /\ pc' = "returned"
    /\ UNCHANGED <<request, todo, storeVars, cancelled, answer, logged>>

Recover ==
    /\ pc = "panicked"
    /\ IF status = 0 THEN status' = 500 /\ documents' = Append(documents, 500) ELSE UNCHANGED <<status, documents>>
    /\ pc' = "returned"
    /\ UNCHANGED <<request, todo, storeVars, cancelled, answer, logged>>

Log ==
    /\ pc = "returned"
    /\ logged' = IF status = 0 THEN 200 ELSE status
    /\ pc' = "done"
    /\ UNCHANGED <<request, todo, storeVars, cancelled, answer, status, documents>>

Finished == pc = "done" /\ UNCHANGED vars

Next ==
    \/ Dispatch \/ Authorize \/ ValidateNoQuery \/ ReadFormat \/ RequireJSON
    \/ PathCode \/ PathSpelling \/ ReadBody \/ ReadBodyFails \/ Parse
    \/ CallStore \/ ServeStatic \/ Cancel \/ StoreReturns
    \/ WriteHeader \/ WriteBody \/ Panic \/ Recover \/ Log \/ Finished

Spec == Init /\ [][Next]_vars

-----------------------------------------------------------------------------
HasBody(q) == q.route = "query" \/ (q.route = "dataset" /\ q.method = "POST")

\* What a request has to be, whatever order its parts are looked at.
Acceptable(q) ==
    /\ q.route \in DOMAIN Methods /\ q.method \in Methods[q.route] /\ q.route \notin Static
    /\ q.route \in Public \/ q.token = "write" \/ (q.token = "read" /\ ~Mutation)
    /\ q.route \in Public \/ q.query = "none"
        \/ (q.route \in {"data", "query"} /\ q.query \in {"format", "unparsable"})
    /\ q.route \in Public \cup {"providers"} \/ q.path = "code"
    /\ HasBody(q) => q.media = "json" /\ q.length <= MaxRequestBytes /\ q.content = "good"

\* The store is called for acceptable requests alone: no order of checks, and
\* no body that is cut at the limit, lets another one through.
CallsAreAcceptable == called => Acceptable(request)

\* What is parsed is the whole body, never the part of it a limit let through:
\* one that is too long is answered 413, or the client is gone.
WholeBody ==
    HasBody(request) /\ pc = "checking" /\ todo = <<"parse">> => consumed = request.length

\* An answer below 500 tells a writer what happened: success means the change
\* is made, a refusal means nothing was changed.
AnswerTellsEffect ==
    pc = "done" /\ Mutation =>
        /\ status \in {200, 201} => effect
        /\ status \in 400..499 => ~effect

\* A request gets one answer: at most one document, which tells of the status
\* it comes with, as the log line does, wherever the handler panics.
OneAnswer == pc = "done" =>
        /\ status # 0 /\ logged = status
        /\ documents \in {<<>>, <<status>>}

-----------------------------------------------------------------------------
\* Statuses the OpenAPI document lists, by operation.
Documented(q) ==
    CASE q.route = "health" -> {200, 503}
      [] q.route = "providers" -> {200, 401, 500, 503}
      [] q.route = "dataset" /\ q.method = "POST" ->
            {200, 201, 400, 401, 403, 409, 413, 415, 422, 500, 503}
      [] q.route = "dataset" /\ q.method = "DELETE" -> {204, 400, 401, 403, 500, 503}
      [] q.route \in {"datasets", "structure"} \/ (q.route = "dataset" /\ q.method = "GET") ->
            {200, 401, 404, 500, 503}
      [] q.route = "data" -> {200, 400, 401, 404, 500, 503}
      [] q.route = "query" -> {200, 400, 401, 404, 413, 415, 422, 500, 503}

\* "OpenAPI 3.1 - exhaustive HTTP contract": the statuses a handler of the API
\* answers for a method of its own are among those the document lists.
StatusesDocumented ==
    /\ request.route \in DOMAIN Methods \ Static /\ request.method \in Methods[request.route]
    /\ pc = "answering"
    => answer \in Documented(request)
=============================================================================
