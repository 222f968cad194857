------------------------------ MODULE AtomicStore ------------------------------
(***************************************************************************)
(* What the dataset store promises its callers, with no statements, locks, *)
(* snapshots or transactions: a map from identities to datasets on which   *)
(* every request takes effect at one instant between its arrival and its   *)
(* answer, and is answered with what it met there.  A request that is told *)
(* it failed may still take effect, once and whole, at a later instant.    *)
(*                                                                         *)
(* A stored dataset is the request that created it (whose spelling it      *)
(* keeps) and the request that last wrote it (whose structure and cells it *)
(* has).  A map entry is a set of at most one such pair.                   *)
(***************************************************************************)
CONSTANTS Request, Provider, Dataset

Identity == Provider \X Dataset
Entry == [creator : Request, writer : Request]

VARIABLES
    entry,     \* the dataset stored under each identity
    spelling,  \* the request whose spelling each provider keeps
    call,      \* what each request asks for
    state,     \* how far each request has come
    answer     \* what its effect was, for one that was not given up

vars == <<entry, spelling, call, state, answer>>

NoAnswer == [status |-> "none", seen |-> {}, structures |-> {}, cells |-> {}]
Status(s) == [NoAnswer EXCEPT !.status = s]

Init ==
    /\ entry = [i \in Identity |-> {}]
    /\ spelling = [p \in Provider |-> {}]
    /\ state = [r \in Request |-> "pending"]
    /\ answer = [r \in Request |-> NoAnswer]

Target(r) == <<call[r].provider, call[r].dataset>>

\* Datasets as an answer shows them: both spellings and the last writer.
Seen(entries, spellings, ids) ==
    UNION {{[provider |-> i[1], dataset |-> i[2], spelling |-> s,
             creator |-> e.creator, writer |-> e.writer] :
                e \in entries[i], s \in spellings[i[1]]} : i \in ids}

\* The structures and the cells of the last writers, of which a query gets
\* the cells it selected.
Content(r, seen) ==
    LET writers == {s.writer : s \in seen}
        wanted(w) == IF call[r].kind = "query"
                     THEN call[w].cells \cap call[r].cells ELSE call[w].cells
    IN  [status |-> "ok", seen |-> seen,
         structures |-> {call[w].structure : w \in writers},
         cells |-> UNION {{<<c, w>> : c \in wanted(w)} : w \in writers}]

Reading(r) ==
    LET kind == call[r].kind
        here == Seen(entry, spelling, {Target(r)})
        stale == \E s \in here : call[s.writer].structure # call[r].structure
        list(ids, empty) ==
            LET seen == Seen(entry, spelling, ids)
            IN  IF seen = {} THEN Status(empty)
                ELSE [Status("ok") EXCEPT !.seen = seen]
    IN  CASE kind = "summary" -> list({Target(r)}, "not_found")
          [] kind = "datasets" ->
                list({i \in Identity : i[1] = call[r].provider}, "not_found")
          [] kind = "providers" -> list(Identity, "ok")
          [] kind \in {"structure", "data", "query"} /\ here = {} -> Status("not_found")
          [] kind = "query" /\ here # {} /\ stale -> Status("invalid_selection")
          [] kind = "structure" /\ here # {} ->
                [Content(r, here) EXCEPT !.cells = {}]
          [] OTHER -> Content(r, here)

\* The effect of r: its answer is kept unless r was already given up.
Effect(r, a, next) ==
    \/ /\ state[r] = "pending"
       /\ state' = [state EXCEPT ![r] = next]
       /\ answer' = [answer EXCEPT ![r] = a]
    \/ /\ state[r] = "abandoned"
       /\ state' = [state EXCEPT ![r] = "ended"]
       /\ UNCHANGED answer

Submit(r) ==
    LET i == Target(r)
        p == call[r].provider
        new == IF entry[i] = {} THEN {[creator |-> r, writer |-> r]}
               ELSE {[e EXCEPT !.writer = r] : e \in entry[i]}
    IN
    /\ call[r].kind = "replace"
    /\ entry[i] = {} \/ call[r].overwrite
    /\ entry' = [entry EXCEPT ![i] = new]
    /\ spelling' = [spelling EXCEPT ![p] = IF @ = {} THEN {r} ELSE @]
    /\ Effect(r, [NoAnswer EXCEPT
                    !.status = IF entry[i] = {} THEN "created" ELSE "replaced",
                    !.seen = Seen(entry', spelling', {i})], "effected")

Refuse(r) ==
    /\ call[r].kind = "replace" /\ ~call[r].overwrite
    /\ entry[Target(r)] # {}
    /\ Effect(r, Status("dataset_exists"), "effected")
    /\ UNCHANGED <<entry, spelling>>

Remove(r) ==
    /\ call[r].kind = "delete"
    /\ entry' = [entry EXCEPT ![Target(r)] = {}]
    /\ Effect(r, Status("deleted"), "effected")
    /\ UNCHANGED spelling

Observe(r) ==
    /\ call[r].kind \notin {"replace", "delete"}
    /\ state[r] = "pending"
    /\ \E next \in {"effected", "answered"} : Effect(r, Reading(r), next)
    /\ UNCHANGED <<entry, spelling>>

Respond(r) ==
    /\ state[r] = "effected"
    /\ state' = [state EXCEPT ![r] = "answered"]
    /\ UNCHANGED <<entry, spelling, answer>>

\* The caller is told that the request failed.
GiveUp(r) ==
    /\ \/ /\ state[r] = "pending"
          /\ state' = [state EXCEPT ![r] = "abandoned"]
       \/ /\ state[r] \in {"pending", "effected", "abandoned"}
          /\ state' = [state EXCEPT ![r] = "ended"]
    /\ answer' = [answer EXCEPT ![r] = NoAnswer]
    /\ UNCHANGED <<entry, spelling>>

Next ==
    /\ \E r \in Request : \/ Submit(r)  \/ Refuse(r)  \/ Remove(r)
                          \/ Observe(r) \/ Respond(r) \/ GiveUp(r)
    /\ UNCHANGED call

Spec == Init /\ [][Next]_vars
=============================================================================
