------------------------ MODULE DatasetStoreRefinement ------------------------
(***************************************************************************)
(* DatasetStore implements AtomicStore.  A write takes effect when the     *)
(* server commits it, a refused creation when it finds the dataset, a      *)
(* transactional read when its first statement fixes the snapshot, and an  *)
(* autocommit read at its only statement.                                  *)
(***************************************************************************)
EXTENDS DatasetStore

Writes(r) == call[r].kind \in {"replace", "delete"}

entryView ==
    [i \in Identity |->
        {[creator |-> d.id, writer |-> d.by] :
            d \in {e \in db.datasets : <<e.provider, e.dataset>> = i}}]

spellingView ==
    [p \in Provider |->
        {w.code : w \in {v \in db.providers : v.provider = p}}]

\* A reader has its answer from the moment it has its snapshot.
stateView ==
    [r \in Request |->
        CASE pc[r] = "done" -> "answered"
          [] pc[r] = "failed" ->
                IF tx[r] = "committing" THEN "abandoned" ELSE "ended"
          [] pc[r] \in {"dimensions", "categories", "cells", "batch",
                        "finish", "rollback"} -> "effected"
          [] pc[r] = "commit" /\ tx[r] = "committed" -> "effected"
          [] OTHER -> "pending"]

Blank == [status |-> "none", seen |-> {}, structures |-> {}, cells |-> {}]

Reply(status, rows, codes, dims, cells) ==
    [status |-> status,
     seen |-> UNION {{[provider |-> d.provider, dataset |-> d.dataset,
                       spelling |-> p.code, creator |-> d.id, writer |-> d.by] :
                         p \in {q \in codes : q.provider = d.provider}} :
                     d \in rows},
     structures |-> {m.structure : m \in dims},
     cells |-> {<<o.cell, o.by>> : o \in cells}]

\* What the call returns, once it is known.
Returned(r) ==
    IF result[r] \in {"created", "replaced", "ok"}
    THEN Reply(result[r], got[r].rows, got[r].codes, got[r].dims, got[r].cells)
    ELSE [Blank EXCEPT !.status = result[r]]

\* What a reader will return, told from its snapshot alone.
Foretold(r) ==
    LET rows == DatasetRows(snap[r], call[r])
        dims == DimensionRows(snap[r], Ids(rows))
        kind == call[r].kind
        cells == {o \in ObservationRows(snap[r], Ids(rows)) :
                    /\ kind # "structure"
                    /\ kind = "query" => o.cell \in call[r].cells}
    IN  IF rows = {} THEN [Blank EXCEPT !.status = "not_found"]
        ELSE IF kind = "query" /\ \E m \in dims : m.structure # call[r].structure
        THEN [Blank EXCEPT !.status = "invalid_selection"]
        ELSE Reply("ok", rows, ProviderRows(snap[r], call[r]), dims, cells)

answerView ==
    [r \in Request |->
        CASE stateView[r] = "answered" -> Returned(r)
          [] stateView[r] = "effected" ->
                IF Writes(r) THEN Returned(r) ELSE Foretold(r)
          [] OTHER -> Blank]

Atomic == INSTANCE AtomicStore
             WITH entry <- entryView, spelling <- spellingView,
                  state <- stateView, answer <- answerView

(***************************************************************************)
(* Every store call is atomic: some order of whole calls, each placed      *)
(* between its arrival and its answer, explains every answer, whatever the *)
(* interleaving of statements, the deadlines that pass and the sessions    *)
(* they leave behind (Replace, Delete and the read calls of postgres.go).  *)
(***************************************************************************)
ImplementsAtomicStore == Atomic!Spec
=============================================================================
