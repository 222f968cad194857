----------------------------- MODULE DatasetStore -----------------------------
(***************************************************************************)
(* The dataset store of internal/store/postgres.go: every store call the   *)
(* HTTP handlers make, statement by statement, against the five tables of  *)
(* the storage schema.                                                     *)
(*                                                                         *)
(* A Request is one HTTP request on its way through the store.  It is also *)
(* the value of every generated key and of every spelling it writes: the   *)
(* dataset a request creates has that request as its dataset_id, and a row *)
(* it writes names it in "by".                                             *)
(*                                                                         *)
(* PostgreSQL is the environment.  A transaction keeps its own inserts and *)
(* deletes (ins, del) until the server commits it.  Writers run at READ    *)
(* COMMITTED: a statement sees what is committed when it starts and the    *)
(* transaction's own writes.  Readers run at REPEATABLE READ: they see     *)
(* what was committed when their first statement ran.  A request that      *)
(* stops waiting (deadline, lost connection) leaves its server session     *)
(* behind, holding its locks, until the server aborts it; when COMMIT was  *)
(* already on the wire the server may still commit.                        *)
(***************************************************************************)
EXTENDS Integers, FiniteSets

CONSTANTS
    Request,    \* the requests of one behaviour
    Provider,   \* normalized provider keys
    Dataset,    \* normalized dataset keys
    Structure,  \* dimension and category lists
    Cell,       \* cell indexes
    Call,       \* what a request may ask for
    LockOf,     \* advisoryKey: identity -> 64-bit lock key
    MaxConns,   \* size of the connection pool
    BatchSize   \* queryBatchSize

Identity == Provider \X Dataset
Kind == {"replace", "delete", "summary", "structure", "data", "query",
         "datasets", "providers"}
AnyCall == [kind : Kind, provider : Provider, dataset : Dataset,
            overwrite : BOOLEAN, structure : Structure, cells : SUBSET Cell]

None == "none"
ASSUME RequestAssumption == None \notin Request /\ IsFiniteSet(Request)
ASSUME CallAssumption == Call \subseteq AnyCall
ASSUME LockAssumption == LockOf \in [Identity -> Int]
ASSUME SizeAssumption == MaxConns \in Nat \ {0} /\ BatchSize \in Nat \ {0}

Lock == {LockOf[i] : i \in Identity}

-----------------------------------------------------------------------------
(***************************************************************************)
(* Rows.  One dimension row and one category row stand for all the         *)
(* dimensions and all the categories one replacement writes.               *)
(***************************************************************************)
ProviderRow == [provider : Provider, code : Request]
DatasetRow == [id : Request, provider : Provider, dataset : Dataset,
               by : Request, at : Nat]
DimensionRow == [id : Request, dataset : Request, structure : Structure]
CategoryRow == [dimension : Request, structure : Structure]
ObservationRow == [dataset : Request, cell : Cell, by : Request]

Rows == [providers : SUBSET ProviderRow, datasets : SUBSET DatasetRow,
         dimensions : SUBSET DimensionRow, categories : SUBSET CategoryRow,
         observations : SUBSET ObservationRow]

NoRows == [providers |-> {}, datasets |-> {}, dimensions |-> {},
           categories |-> {}, observations |-> {}]

\* The rows that are left when out is deleted and in is inserted.
Merge(rows, out, in) ==
    [providers    |-> (rows.providers \ out.providers) \cup in.providers,
     datasets     |-> (rows.datasets \ out.datasets) \cup in.datasets,
     dimensions   |-> (rows.dimensions \ out.dimensions) \cup in.dimensions,
     categories   |-> (rows.categories \ out.categories) \cup in.categories,
     observations |-> (rows.observations \ out.observations)
                        \cup in.observations]

\* The rows a statement joins from a call's codes or from dataset ids.
ProviderRows(rows, c) == {p \in rows.providers : p.provider = c.provider}
\* Mutant of DatasetRows: the provider is left out of the join.
AnyProvidersDatasetRows(rows, c) ==
    {d \in rows.datasets : d.dataset = c.dataset}
DatasetRows(rows, c) ==
    {d \in rows.datasets : d.provider = c.provider /\ d.dataset = c.dataset}
DimensionRows(rows, ids) == {m \in rows.dimensions : m.dataset \in ids}
CategoryRows(rows, ids) ==
    {g \in rows.categories :
        \E m \in DimensionRows(rows, ids) : m.id = g.dimension}
ObservationRows(rows, ids) == {o \in rows.observations : o.dataset \in ids}
\* Mutant of Ids: joins on the dataset key in place of the dataset id.
KeysForIds(datasets) == {d.dataset : d \in datasets}
Ids(datasets) == {d.id : d \in datasets}

-----------------------------------------------------------------------------
VARIABLES
    db,      \* committed rows
    clock,   \* clock_timestamp() of the database
    holder,  \* who holds each advisory lock
    tx,      \* the server's view of each request's transaction
    ins,     \* rows its transaction inserted and has not committed
    del,     \* rows its transaction deleted and has not committed
    snap,    \* its REPEATABLE READ snapshot
    call,    \* what each request asks for
    pc,      \* the next statement of its store call
    got,     \* what the call has read so far
    result   \* what the call will return

vars == <<db, clock, holder, tx, ins, del, snap, call, pc, got, result>>
server == <<db, clock, holder, tx, ins, del, snap>>

WritePc == {"lock", "provider", "spelling", "dataset", "insert", "clear",
            "cascade", "structure", "observations", "stamp", "wipe",
            "remove", "ready", "commit"}
ReadPc == {"summary", "dimensions", "categories", "cells", "batch",
           "finish", "statement"}
Pc == {"queued", "rollback", "done", "failed"} \cup WritePc \cup ReadPc
Result == {None, "created", "replaced", "deleted", "dataset_exists", "ok",
           "not_found", "invalid_selection", "error"}
Got == [rows : SUBSET DatasetRow, codes : SUBSET ProviderRow,
        dims : SUBSET DimensionRow, cats : SUBSET CategoryRow,
        cells : SUBSET ObservationRow, left : SUBSET Cell]
NoGot == [rows |-> {}, codes |-> {}, dims |-> {}, cats |-> {},
          cells |-> {}, left |-> {}]

TypeOK ==
    /\ db \in Rows
    /\ clock \in Nat
    /\ holder \in [Lock -> Request \cup {None}]
    /\ tx \in [Request ->
               {"none", "active", "committing", "committed", "aborted"}]
    /\ ins \in [Request -> Rows]
    /\ del \in [Request -> Rows]
    /\ snap \in [Request -> Rows]
    /\ call \in [Request -> AnyCall]
    /\ pc \in [Request -> Pc]
    /\ got \in [Request -> Got]
    /\ result \in [Request -> Result]

Init ==
    /\ db = NoRows
    /\ clock = 0
    /\ holder = [k \in Lock |-> None]
    /\ tx = [r \in Request |-> "none"]
    /\ ins = [r \in Request |-> NoRows]
    /\ del = [r \in Request |-> NoRows]
    /\ snap = [r \in Request |-> NoRows]
    /\ call \in [Request -> Call]
    /\ pc = [r \in Request |-> "queued"]
    /\ got = [r \in Request |-> NoGot]
    /\ result = [r \in Request |-> None]

-----------------------------------------------------------------------------
Key(r) == LockOf[<<call[r].provider, call[r].dataset>>]

\* Transactions the server has neither committed nor aborted.
Open(r) == tx[r] \in {"active", "committing"}

\* Connections checked out of the pool.
InUse == {r \in Request : pc[r] \notin {"queued", "done", "failed"}}

\* What a READ COMMITTED statement of r sees.
View(r) == Merge(db, del[r], ins[r])

\* Mutant of Snapshot: the read transaction runs at READ COMMITTED.
CommittedNow(r) == db
\* What a REPEATABLE READ statement of r sees after its first.
Snapshot(r) == snap[r]

Go(r, from, to) == pc[r] = from /\ pc' = [pc EXCEPT ![r] = to]

Write(r, out, in) ==
    /\ ins' = [ins EXCEPT ![r] = Merge(@, out, in)]
    /\ del' = [del EXCEPT ![r] = Merge(@, NoRows, out)]
    /\ UNCHANGED <<db, holder, tx, snap, call>>

ReadOnly == UNCHANGED <<db, clock, holder, tx, ins, del, snap, call>>

\* An error return: the deferred Rollback is still to run.
Fail(r, from, status) ==
    /\ Go(r, from, "rollback")
    /\ result' = [result EXCEPT ![r] = status]
    /\ UNCHANGED got

\* A server session ends: its locks are free and its private rows are gone.
EndSession(r, outcome) ==
    /\ tx' = [tx EXCEPT ![r] = outcome]
    /\ holder' = [k \in Lock |-> IF holder[k] = r THEN None ELSE holder[k]]
    /\ ins' = [ins EXCEPT ![r] = NoRows]
    /\ del' = [del EXCEPT ![r] = NoRows]
    /\ snap' = [snap EXCEPT ![r] = NoRows]

\* Row locks: a statement on a dataset row waits for the transactions that
\* locked it with FOR UPDATE or deleted it.
RowFree(r) ==
    \A q \in Request \ {r} :
        Open(q) /\ call[q].kind \in {"replace", "delete"} =>
            Ids(got[q].rows \cup del[q].datasets)
                \cap Ids(DatasetRows(View(r), call[r])) = {}

-----------------------------------------------------------------------------
(***************************************************************************)
(* Every call begins by taking a connection from the pool.                 *)
(***************************************************************************)
FirstPc(kind) ==
    CASE kind \in {"replace", "delete"} -> "lock"
      [] kind \in {"structure", "data", "query"} -> "summary"
      [] OTHER -> "statement"

Begin(r) ==
    /\ Cardinality(InUse) < MaxConns
    /\ Go(r, "queued", FirstPc(call[r].kind))
    /\ tx' = [tx EXCEPT ![r] = "active"]
    /\ UNCHANGED <<db, clock, holder, ins, del, snap, call, got, result>>

(***************************************************************************)
(* Replace and Delete, up to COMMIT.                                       *)
(***************************************************************************)
\* Mutant of AdvisoryLock: pg_try_advisory_xact_lock, its result ignored.
TryAdvisoryLock(r) ==
    /\ Go(r, "lock", IF call[r].kind = "delete" THEN "wipe" ELSE "provider")
    /\ holder' = [holder EXCEPT ![Key(r)] = r]
    /\ UNCHANGED <<db, clock, tx, ins, del, snap, call, got, result>>

AdvisoryLock(r) ==
    /\ Go(r, "lock", IF call[r].kind = "delete" THEN "wipe" ELSE "provider")
    /\ holder[Key(r)] = None
    /\ holder' = [holder EXCEPT ![Key(r)] = r]
    /\ UNCHANGED <<db, clock, tx, ins, del, snap, call, got, result>>

\* Mutant of InsertProvider: ON CONFLICT DO UPDATE of the spelling.
UpsertProvider(r) ==
    /\ Go(r, "provider", "spelling")
    /\ \A q \in Request \ {r} : ProviderRows(ins[q], call[r]) = {}
    /\ Write(r, [NoRows EXCEPT !.providers = ProviderRows(View(r), call[r])],
                [NoRows EXCEPT !.providers =
                    {[provider |-> call[r].provider, code |-> r]}])
    /\ UNCHANGED <<clock, got, result>>

\* INSERT ... ON CONFLICT DO NOTHING waits for a transaction that inserted
\* the same key and has not ended.
InsertProvider(r) ==
    /\ Go(r, "provider", "spelling")
    /\ \A q \in Request \ {r} : ProviderRows(ins[q], call[r]) = {}
    /\ Write(r, NoRows,
             IF ProviderRows(View(r), call[r]) # {} THEN NoRows
             ELSE [NoRows EXCEPT !.providers =
                       {[provider |-> call[r].provider, code |-> r]}])
    /\ UNCHANGED <<clock, got, result>>

SelectProvider(r) ==
    LET found == ProviderRows(View(r), call[r]) IN
    /\ \/ /\ found # {}
          /\ Go(r, "spelling", "dataset")
          /\ got' = [got EXCEPT ![r].codes = found]
          /\ UNCHANGED result
       \/ found = {} /\ Fail(r, "spelling", "error")
    /\ ReadOnly

SelectDataset(r) ==
    LET found == DatasetRows(View(r), call[r]) IN
    /\ RowFree(r)
    /\ \/ /\ found = {} \/ call[r].overwrite
          /\ Go(r, "dataset", IF found = {} THEN "insert" ELSE "clear")
          /\ got' = [got EXCEPT ![r].rows = found]
          /\ result' = [result EXCEPT ![r] =
                           IF found = {} THEN "created" ELSE "replaced"]
       \/ found # {} /\ ~call[r].overwrite /\ Fail(r, "dataset", "dataset_exists")
    /\ ReadOnly

\* The unique index on the identity waits for another uncommitted insert.
InsertDataset(r) ==
    LET row == [id |-> r, provider |-> call[r].provider,
                dataset |-> call[r].dataset, by |-> r, at |-> clock]
    IN
    /\ \A q \in Request \ {r} : DatasetRows(ins[q], call[r]) = {}
    /\ UNCHANGED clock
    /\ \/ /\ DatasetRows(View(r), call[r]) = {}
          /\ Go(r, "insert", "structure")
          /\ Write(r, NoRows, [NoRows EXCEPT !.datasets = {row}])
          /\ got' = [got EXCEPT ![r].rows = {row}]
          /\ UNCHANGED result
       \/ /\ DatasetRows(View(r), call[r]) # {}
          /\ Fail(r, "insert", "error")
          /\ UNCHANGED <<db, holder, tx, ins, del, snap, call>>

\* Mutant of ClearObservations: the statement is missing.
KeepObservations(r) ==
    /\ Go(r, "clear", "cascade")
    /\ UNCHANGED <<server, call, got, result>>

ClearObservations(r) ==
    /\ Go(r, "clear", "cascade")
    /\ Write(r, [NoRows EXCEPT !.observations =
                    ObservationRows(View(r), Ids(got[r].rows))], NoRows)
    /\ UNCHANGED <<clock, got, result>>

\* Deleting dimensions cascades to their categories.
Cascade(rows, ids) ==
    [NoRows EXCEPT !.dimensions = DimensionRows(rows, ids),
                   !.categories = CategoryRows(rows, ids)]

ClearDimensions(r) ==
    /\ Go(r, "cascade", "structure")
    /\ Write(r, Cascade(View(r), Ids(got[r].rows)), NoRows)
    /\ UNCHANGED <<clock, got, result>>

\* One dimension position, one category position: a second structure of the
\* same dataset violates dimensions_position_unique.
InsertStructure(r) ==
    LET ids == Ids(got[r].rows)
        new == [NoRows EXCEPT
                  !.dimensions = {[id |-> r, dataset |-> i,
                                   structure |-> call[r].structure] : i \in ids},
                  !.categories = {[dimension |-> r,
                                   structure |-> call[r].structure]}]
    IN
    /\ UNCHANGED <<clock, got>>
    /\ \/ /\ DimensionRows(View(r), ids) = {}
          /\ Go(r, "structure", "observations")
          /\ Write(r, NoRows, new)
          /\ UNCHANGED result
       \/ /\ DimensionRows(View(r), ids) # {}
          /\ Fail(r, "structure", "error")
          /\ UNCHANGED <<db, holder, tx, ins, del, snap, call>>

\* observations_pkey refuses a second row for a cell of the same dataset.
CopyObservations(r) ==
    LET new == {[dataset |-> i, cell |-> c, by |-> r] :
                    i \in Ids(got[r].rows), c \in call[r].cells}
        taken == \E o \in View(r).observations, n \in new :
                    o.dataset = n.dataset /\ o.cell = n.cell
    IN
    /\ UNCHANGED <<clock, got>>
    /\ \/ /\ ~taken
          /\ Go(r, "observations", "stamp")
          /\ Write(r, NoRows, [NoRows EXCEPT !.observations = new])
          /\ UNCHANGED result
       \/ /\ taken
          /\ Fail(r, "observations", "error")
          /\ UNCHANGED <<db, holder, tx, ins, del, snap, call>>

\* Mutant of Stamped: updated_at keeps its value on replacement.
StampedOnce(d, r) == [d EXCEPT !.by = r]
\* The assignments of the UPDATE: the new counts and source stamp, and the
\* time of the database.
Stamped(d, r) == [d EXCEPT !.by = r, !.at = clock + 1]

UpdateDataset(r) ==
    LET old == {d \in View(r).datasets : d.id \in Ids(got[r].rows)}
        new == {Stamped(d, r) : d \in old}
    IN
    /\ Go(r, "stamp", "ready")
    /\ clock' = clock + 1
    /\ Write(r, [NoRows EXCEPT !.datasets = old],
                [NoRows EXCEPT !.datasets = new])
    /\ got' = [got EXCEPT ![r].rows = new]
    /\ UNCHANGED result

\* Mutant of DeleteObservations: left to a cascade that does not exist.
LeaveObservations(r) ==
    /\ Go(r, "wipe", "remove")
    /\ UNCHANGED <<server, call, got, result>>

\* Delete names the identity in both statements; it removes nothing, and
\* succeeds, when the dataset is not there.
DeleteObservations(r) ==
    /\ Go(r, "wipe", "remove")
    /\ Write(r, [NoRows EXCEPT !.observations =
                    ObservationRows(View(r), Ids(DatasetRows(View(r), call[r])))],
             NoRows)
    /\ UNCHANGED <<clock, got, result>>

DeleteDataset(r) ==
    LET found == DatasetRows(View(r), call[r]) IN
    /\ RowFree(r)
    /\ Go(r, "remove", "ready")
    /\ Write(r, [Cascade(View(r), Ids(found)) EXCEPT !.datasets = found], NoRows)
    /\ result' = [result EXCEPT ![r] = "deleted"]
    /\ UNCHANGED <<clock, got>>

(***************************************************************************)
(* COMMIT: the client sends it, the server performs it, the client learns  *)
(* of it.                                                                  *)
(***************************************************************************)
Commit(r) ==
    /\ Go(r, "ready", "commit")
    /\ tx' = [tx EXCEPT ![r] = "committing"]
    /\ UNCHANGED <<db, clock, holder, ins, del, snap, call, got, result>>

ServerCommit(r) ==
    /\ tx[r] = "committing"
    /\ db' = View(r)
    /\ EndSession(r, "committed")
    /\ UNCHANGED <<clock, call, pc, got, result>>

Ack(r) ==
    /\ tx[r] = "committed"
    /\ Go(r, "commit", "done")
    /\ UNCHANGED <<server, call, got, result>>

(***************************************************************************)
(* GetStructure, GetData and Query: the first statement fixes the snapshot *)
(* of the transaction.                                                     *)
(***************************************************************************)
ReadSummary(r) ==
    LET found == DatasetRows(db, call[r]) IN
    /\ snap' = [snap EXCEPT ![r] = db]
    /\ \/ /\ found # {}
          /\ Go(r, "summary", "dimensions")
          /\ got' = [got EXCEPT ![r].rows = found,
                                ![r].codes = ProviderRows(db, call[r])]
          /\ UNCHANGED result
       \/ found = {} /\ Fail(r, "summary", "not_found")
    /\ UNCHANGED <<db, clock, holder, tx, ins, del, call>>

ReadDimensions(r) ==
    /\ Go(r, "dimensions", "categories")
    /\ got' = [got EXCEPT ![r].dims =
                  DimensionRows(Snapshot(r), Ids(got[r].rows))]
    /\ ReadOnly
    /\ UNCHANGED result

\* loadStructure's second statement, then ResolveSelection for a query: a
\* selection written for another structure names a category that is unknown.
ReadCategories(r) ==
    LET cats == CategoryRows(Snapshot(r), Ids(got[r].rows))
        loaded == \A g \in cats : \E m \in got[r].dims : m.id = g.dimension
        resolved == \A m \in got[r].dims : m.structure = call[r].structure
        kind == call[r].kind
        next == CASE kind = "structure" -> "finish"
                  [] kind = "data" -> "cells"
                  [] OTHER -> IF call[r].cells = {} THEN "finish" ELSE "batch"
    IN
    /\ \/ /\ loaded /\ (kind = "query" => resolved)
          /\ Go(r, "categories", next)
          /\ got' = [got EXCEPT ![r].cats = cats,
                                ![r].left = IF kind = "query"
                                            THEN call[r].cells ELSE {}]
          /\ UNCHANGED result
       \/ ~loaded /\ Fail(r, "categories", "error")
       \/ /\ loaded /\ kind = "query" /\ ~resolved
          /\ Fail(r, "categories", "invalid_selection")
    /\ ReadOnly

ReadCells(r) ==
    /\ Go(r, "cells", "finish")
    /\ got' = [got EXCEPT ![r].cells =
                  ObservationRows(Snapshot(r), Ids(got[r].rows))]
    /\ ReadOnly
    /\ UNCHANGED result

\* Mutant of ReadBatch: the last, partial batch is not read.
FullBatches(r) ==
    /\ \E batch \in SUBSET got[r].left :
        /\ Cardinality(batch) = BatchSize
        /\ Go(r, "batch", IF Cardinality(got[r].left) < 2 * BatchSize
                          THEN "finish" ELSE "batch")
        /\ got' = [got EXCEPT
                     ![r].left = @ \ batch,
                     ![r].cells = @ \cup
                        {o \in ObservationRows(Snapshot(r), Ids(got[r].rows)) :
                            o.cell \in batch}]
    /\ ReadOnly
    /\ UNCHANGED result

\* One statement for each BatchSize selected cells.
ReadBatch(r) ==
    /\ \E batch \in SUBSET got[r].left :
        /\ \/ Cardinality(batch) = BatchSize
           \/ batch = got[r].left /\ Cardinality(batch) < BatchSize
        /\ Go(r, "batch", IF batch = got[r].left THEN "finish" ELSE "batch")
        /\ got' = [got EXCEPT
                     ![r].left = @ \ batch,
                     ![r].cells = @ \cup
                        {o \in ObservationRows(Snapshot(r), Ids(got[r].rows)) :
                            o.cell \in batch}]
    /\ ReadOnly
    /\ UNCHANGED result

Finish(r) ==
    /\ Go(r, "finish", "done")
    /\ result' = [result EXCEPT ![r] = "ok"]
    /\ EndSession(r, "committed")
    /\ UNCHANGED <<db, clock, call, got>>

(***************************************************************************)
(* GetSummary, ListDatasets and ListProviders: one autocommit statement.   *)
(***************************************************************************)
Answer(r, kinds, rows, codes, empty) ==
    /\ call[r].kind \in kinds
    /\ Go(r, "statement", "done")
    /\ got' = [got EXCEPT ![r].rows = rows, ![r].codes = codes]
    /\ result' = [result EXCEPT ![r] = IF rows = {} THEN empty ELSE "ok"]
    /\ EndSession(r, "committed")
    /\ UNCHANGED <<db, clock, call>>

GetSummary(r) ==
    Answer(r, {"summary"}, DatasetRows(db, call[r]),
           ProviderRows(db, call[r]), "not_found")

ListDatasets(r) ==
    Answer(r, {"datasets"},
           {d \in db.datasets : d.provider = call[r].provider},
           ProviderRows(db, call[r]), "not_found")

\* The join drops the providers that have no dataset left.
ListProviders(r) ==
    Answer(r, {"providers"}, db.datasets,
           {p \in db.providers :
               \E d \in db.datasets : d.provider = p.provider}, "ok")

(***************************************************************************)
(* Endings other than success.                                             *)
(***************************************************************************)
\* Mutant of Rollback: it is not deferred on an error return.
NoRollback(r) ==
    /\ Go(r, "rollback", "done")
    /\ UNCHANGED <<server, call, got, result>>

\* The deferred Rollback runs on context.Background(), so it is not cut
\* short by the deadline.
Rollback(r) ==
    /\ Go(r, "rollback", "done")
    /\ EndSession(r, "aborted")
    /\ UNCHANGED <<db, clock, call, got, result>>

\* Mutant of GiveUp: the lock does not outlive the request.
GiveUpUnlocks(r) ==
    /\ pc[r] \notin {"rollback", "done", "failed"}
    /\ pc' = [pc EXCEPT ![r] = "failed"]
    /\ holder' = [k \in Lock |-> IF holder[k] = r THEN None ELSE holder[k]]
    /\ UNCHANGED <<db, clock, tx, ins, del, snap, call, got, result>>

\* The deadline passes, the client goes away or the connection breaks: the
\* request is answered, the server session is not told.
GiveUp(r) ==
    /\ pc[r] \notin {"rollback", "done", "failed"}
    /\ pc' = [pc EXCEPT ![r] = "failed"]
    /\ UNCHANGED <<server, call, got, result>>

ServerAbort(r) ==
    /\ pc[r] = "failed" /\ Open(r)
    /\ EndSession(r, "aborted")
    /\ UNCHANGED <<db, clock, call, pc, got, result>>

-----------------------------------------------------------------------------
WriterStep(r) ==
    \/ AdvisoryLock(r)       \/ InsertProvider(r)    \/ SelectProvider(r)
    \/ SelectDataset(r)      \/ InsertDataset(r)     \/ ClearObservations(r)
    \/ ClearDimensions(r)    \/ InsertStructure(r)   \/ CopyObservations(r)
    \/ UpdateDataset(r)      \/ DeleteObservations(r) \/ DeleteDataset(r)
    \/ Commit(r)             \/ Ack(r)

ReaderStep(r) ==
    \/ ReadSummary(r)        \/ ReadDimensions(r)    \/ ReadCategories(r)
    \/ ReadCells(r)          \/ ReadBatch(r)         \/ Finish(r)
    \/ GetSummary(r)         \/ ListDatasets(r)      \/ ListProviders(r)

ClientStep(r) == Begin(r) \/ WriterStep(r) \/ ReaderStep(r) \/ Rollback(r)
ServerStep(r) == ServerCommit(r) \/ ServerAbort(r)

\* Every request is answered and every session ended.
Finished ==
    \A r \in Request : pc[r] \in {"done", "failed"} /\ ~Open(r)
Terminating == Finished /\ UNCHANGED vars

Next ==
    \/ \E r \in Request : ClientStep(r) \/ ServerStep(r) \/ GiveUp(r)
    \/ Terminating

Spec == Init /\ [][Next]_vars

(***************************************************************************)
(* A request that can run its next statement does so, and the server ends  *)
(* every session; nothing obliges a request to give up.                    *)
(***************************************************************************)
Fairness ==
    \A r \in Request : WF_vars(ClientStep(r)) /\ WF_vars(ServerStep(r))

FairSpec == Spec /\ Fairness

-----------------------------------------------------------------------------
(***************************************************************************)
(* Properties.                                                             *)
(***************************************************************************)

\* No interleaving of writers and readers reaches one of the errors the code
\* can only report as internal: a provider that vanished after ON CONFLICT
\* DO NOTHING, a duplicate identity, dimension position or cell, a category
\* of a dimension that was not loaded.  The advisory lock and the snapshot
\* are what keeps them out.
NoInternalError == \A r \in Request : result[r] # "error"

\* The referential integrity that storage.observations has no foreign key
\* for, and the one the other tables have: no committed row outlives the row
\* it refers to.
NoOrphans ==
    /\ \A o \in db.observations : o.dataset \in Ids(db.datasets)
    /\ \A m \in db.dimensions : m.dataset \in Ids(db.datasets)
    /\ \A g \in db.categories : \E m \in db.dimensions : m.id = g.dimension
    /\ \A d \in db.datasets : \E p \in db.providers : p.provider = d.provider

\* Every committed dataset is what exactly one request submitted: its cached
\* counts, its structure and its cells all come from the last writer, and
\* nothing of an earlier or an aborted one is left (Replace).
WholeDatasets ==
    \A d \in db.datasets :
        LET w == d.by IN
        /\ DimensionRows(db, {d.id}) =
              {[id |-> w, dataset |-> d.id, structure |-> call[w].structure]}
        /\ CategoryRows(db, {d.id}) =
              {[dimension |-> w, structure |-> call[w].structure]}
        /\ ObservationRows(db, {d.id}) =
              {[dataset |-> d.id, cell |-> c, by |-> w] : c \in call[w].cells}

\* What a reader has loaded, one statement after another while writers
\* commit, is of a single replacement, and is all of it (GetStructure,
\* GetData, Query).
ReadersSeeOneWriter ==
    \A r \in Request : result[r] = "ok" =>
        \A d \in got[r].rows :
            LET w == d.by
                kind == call[r].kind
                cells == CASE kind = "data" -> call[w].cells
                           [] kind = "query" -> call[w].cells \cap call[r].cells
                           [] OTHER -> {}
            IN
            kind \in {"structure", "data", "query"} =>
                /\ {m.id : m \in got[r].dims} = {w}
                /\ {g.dimension : g \in got[r].cats} = {w}
                /\ got[r].cells = {[dataset |-> d.id, cell |-> c, by |-> w] :
                                      c \in cells}

\* Two transactions never hold uncommitted changes of one identity's rows,
\* not even when one of them was abandoned by its request: what the comment
\* on storage.observations relies on in place of a foreign key.
Changed(r) ==
    [ins[r] EXCEPT !.providers = {}] # NoRows \/ del[r] # NoRows
OneWriterPerIdentity ==
    \A q, r \in Request :
        /\ Changed(q) /\ call[q].provider = call[r].provider
        /\ Changed(r) /\ call[q].dataset = call[r].dataset
        => q = r

\* updated_at never stands still or runs back when a dataset is replaced,
\* whatever the order in which the writers started and took their locks.
UpdatedAtAdvances ==
    [][\A d \in db.datasets, e \in db'.datasets :
          d.id = e.id /\ d # e => d.at < e.at]_db

\* A provider keeps the spelling of its first successful creation for ever,
\* and a dataset for as long as it exists.
SpellingPreserved ==
    [][/\ db.providers \subseteq db'.providers
       /\ \A p, q \in db'.providers : p.provider = q.provider => p = q
       /\ \A d \in db.datasets, e \in db'.datasets :
            d.provider = e.provider /\ d.dataset = e.dataset => d.id = e.id]_db

\* Every request is answered, and every advisory lock is free in the end:
\* nobody waits for ever on the pool, on a lock, on another insert or on the
\* session of a request that gave up.
EveryRequestEnds ==
    <>[](Finished /\ \A k \in Lock : holder[k] = None)

\* README.md, "Key constraints": a failed write leaves the prior state
\* visible.
FailedWritesLeavePriorState ==
    \A r \in Request : pc[r] = "failed" =>
        \A d \in db.datasets : d.by # r
=============================================================================
