-------------------------- MODULE DatasetStoreProofs --------------------------
(***************************************************************************)
(* Theorems about DatasetStore, for every number of requests, every        *)
(* mapping of identities to lock keys and every size of pool and batch:    *)
(* its types, its inductive invariant, the safety properties that follow   *)
(* from it, and that it implements AtomicStore.                            *)
(***************************************************************************)
EXTENDS DatasetStoreRefinement, TLAPS

-----------------------------------------------------------------------------
(***************************************************************************)
(* Types of the row operators.                                             *)
(***************************************************************************)

\* Deleting rows from a database and inserting rows yields a database.
LEMMA MergeType ==
    ASSUME NEW a \in Rows, NEW b \in Rows, NEW c \in Rows
    PROVE  Merge(a, b, c) \in Rows
BY DEF Merge, Rows

\* The empty database is a database.
LEMMA NoRowsType == NoRows \in Rows
BY DEF NoRows, Rows

\* A database with rows in one table only, or in the two a cascade reaches.
LEMMA OneTableType ==
    /\ \A S \in SUBSET ProviderRow : [NoRows EXCEPT !.providers = S] \in Rows
    /\ \A S \in SUBSET DatasetRow : [NoRows EXCEPT !.datasets = S] \in Rows
    /\ \A S \in SUBSET ObservationRow : [NoRows EXCEPT !.observations = S] \in Rows
    /\ \A S \in SUBSET DimensionRow, T \in SUBSET CategoryRow :
          [NoRows EXCEPT !.dimensions = S, !.categories = T] \in Rows
BY DEF NoRows, Rows

\* The rows a statement selects are rows of their table.
LEMMA SelectType ==
    ASSUME NEW rows \in Rows, NEW c, NEW ids
    PROVE  /\ ProviderRows(rows, c) \in SUBSET ProviderRow
           /\ DatasetRows(rows, c) \in SUBSET DatasetRow
           /\ DimensionRows(rows, ids) \in SUBSET DimensionRow
           /\ CategoryRows(rows, ids) \in SUBSET CategoryRow
           /\ ObservationRows(rows, ids) \in SUBSET ObservationRow
BY DEF Rows, ProviderRows, DatasetRows, DimensionRows, CategoryRows, ObservationRows

LEMMA CascadeType ==
    ASSUME NEW rows \in Rows, NEW ids
    PROVE  Cascade(rows, ids) \in Rows
BY SelectType, OneTableType DEF Cascade

\* What a transaction sees is a database.
LEMMA ViewType ==
    ASSUME TypeOK, NEW r \in Request
    PROVE  View(r) \in Rows
BY MergeType DEF TypeOK, View

-----------------------------------------------------------------------------
(***************************************************************************)
(* Type correctness.                                                       *)
(***************************************************************************)

\* A transition of the program counter keeps its type.
LEMMA GoType ==
    ASSUME TypeOK, NEW r \in Request, NEW from, NEW to \in Pc, Go(r, from, to)
    PROVE  pc' \in [Request -> Pc]
BY DEF TypeOK, Go

\* A statement that writes keeps the types of what it may change.
LEMMA WriteType ==
    ASSUME TypeOK, NEW r \in Request, NEW out \in Rows, NEW in \in Rows,
           Write(r, out, in)
    PROVE  /\ ins' \in [Request -> Rows]
           /\ del' \in [Request -> Rows]
           /\ UNCHANGED <<db, holder, tx, snap, call>>
<1>1. Merge(ins[r], out, in) \in Rows /\ Merge(del[r], NoRows, out) \in Rows
  BY MergeType, NoRowsType DEF TypeOK
<1>2. QED
  BY <1>1 DEF TypeOK, Write

\* So does an error return.
LEMMA FailType ==
    ASSUME TypeOK, NEW r \in Request, NEW from, NEW status \in Result,
           Fail(r, from, status)
    PROVE  /\ pc' \in [Request -> Pc]
           /\ result' \in [Request -> Result]
           /\ UNCHANGED got
<1>1. "rollback" \in Pc
  BY DEF Pc
<1>2. QED
  BY <1>1, GoType DEF TypeOK, Fail

\* So does the end of a session.
LEMMA EndSessionType ==
    ASSUME TypeOK, NEW r \in Request, NEW outcome \in {"committed", "aborted"},
           EndSession(r, outcome)
    PROVE  /\ tx' \in [Request -> {"none", "active", "committing",
                                   "committed", "aborted"}]
           /\ holder' \in [Lock -> Request \cup {None}]
           /\ ins' \in [Request -> Rows]
           /\ del' \in [Request -> Rows]
           /\ snap' \in [Request -> Rows]
BY NoRowsType DEF TypeOK, EndSession

\* The statements of Replace and Delete keep the types.
LEMMA WriterType ==
    ASSUME TypeOK, NEW r \in Request, WriterStep(r)
    PROVE  TypeOK'
<1> USE DEF Pc, WritePc, ReadPc, Result
<1>v. View(r) \in Rows
  BY ViewType
<1>1. CASE AdvisoryLock(r)
  <2>1. Key(r) \in Lock
    BY DEF Key, Lock, TypeOK, AnyCall, Identity
  <2>2. QED
    BY <1>1, <2>1, GoType DEF AdvisoryLock, TypeOK
<1>2. CASE InsertProvider(r)
  <2>1. {[provider |-> call[r].provider, code |-> r]} \in SUBSET ProviderRow
    BY DEF TypeOK, AnyCall, ProviderRow
  <2>2. (IF ProviderRows(View(r), call[r]) # {} THEN NoRows
         ELSE [NoRows EXCEPT !.providers =
                  {[provider |-> call[r].provider, code |-> r]}]) \in Rows
    BY <2>1, OneTableType, NoRowsType
  <2>3. QED
    BY <1>2, <2>2, NoRowsType, WriteType, GoType DEF InsertProvider, TypeOK
<1>3. CASE SelectProvider(r)
  <2>1. ProviderRows(View(r), call[r]) \in SUBSET ProviderRow
    BY <1>v, SelectType
  <2>2. CASE Fail(r, "spelling", "error")
    BY <1>3, <2>2, FailType DEF SelectProvider, ReadOnly, TypeOK
  <2>3. CASE /\ Go(r, "spelling", "dataset")
             /\ got' = [got EXCEPT ![r].codes = ProviderRows(View(r), call[r])]
             /\ UNCHANGED result
    <3>1. [got[r] EXCEPT !.codes = ProviderRows(View(r), call[r])] \in Got
      <4>1. got[r] \in Got
        BY DEF TypeOK
      <4>2. QED
        BY <2>1, <4>1 DEF Got
    <3>2. got' \in [Request -> Got]
      BY <2>3, <3>1 DEF TypeOK
    <3>3. QED
      BY <1>3, <2>3, <3>2, GoType DEF SelectProvider, ReadOnly, TypeOK
  <2>4. QED
    BY <1>3, <2>2, <2>3 DEF SelectProvider
<1>4. CASE SelectDataset(r)
  <2>1. DatasetRows(View(r), call[r]) \in SUBSET DatasetRow
    BY <1>v, SelectType
  <2>2. CASE Fail(r, "dataset", "dataset_exists")
    BY <1>4, <2>2, FailType DEF SelectDataset, ReadOnly, TypeOK
  <2>3. CASE ~Fail(r, "dataset", "dataset_exists")
    <3>1. got' \in [Request -> Got]
      <4>1. got[r] \in Got /\ got \in [Request -> Got]
        BY DEF TypeOK
      <4>2. [got[r] EXCEPT !.rows = DatasetRows(View(r), call[r])] \in Got
        BY <2>1, <4>1 DEF Got
      <4>3. got' = [got EXCEPT ![r] = [got[r] EXCEPT !.rows = DatasetRows(View(r), call[r])]]
        BY <1>4, <2>3, <4>1 DEF SelectDataset
      <4>4. QED
        BY <4>1, <4>2, <4>3
    <3>2. pc' \in [Request -> Pc]
      BY <1>4, <2>3, GoType DEF SelectDataset
    <3>3. result' \in [Request -> Result]
      BY <1>4, <2>3 DEF SelectDataset, TypeOK
    <3>4. QED
      BY <1>4, <3>1, <3>2, <3>3 DEF SelectDataset, ReadOnly, TypeOK
  <2>4. QED
    BY <2>2, <2>3
<1>5. CASE InsertDataset(r)
  <2> DEFINE row == [id |-> r, provider |-> call[r].provider,
                     dataset |-> call[r].dataset, by |-> r, at |-> clock]
  <2>1. {row} \in SUBSET DatasetRow
    BY DEF TypeOK, AnyCall, DatasetRow
  <2>2. [NoRows EXCEPT !.datasets = {row}] \in Rows
    BY <2>1, OneTableType
  <2>3. CASE Fail(r, "insert", "error") /\ UNCHANGED <<db, holder, tx, ins, del, snap, call>>
    BY <1>5, <2>3, FailType DEF InsertDataset, TypeOK
  <2>4. CASE /\ Go(r, "insert", "structure")
             /\ Write(r, NoRows, [NoRows EXCEPT !.datasets = {row}])
             /\ got' = [got EXCEPT ![r].rows = {row}]
             /\ UNCHANGED result
    <3>1. got' \in [Request -> Got]
      <4>1. got[r] \in Got /\ got \in [Request -> Got]
        BY DEF TypeOK
      <4>2. [got[r] EXCEPT !.rows = {row}] \in Got
        BY <2>1, <4>1 DEF Got
      <4>3. QED
        BY <2>4, <4>1, <4>2
    <3>2. pc' \in [Request -> Pc]
      BY <2>4, GoType
    <3>3. ins' \in [Request -> Rows] /\ del' \in [Request -> Rows]
          /\ UNCHANGED <<db, holder, tx, snap, call>>
      BY <2>2, <2>4, NoRowsType, WriteType
    <3>4. QED
      BY <1>5, <2>4, <3>1, <3>2, <3>3 DEF InsertDataset, TypeOK
  <2>5. QED
    BY <1>5, <2>3, <2>4 DEF InsertDataset
<1>6. CASE ClearObservations(r)
  <2>1. [NoRows EXCEPT !.observations =
            ObservationRows(View(r), Ids(got[r].rows))] \in Rows
    BY <1>v, SelectType, OneTableType
  <2>2. QED
    BY <1>6, <2>1, NoRowsType, WriteType, GoType DEF ClearObservations, TypeOK
<1>7. CASE ClearDimensions(r)
  <2>1. Cascade(View(r), Ids(got[r].rows)) \in Rows
    BY <1>v, CascadeType
  <2>2. QED
    BY <1>7, <2>1, NoRowsType, WriteType, GoType DEF ClearDimensions, TypeOK
<1>8. CASE InsertStructure(r)
  <2> DEFINE ids == Ids(got[r].rows)
             dims == {[id |-> r, dataset |-> i, structure |-> call[r].structure] : i \in ids}
             cats == {[dimension |-> r, structure |-> call[r].structure]}
             new == [NoRows EXCEPT !.dimensions = dims, !.categories = cats]
  <2>1. ids \in SUBSET Request
    BY DEF TypeOK, Got, DatasetRow, Ids
  <2>2. dims \in SUBSET DimensionRow /\ cats \in SUBSET CategoryRow
    BY <2>1 DEF TypeOK, AnyCall, DimensionRow, CategoryRow
  <2>3. new \in Rows
    <3> HIDE DEF dims, cats
    <3> QED BY <2>2, OneTableType
  <2>4. CASE Fail(r, "structure", "error") /\ UNCHANGED <<db, holder, tx, ins, del, snap, call>>
    BY <1>8, <2>4, FailType DEF InsertStructure, TypeOK
  <2>5. CASE /\ Go(r, "structure", "observations")
             /\ Write(r, NoRows, new)
             /\ UNCHANGED result
    <3> HIDE DEF new
    <3>1. ins' \in [Request -> Rows] /\ del' \in [Request -> Rows]
          /\ UNCHANGED <<db, holder, tx, snap, call>>
      BY <2>3, <2>5, NoRowsType, WriteType
    <3>2. pc' \in [Request -> Pc]
      BY <2>5, GoType
    <3>3. QED
      BY <1>8, <2>5, <3>1, <3>2 DEF InsertStructure, TypeOK
  <2>6. QED
    BY <1>8, <2>4, <2>5 DEF InsertStructure
<1>9. CASE CopyObservations(r)
  <2> DEFINE rows == {[dataset |-> i, cell |-> c, by |-> r] :
                         i \in Ids(got[r].rows), c \in call[r].cells}
             new == [NoRows EXCEPT !.observations = rows]
  <2>1. Ids(got[r].rows) \in SUBSET Request
    BY DEF TypeOK, Got, DatasetRow, Ids
  <2>2. rows \in SUBSET ObservationRow
    BY <2>1 DEF TypeOK, AnyCall, ObservationRow
  <2>3. new \in Rows
    <3> HIDE DEF rows
    <3> QED BY <2>2, OneTableType
  <2>4. CASE Fail(r, "observations", "error") /\ UNCHANGED <<db, holder, tx, ins, del, snap, call>>
    BY <1>9, <2>4, FailType DEF CopyObservations, TypeOK
  <2>5. CASE /\ Go(r, "observations", "stamp")
             /\ Write(r, NoRows, new)
             /\ UNCHANGED result
    <3> HIDE DEF new
    <3>1. ins' \in [Request -> Rows] /\ del' \in [Request -> Rows]
          /\ UNCHANGED <<db, holder, tx, snap, call>>
      BY <2>3, <2>5, NoRowsType, WriteType
    <3>2. pc' \in [Request -> Pc]
      BY <2>5, GoType
    <3>3. QED
      BY <1>9, <2>5, <3>1, <3>2 DEF CopyObservations, TypeOK
  <2>6. QED
    BY <1>9, <2>4, <2>5 DEF CopyObservations
<1>10. CASE UpdateDataset(r)
  <2> DEFINE old == {d \in View(r).datasets : d.id \in Ids(got[r].rows)}
             new == {Stamped(d, r) : d \in old}
  <2>1. old \in SUBSET DatasetRow
    BY <1>v DEF Rows
  <2>2. new \in SUBSET DatasetRow
    <3>1. clock + 1 \in Nat
      BY DEF TypeOK
    <3>2. \A d \in DatasetRow : Stamped(d, r) \in DatasetRow
      BY <3>1 DEF DatasetRow, Stamped
    <3>3. QED
      BY <2>1, <3>2
  <2>3. [NoRows EXCEPT !.datasets = old] \in Rows /\ [NoRows EXCEPT !.datasets = new] \in Rows
    <3> HIDE DEF old, new
    <3> QED BY <2>1, <2>2, OneTableType
  <2>4. Go(r, "stamp", "ready") /\ clock' = clock + 1 /\ UNCHANGED result
        /\ Write(r, [NoRows EXCEPT !.datasets = old], [NoRows EXCEPT !.datasets = new])
        /\ got' = [got EXCEPT ![r].rows = new]
    BY <1>10 DEF UpdateDataset
  <2> HIDE DEF old, new
  <2>5. ins' \in [Request -> Rows] /\ del' \in [Request -> Rows]
        /\ UNCHANGED <<db, holder, tx, snap, call>>
    BY <2>3, <2>4, WriteType
  <2>6. got' \in [Request -> Got]
    <3>1. got[r] \in Got /\ got \in [Request -> Got]
      BY DEF TypeOK
    <3>2. [got[r] EXCEPT !.rows = new] \in Got
      BY <2>2, <3>1 DEF Got
    <3>3. QED
      BY <2>4, <3>1, <3>2
  <2>7. QED
    BY <2>4, <2>5, <2>6, GoType DEF TypeOK
<1>11. CASE DeleteObservations(r)
  <2>1. [NoRows EXCEPT !.observations =
            ObservationRows(View(r), Ids(DatasetRows(View(r), call[r])))] \in Rows
    BY <1>v, SelectType, OneTableType
  <2>2. QED
    BY <1>11, <2>1, NoRowsType, WriteType, GoType DEF DeleteObservations, TypeOK
<1>12. CASE DeleteDataset(r)
  <2> DEFINE found == DatasetRows(View(r), call[r])
             out == [Cascade(View(r), Ids(found)) EXCEPT !.datasets = found]
  <2>1. found \in SUBSET DatasetRow
    BY <1>v, SelectType
  <2>2. Cascade(View(r), Ids(found)) \in Rows
    BY <1>v, CascadeType
  <2>3. out \in Rows
    <3> HIDE DEF found
    <3> QED BY <2>1, <2>2 DEF Rows
  <2>4. Go(r, "remove", "ready") /\ Write(r, out, NoRows) /\ UNCHANGED <<clock, got>>
        /\ result' = [result EXCEPT ![r] = "deleted"]
    BY <1>12 DEF DeleteDataset
  <2> HIDE DEF out
  <2>5. ins' \in [Request -> Rows] /\ del' \in [Request -> Rows]
        /\ UNCHANGED <<db, holder, tx, snap, call>>
    BY <2>3, <2>4, NoRowsType, WriteType
  <2>6. QED
    BY <2>4, <2>5, GoType DEF TypeOK
<1>13. CASE Commit(r)
  BY <1>13, GoType DEF Commit, TypeOK
<1>14. CASE Ack(r)
  BY <1>14, GoType DEF Ack, TypeOK, server
<1>15. QED
  BY <1>1, <1>2, <1>3, <1>4, <1>5, <1>6, <1>7, <1>8, <1>9, <1>10, <1>11,
     <1>12, <1>13, <1>14 DEF WriterStep

\* What a call has read keeps its type when it reads more.
LEMMA GotType ==
    ASSUME NEW g \in Got, NEW D \in SUBSET DatasetRow, NEW P \in SUBSET ProviderRow,
           NEW M \in SUBSET DimensionRow, NEW G \in SUBSET CategoryRow,
           NEW O \in SUBSET ObservationRow, NEW C \in SUBSET Cell
    PROVE  /\ [g EXCEPT !.rows = D, !.codes = P] \in Got
           /\ [g EXCEPT !.dims = M] \in Got
           /\ [g EXCEPT !.cats = G, !.left = C] \in Got
           /\ [g EXCEPT !.cells = O] \in Got
           /\ [g EXCEPT !.left = C, !.cells = O] \in Got
BY DEF Got

\* The statements of the read calls keep the types.
LEMMA ReaderType ==
    ASSUME TypeOK, NEW r \in Request, ReaderStep(r)
    PROVE  TypeOK'
<1> USE DEF Pc, WritePc, ReadPc, Result
<1>g. got[r] \in Got /\ got \in [Request -> Got]
  BY DEF TypeOK
<1>s. Snapshot(r) \in Rows /\ db \in Rows
  BY DEF Snapshot, TypeOK
<1>e. {} \in SUBSET DatasetRow /\ {} \in SUBSET ProviderRow /\ {} \in SUBSET DimensionRow
      /\ {} \in SUBSET CategoryRow /\ {} \in SUBSET ObservationRow /\ {} \in SUBSET Cell
  OBVIOUS
<1>1. CASE ReadSummary(r)
  <2> DEFINE found == DatasetRows(db, call[r])
             codes == ProviderRows(db, call[r])
  <2>1. found \in SUBSET DatasetRow /\ codes \in SUBSET ProviderRow
    BY <1>s, SelectType
  <2>2. snap' \in [Request -> Rows]
    BY <1>1, <1>s DEF ReadSummary, TypeOK
  <2>3. CASE Fail(r, "summary", "not_found")
    BY <1>1, <2>2, <2>3, FailType DEF ReadSummary, TypeOK
  <2>4. CASE /\ Go(r, "summary", "dimensions")
             /\ got' = [got EXCEPT ![r].rows = found, ![r].codes = codes]
             /\ UNCHANGED result
    <3> HIDE DEF found, codes
    <3>1. [got[r] EXCEPT !.rows = found, !.codes = codes] \in Got
      BY <1>g, <1>e, <2>1, GotType
    <3>2. got' \in [Request -> Got]
      BY <1>g, <2>4, <3>1
    <3>3. pc' \in [Request -> Pc]
      BY <2>4, GoType
    <3>4. QED
      BY <1>1, <2>2, <2>4, <3>2, <3>3 DEF ReadSummary, TypeOK
  <2>5. QED
    BY <1>1, <2>3, <2>4 DEF ReadSummary
<1>2. CASE ReadDimensions(r)
  <2> DEFINE dims == DimensionRows(Snapshot(r), Ids(got[r].rows))
  <2>1. dims \in SUBSET DimensionRow
    BY <1>s, SelectType
  <2>2. got' = [got EXCEPT ![r].dims = dims]
    BY <1>2 DEF ReadDimensions
  <2> HIDE DEF dims
  <2>3. [got[r] EXCEPT !.dims = dims] \in Got
    BY <1>g, <1>e, <2>1, GotType
  <2>4. got' \in [Request -> Got]
    BY <1>g, <2>2, <2>3
  <2>5. QED
    BY <1>2, <2>4, GoType DEF ReadDimensions, ReadOnly, TypeOK
<1>3. CASE ReadCategories(r)
  <2> DEFINE cats == CategoryRows(Snapshot(r), Ids(got[r].rows))
             left == IF call[r].kind = "query" THEN call[r].cells ELSE {}
  <2>1. cats \in SUBSET CategoryRow /\ left \in SUBSET Cell
    BY <1>s, SelectType DEF TypeOK, AnyCall
  <2>2. UNCHANGED <<db, clock, holder, tx, ins, del, snap, call>>
    BY <1>3 DEF ReadCategories, ReadOnly
  <2>3. CASE Fail(r, "categories", "error") \/ Fail(r, "categories", "invalid_selection")
    BY <2>2, <2>3, FailType DEF TypeOK
  <2>4. CASE /\ \E to \in {"finish", "cells", "batch"} : Go(r, "categories", to)
             /\ got' = [got EXCEPT ![r].cats = cats, ![r].left = left]
             /\ UNCHANGED result
    <3> HIDE DEF cats, left
    <3>1. [got[r] EXCEPT !.cats = cats, !.left = left] \in Got
      BY <1>g, <1>e, <2>1, GotType
    <3>2. got' \in [Request -> Got]
      BY <1>g, <2>4, <3>1
    <3>3. pc' \in [Request -> Pc]
      BY <2>4, GoType
    <3>4. QED
      BY <2>2, <2>4, <3>2, <3>3 DEF TypeOK
  <2>5. QED
    BY <1>3, <2>3, <2>4 DEF ReadCategories
<1>4. CASE ReadCells(r)
  <2> DEFINE cells == ObservationRows(Snapshot(r), Ids(got[r].rows))
  <2>1. cells \in SUBSET ObservationRow
    BY <1>s, SelectType
  <2>2. got' = [got EXCEPT ![r].cells = cells]
    BY <1>4 DEF ReadCells
  <2> HIDE DEF cells
  <2>3. [got[r] EXCEPT !.cells = cells] \in Got
    BY <1>g, <1>e, <2>1, GotType
  <2>4. got' \in [Request -> Got]
    BY <1>g, <2>2, <2>3
  <2>5. QED
    BY <1>4, <2>4, GoType DEF ReadCells, ReadOnly, TypeOK
<1>5. CASE ReadBatch(r)
  <2>1. PICK batch \in SUBSET got[r].left :
          /\ \E to \in {"finish", "batch"} : Go(r, "batch", to)
          /\ got' = [got EXCEPT
                       ![r].left = @ \ batch,
                       ![r].cells = @ \cup
                          {o \in ObservationRows(Snapshot(r), Ids(got[r].rows)) :
                              o.cell \in batch}]
    BY <1>5 DEF ReadBatch
  <2> DEFINE left == got[r].left \ batch
             cells == got[r].cells \cup
                        {o \in ObservationRows(Snapshot(r), Ids(got[r].rows)) :
                            o.cell \in batch}
  <2>2. left \in SUBSET Cell /\ got[r].cells \in SUBSET ObservationRow
    BY <1>g DEF Got
  <2>3. cells \in SUBSET ObservationRow
    BY <1>s, <2>2, SelectType
  <2>4. got' = [got EXCEPT ![r].left = left, ![r].cells = cells]
    BY <1>g, <2>1 DEF Got
  <2> HIDE DEF left, cells
  <2>5. [got[r] EXCEPT !.left = left, !.cells = cells] \in Got
    BY <1>g, <1>e, <2>2, <2>3, GotType
  <2>6. got' \in [Request -> Got]
    BY <1>g, <2>4, <2>5
  <2>7. pc' \in [Request -> Pc]
    BY <2>1, GoType
  <2>8. QED
    BY <1>5, <2>6, <2>7 DEF ReadBatch, ReadOnly, TypeOK
<1>6. CASE Finish(r)
  <2>1. result' \in [Request -> Result]
    BY <1>6 DEF Finish, TypeOK
  <2>2. QED
    BY <1>6, <2>1, EndSessionType, GoType DEF Finish, TypeOK
<1>7. ASSUME NEW kinds, NEW rows \in SUBSET DatasetRow, NEW codes \in SUBSET ProviderRow,
             NEW empty \in {"ok", "not_found"}, Answer(r, kinds, rows, codes, empty)
      PROVE  TypeOK'
  <2>1. [got[r] EXCEPT !.rows = rows, !.codes = codes] \in Got
    BY <1>g, <1>e, GotType
  <2>2. got' \in [Request -> Got]
    BY <1>g, <1>7, <2>1 DEF Answer
  <2>3. result' \in [Request -> Result]
    BY <1>7 DEF Answer, TypeOK
  <2>4. QED
    BY <1>7, <2>2, <2>3, EndSessionType, GoType DEF Answer, TypeOK
<1>8. CASE GetSummary(r)
  BY <1>s, <1>7, <1>8, SelectType DEF GetSummary
<1>9. CASE ListDatasets(r)
  <2>1. {d \in db.datasets : d.provider = call[r].provider} \in SUBSET DatasetRow
    BY <1>s DEF Rows
  <2>2. QED
    BY <1>s, <1>7, <1>9, <2>1, SelectType DEF ListDatasets
<1>10. CASE ListProviders(r)
  <2>1. db.datasets \in SUBSET DatasetRow
        /\ {p \in db.providers : \E d \in db.datasets : d.provider = p.provider}
             \in SUBSET ProviderRow
    BY <1>s DEF Rows
  <2>2. QED
    BY <1>7, <1>10, <2>1 DEF ListProviders
<1>11. QED
  BY <1>1, <1>2, <1>3, <1>4, <1>5, <1>6, <1>8, <1>9, <1>10 DEF ReaderStep

\* Every step keeps the types.
LEMMA TypeStep ==
    ASSUME TypeOK, [Next]_vars
    PROVE  TypeOK'
<1> USE DEF Pc, WritePc, ReadPc
<1>1. CASE UNCHANGED vars
  BY <1>1 DEF TypeOK, vars
<1>2. CASE Next
  <2>1. CASE Terminating
    BY <1>1, <2>1 DEF Terminating
  <2>2. ASSUME NEW r \in Request, ClientStep(r) \/ ServerStep(r) \/ GiveUp(r)
        PROVE  TypeOK'
    <3>1. CASE Begin(r)
      <4>1. FirstPc(call[r].kind) \in Pc
        BY DEF FirstPc
      <4>2. QED
        BY <3>1, <4>1, GoType DEF Begin, TypeOK
    <3>2. CASE Rollback(r)
      BY <3>2, EndSessionType, GoType DEF Rollback, TypeOK
    <3>3. CASE ServerCommit(r)
      <4>1. db' \in Rows
        BY <3>3, ViewType DEF ServerCommit
      <4>2. QED
        BY <3>3, <4>1, EndSessionType DEF ServerCommit, TypeOK
    <3>4. CASE ServerAbort(r)
      BY <3>4, EndSessionType DEF ServerAbort, TypeOK
    <3>5. CASE GiveUp(r)
      BY <3>5 DEF GiveUp, TypeOK, server
    <3>6. QED
      BY <2>2, <3>1, <3>2, <3>3, <3>4, <3>5, WriterType, ReaderType
      DEF ClientStep, ServerStep
  <2>3. QED
    BY <1>2, <2>1, <2>2 DEF Next
<1>3. QED
  BY <1>1, <1>2

\* Type correctness: every variable of the store keeps the shape the
\* schema and the Go types give it.
THEOREM TypeCorrect == Spec => []TypeOK
<1>1. Init => TypeOK
  <2>1. NoGot \in Got /\ "queued" \in Pc /\ None \in Result
    BY DEF NoGot, Got, Pc, Result
  <2>2. QED
    BY <2>1, NoRowsType, CallAssumption DEF Init, TypeOK
<1>2. TypeOK /\ [Next]_vars => TypeOK'
  BY TypeStep
<1>3. QED
  BY <1>1, <1>2, PTL DEF Spec

-----------------------------------------------------------------------------
(***************************************************************************)
(* The inductive invariant.  It has five parts, each inductive given       *)
(* TypeOK and the ones before it:                                          *)
(*                                                                         *)
(*   LockHeld         who writes, or may still commit, holds the lock;     *)
(*   ProvidersKept    provider rows are only added, one per provider;      *)
(*   ContentsStaged   what a writer sees of its identity is determined, at *)
(*                    every statement, by what was committed when it took  *)
(*                    the lock; what is committed is whole;                *)
(*   ProvidersPresent a dataset that is or may be committed has its        *)
(*                    provider;                                            *)
(*   ReadersStaged    what a reader has loaded is of its snapshot.         *)
(*                                                                         *)
(* The operators they are made of are on constants, with the calls passed  *)
(* to them, so that a step changes their arguments and nothing else.       *)
(***************************************************************************)

IdentityOf(c) == <<c.provider, c.dataset>>

\* The rows of one identity, providers apart.
Part(calls, rows, i) ==
    [providers    |-> {},
     datasets     |-> {d \in rows.datasets : <<d.provider, d.dataset>> = i},
     dimensions   |-> {m \in rows.dimensions : IdentityOf(calls[m.dataset]) = i},
     categories   |-> {g \in rows.categories : IdentityOf(calls[g.dimension]) = i},
     observations |-> {o \in rows.observations : IdentityOf(calls[o.dataset]) = i}]

\* A dataset row d of identity i whose structure, but not yet whose row, is
\* of writer w; and its observations.
Dims(calls, d, w) ==
    {[id |-> w, dataset |-> d.id, structure |-> calls[w].structure]}
Cats(calls, w) == {[dimension |-> w, structure |-> calls[w].structure]}
Obs(calls, d, w) == {[dataset |-> d.id, cell |-> c, by |-> w] : c \in calls[w].cells}

\* The rows of an identity after the statements of a replacement: the
\* dataset row, then the structure of w, then the observations of w.
Bare(d) == [providers |-> {}, datasets |-> {d}, dimensions |-> {},
            categories |-> {}, observations |-> {}]
Framed(calls, d, w) ==
    [providers |-> {}, datasets |-> {d}, dimensions |-> Dims(calls, d, w),
     categories |-> Cats(calls, w), observations |-> {}]
Filled(calls, d, w) ==
    [providers |-> {}, datasets |-> {d}, dimensions |-> Dims(calls, d, w),
     categories |-> Cats(calls, w), observations |-> Obs(calls, d, w)]

\* A dataset row of i, created and last written by requests for i.
At(calls, d, i) ==
    /\ <<d.provider, d.dataset>> = i
    /\ IdentityOf(calls[d.id]) = i
    /\ IdentityOf(calls[d.by]) = i

\* There is no dataset, or the whole of one writer's.
Sound(calls, rows, i) ==
    \/ Part(calls, rows, i) = NoRows
    \/ \E d \in rows.datasets :
          At(calls, d, i) /\ Part(calls, rows, i) = Filled(calls, d, d.by)
AllSound(calls, rows) == \A i \in Identity : Sound(calls, rows, i)

-----------------------------------------------------------------------------
\* Statements that run under the advisory lock.
Guarded == {"provider", "spelling", "dataset", "insert", "clear", "cascade",
            "structure", "observations", "stamp", "wipe", "remove", "ready"}
Written(r) == ins[r] # NoRows \/ del[r] # NoRows

LockHeld ==
    \A r \in Request :
        /\ pc[r] \in Guarded \/ tx[r] = "committing" \/ Written(r)
             => holder[Key(r)] = r
        /\ tx[r] = "committing" => pc[r] \in {"commit", "failed"}

-----------------------------------------------------------------------------
\* Statements of a replacement after the provider's insert.
Named == {"spelling", "dataset", "insert", "clear", "cascade", "structure",
          "observations", "stamp"}

ProvidersKept ==
    /\ \A r \in Request :
          /\ del[r].providers = {}
          /\ \A p, q \in db.providers \cup ins[r].providers :
                p.provider = q.provider => p = q
          /\ pc[r] \in Named =>
                \E p \in db.providers \cup ins[r].providers :
                    p.provider = call[r].provider
    /\ \A q, r \in Request :
          \A v \in ins[q].providers, w \in ins[r].providers :
              v.provider = w.provider => q = r

-----------------------------------------------------------------------------
(***************************************************************************)
(* r is at statement p, with transaction status t, has found the dataset   *)
(* rows g, and sees now of its identity i where old is committed.          *)
(***************************************************************************)
SameDataset(d, old) == \A e \in old.datasets : e.id = d.id

Final(calls, i, k, old, now) ==
    \/ now = NoRows
    \/ \E d \in now.datasets :
          /\ At(calls, d, i) /\ SameDataset(d, old)
          /\ d.at <= k /\ \A e \in old.datasets : e.at < d.at
          /\ now = Filled(calls, d, d.by)

Staged(calls, r, i, p, t, k, old, now, g) ==
    /\ p \in {"provider", "spelling", "dataset", "wipe"} => now = old
    /\ p = "insert" => now = NoRows /\ old = NoRows
    /\ p \in {"clear", "cascade", "structure", "observations", "stamp"} =>
          \E d \in g :
             /\ At(calls, d, i) /\ SameDataset(d, old) /\ g = {d}
             /\ now = CASE p = "clear" -> Filled(calls, d, d.by)
                        [] p = "cascade" -> Framed(calls, d, d.by)
                        [] p = "structure" -> Bare(d)
                        [] p = "observations" -> Framed(calls, d, r)
                        [] p = "stamp" -> Filled(calls, d, r)
    /\ p = "remove" => now = [old EXCEPT !.observations = {}]
    /\ p = "ready" \/ t = "committing" => Final(calls, i, k, old, now)

Seen(r, i) == Part(call, Merge(db, del[r], ins[r]), i)

ContentsStaged ==
    /\ AllSound(call, db)
    /\ \A d \in db.datasets : d.at <= clock
    /\ \A r \in Request, i \in Identity :
          i # IdentityOf(call[r]) =>
             Part(call, ins[r], i) = NoRows /\ Part(call, del[r], i) = NoRows
    /\ \A r \in Request :
          LET i == IdentityOf(call[r]) IN
          Staged(call, r, i, pc[r], tx[r], clock,
                 Part(call, db, i), Seen(r, i), got[r].rows)

\* A dataset that is or may be committed has its provider.
ProvidersPresent ==
    /\ \A d \in db.datasets : \E p \in db.providers : p.provider = d.provider
    /\ \A r \in Request :
          pc[r] = "ready" \/ tx[r] = "committing" =>
             \/ DatasetRows(View(r), call[r]) = {}
             \/ \E p \in db.providers \cup ins[r].providers :
                   p.provider = call[r].provider

-----------------------------------------------------------------------------
\* The statements of a read that have run, in the snapshot they ran on.
Loaded(c, p, rows, g) ==
    LET ids == Ids(g.rows)
        cells == {o \in ObservationRows(rows, ids) : o.cell \in c.cells \ g.left}
    IN
    /\ c.kind \in {"structure", "data", "query"}
    /\ g.rows = DatasetRows(rows, c)
    /\ p # "dimensions" => g.dims = DimensionRows(rows, ids)
    /\ p \in {"cells", "batch", "finish"} => g.cats = CategoryRows(rows, ids)
    /\ p \in {"dimensions", "categories", "cells"} => g.cells = {}
    /\ p = "batch" => c.kind = "query" /\ g.left \subseteq c.cells /\ g.cells = cells
    /\ p = "finish" =>
          g.cells = CASE c.kind = "structure" -> {}
                      [] c.kind = "data" -> ObservationRows(rows, ids)
                      [] c.kind = "query" ->
                            {o \in ObservationRows(rows, ids) : o.cell \in c.cells}

Loading == {"dimensions", "categories", "cells", "batch", "finish"}
FirstRead == {"queued", "summary"}

ReaderStaged(r) ==
    /\ pc[r] \in Loading =>
          /\ AllSound(call, snap[r])
          /\ Loaded(call[r], pc[r], snap[r], got[r])
    /\ pc[r] \in FirstRead => got[r] = NoGot
    /\ pc[r] = "summary" => call[r].kind \in {"structure", "data", "query"}
    /\ pc[r] = "cells" => call[r].kind = "data"
    /\ result[r] = "ok" => pc[r] = "done"

ReadersStaged == \A r \in Request : ReaderStaged(r)

-----------------------------------------------------------------------------
(***************************************************************************)
(* Frames: what a step of one request leaves alone.                        *)
(***************************************************************************)
Step(r) == ClientStep(r) \/ ServerStep(r) \/ GiveUp(r)

\* A step of r changes r's own part of the state only; rows are committed
\* by ServerCommit alone.
LEMMA Frame ==
    ASSUME TypeOK, NEW r \in Request, Step(r)
    PROVE  /\ call' = call
           /\ \A q \in Request \ {r} :
                 /\ pc'[q] = pc[q] /\ got'[q] = got[q] /\ result'[q] = result[q]
                 /\ tx'[q] = tx[q] /\ snap'[q] = snap[q]
                 /\ ins'[q] = ins[q] /\ del'[q] = del[q]
           /\ db' = db \/ ServerCommit(r)
           /\ clock' = clock \/ clock' = clock + 1
<1> USE DEF TypeOK, Go, Fail, Write, ReadOnly, EndSession, server
<1>1. CASE WriterStep(r)
  <2>1. CASE AdvisoryLock(r) \/ InsertProvider(r) \/ SelectProvider(r)
    BY <2>1 DEF AdvisoryLock, InsertProvider, SelectProvider
  <2>2. CASE SelectDataset(r) \/ InsertDataset(r) \/ ClearObservations(r)
    BY <2>2 DEF SelectDataset, InsertDataset, ClearObservations
  <2>3. CASE ClearDimensions(r) \/ InsertStructure(r) \/ CopyObservations(r)
    BY <2>3 DEF ClearDimensions, InsertStructure, CopyObservations
  <2>4. CASE UpdateDataset(r) \/ DeleteObservations(r) \/ DeleteDataset(r)
    BY <2>4 DEF UpdateDataset, DeleteObservations, DeleteDataset
  <2>5. CASE Commit(r) \/ Ack(r)
    BY <2>5 DEF Commit, Ack
  <2>6. QED
    BY <1>1, <2>1, <2>2, <2>3, <2>4, <2>5 DEF WriterStep
<1>2. CASE ReaderStep(r)
  <2>1. CASE ReadSummary(r) \/ ReadDimensions(r) \/ ReadCategories(r)
    BY <2>1 DEF ReadSummary, ReadDimensions, ReadCategories
  <2>2. CASE ReadCells(r) \/ ReadBatch(r) \/ Finish(r)
    BY <2>2 DEF ReadCells, ReadBatch, Finish
  <2>3. CASE GetSummary(r) \/ ListDatasets(r) \/ ListProviders(r)
    BY <2>3 DEF GetSummary, ListDatasets, ListProviders, Answer
  <2>4. QED
    BY <1>2, <2>1, <2>2, <2>3 DEF ReaderStep
<1>3. CASE Begin(r) \/ Rollback(r) \/ ServerStep(r) \/ GiveUp(r)
  BY <1>3 DEF Begin, Rollback, ServerStep, ServerCommit, ServerAbort, GiveUp
<1>4. QED
  BY <1>1, <1>2, <1>3 DEF Step, ClientStep

-----------------------------------------------------------------------------
(***************************************************************************)
(* Locks.                                                                  *)
(***************************************************************************)

\* A step of r keeps the lock of everyone else.
LEMMA OthersKeepLocks ==
    ASSUME TypeOK, NEW r \in Request, Step(r), NEW q \in Request \ {r}, NEW k \in Lock,
           holder[k] = q
    PROVE  holder'[k] = q
<1> USE RequestAssumption DEF TypeOK, EndSession, Write, ReadOnly, server
<1>1. CASE WriterStep(r)
  BY <1>1 DEF WriterStep, AdvisoryLock, InsertProvider, SelectProvider, SelectDataset,
     InsertDataset, ClearObservations, ClearDimensions, InsertStructure,
     CopyObservations, UpdateDataset, DeleteObservations, DeleteDataset, Commit, Ack
<1>2. CASE ReaderStep(r)
  BY <1>2 DEF ReaderStep, ReadSummary, ReadDimensions, ReadCategories, ReadCells,
     ReadBatch, Finish, GetSummary, ListDatasets, ListProviders, Answer
<1>3. CASE Begin(r) \/ Rollback(r) \/ ServerStep(r) \/ GiveUp(r)
  BY <1>3 DEF Begin, Rollback, ServerStep, ServerCommit, ServerAbort, GiveUp
<1>4. QED
  BY <1>1, <1>2, <1>3 DEF Step, ClientStep

\* Who writes, or may still commit, holds the lock.
LEMMA LockStep ==
    ASSUME TypeOK, LockHeld, NEW r \in Request, Step(r)
    PROVE  LockHeld'
<1> DEFINE Held(q) == /\ pc[q] \in Guarded \/ tx[q] = "committing" \/ Written(q)
                           => holder[Key(q)] = q
                      /\ tx[q] = "committing" => pc[q] \in {"commit", "failed"}
<1>k. \A q \in Request : Key(q) \in Lock /\ Key(q)' = Key(q)
  BY Frame DEF Key, Lock, TypeOK, AnyCall, Identity
<1>1. ASSUME NEW q \in Request \ {r} PROVE Held(q)'
  BY <1>k, Frame, OthersKeepLocks DEF LockHeld, Written
<1>2. Held(r)'
  <2> USE <1>k DEF LockHeld, Guarded, Written, TypeOK, Go, Fail, Write, ReadOnly,
                   EndSession, server
  <2>1. CASE WriterStep(r)
    <3>1. CASE AdvisoryLock(r)
      BY <3>1, RequestAssumption DEF AdvisoryLock
    <3>2. CASE InsertProvider(r) \/ SelectProvider(r) \/ SelectDataset(r)
      BY <3>2 DEF InsertProvider, SelectProvider, SelectDataset
    <3>3. CASE InsertDataset(r) \/ ClearObservations(r) \/ ClearDimensions(r)
      BY <3>3 DEF InsertDataset, ClearObservations, ClearDimensions
    <3>4. CASE InsertStructure(r) \/ CopyObservations(r) \/ UpdateDataset(r)
      BY <3>4 DEF InsertStructure, CopyObservations, UpdateDataset
    <3>5. CASE DeleteObservations(r) \/ DeleteDataset(r)
      BY <3>5 DEF DeleteObservations, DeleteDataset
    <3>6. CASE Commit(r) \/ Ack(r)
      BY <3>6 DEF Commit, Ack
    <3>7. QED
      BY <2>1, <3>1, <3>2, <3>3, <3>4, <3>5, <3>6 DEF WriterStep
  <2>2. CASE ReaderStep(r)
    <3>1. CASE ReadSummary(r) \/ ReadDimensions(r) \/ ReadCategories(r)
      BY <3>1 DEF ReadSummary, ReadDimensions, ReadCategories
    <3>2. CASE ReadCells(r) \/ ReadBatch(r)
      BY <3>2 DEF ReadCells, ReadBatch
    <3>3. CASE Finish(r)
      BY <3>3 DEF Finish
    <3>4. CASE GetSummary(r) \/ ListDatasets(r) \/ ListProviders(r)
      BY <3>4 DEF GetSummary, ListDatasets, ListProviders, Answer
    <3>5. QED
      BY <2>2, <3>1, <3>2, <3>3, <3>4 DEF ReaderStep
  <2>3. CASE Begin(r)
    BY <2>3 DEF Begin, FirstPc
  <2>4. CASE Rollback(r) \/ ServerStep(r) \/ GiveUp(r)
    BY <2>4 DEF Rollback, ServerStep, ServerCommit, ServerAbort, GiveUp
  <2>5. QED
    BY <2>1, <2>2, <2>3, <2>4 DEF Step, ClientStep
<1>3. QED
  BY <1>1, <1>2 DEF LockHeld

-----------------------------------------------------------------------------
(***************************************************************************)
(* Providers.                                                              *)
(***************************************************************************)

\* What the steps of r, other than its provider's insert and its commit, do
\* to provider rows: r keeps those it has inserted, or its session ends.
LEMMA ProvidersFrame ==
    ASSUME TypeOK, ProvidersKept, NEW r \in Request, Step(r),
           ~InsertProvider(r), ~ServerCommit(r)
    PROVE  /\ db' = db
           /\ del'[r].providers = {}
           /\ \/ ins'[r].providers = ins[r].providers /\ (pc'[r] \in Named => pc[r] \in Named)
              \/ ins'[r].providers = {} /\ pc'[r] \notin Named
<1>0. db' = db
  BY Frame
<1>o. /\ del[r].providers = {} /\ ins[r] \in Rows /\ del[r] \in Rows
      /\ \A S : [NoRows EXCEPT !.observations = S].providers = {}
      /\ \A S : [NoRows EXCEPT !.datasets = S].providers = {}
      /\ \A S, T : [NoRows EXCEPT !.dimensions = S, !.categories = T].providers = {}
      /\ \A rows, ids, S : [Cascade(rows, ids) EXCEPT !.datasets = S].providers = {}
      /\ \A rows, ids : Cascade(rows, ids).providers = {}
      /\ NoRows.providers = {}
  BY DEF ProvidersKept, NoRows, TypeOK, Cascade
<1>w. ASSUME NEW out, NEW in, Write(r, out, in), out.providers = {}, in.providers = {}
      PROVE  ins'[r].providers = ins[r].providers /\ del'[r].providers = {}
  BY <1>w, <1>o DEF Write, TypeOK, Rows, Merge
<1>e. ASSUME NEW outcome, EndSession(r, outcome), pc'[r] \notin Named
      PROVE  del'[r].providers = {} /\ ins'[r].providers = {} /\ pc'[r] \notin Named
  BY <1>e, <1>o DEF EndSession, TypeOK
<1> USE DEF Named, Go, Fail, TypeOK
<1>1. CASE WriterStep(r)
  <2>1. CASE AdvisoryLock(r) \/ SelectProvider(r) \/ SelectDataset(r) \/ Commit(r) \/ Ack(r)
    BY <2>1, <1>0, <1>o DEF AdvisoryLock, SelectProvider, SelectDataset, Commit, Ack, ReadOnly, server
  <2>2. CASE InsertDataset(r)
    BY <2>2, <1>0, <1>o, <1>w DEF InsertDataset
  <2>3. CASE ClearObservations(r) \/ ClearDimensions(r)
    <3>1. /\ pc[r] \in Named
          /\ \/ \E S : Write(r, [NoRows EXCEPT !.observations = S], NoRows)
             \/ \E rows, ids : Write(r, Cascade(rows, ids), NoRows)
      BY <2>3 DEF ClearObservations, ClearDimensions
    <3>2. QED
      BY <3>1, <1>0, <1>o, <1>w
  <2>4. CASE InsertStructure(r)
    BY <2>4, <1>0, <1>o, <1>w DEF InsertStructure
  <2>5. CASE CopyObservations(r)
    <3> DEFINE rows == {[dataset |-> i, cell |-> c, by |-> r] :
                           i \in Ids(got[r].rows), c \in call[r].cells}
    <3>1. CASE /\ Go(r, "observations", "rollback")
               /\ UNCHANGED <<db, holder, tx, ins, del, snap, call>>
      BY <3>1, <1>0, <1>o
    <3>2. CASE /\ Go(r, "observations", "stamp")
               /\ Write(r, NoRows, [NoRows EXCEPT !.observations = rows])
      <4> HIDE DEF rows
      <4> QED BY <3>2, <1>0, <1>o, <1>w
    <3>3. QED
      BY <2>5, <3>1, <3>2 DEF CopyObservations
  <2>6. CASE UpdateDataset(r)
    <3>1. /\ pc'[r] \notin Named
          /\ \E S, T : Write(r, [NoRows EXCEPT !.datasets = S],
                             [NoRows EXCEPT !.datasets = T])
      BY <2>6 DEF UpdateDataset
    <3>2. PICK S, T : Write(r, [NoRows EXCEPT !.datasets = S],
                               [NoRows EXCEPT !.datasets = T])
      BY <3>1
    <3>3. /\ [NoRows EXCEPT !.datasets = S].providers = {}
          /\ [NoRows EXCEPT !.datasets = T].providers = {}
      BY <1>o
    <3>4. QED
      BY <3>1, <3>2, <3>3, <1>0, <1>w
  <2>7. CASE DeleteObservations(r) \/ DeleteDataset(r)
    <3>1. /\ pc'[r] \notin Named
          /\ \/ \E S : Write(r, [NoRows EXCEPT !.observations = S], NoRows)
             \/ \E rows, ids, S :
                   Write(r, [Cascade(rows, ids) EXCEPT !.datasets = S], NoRows)
      BY <2>7 DEF DeleteObservations, DeleteDataset
    <3>2. QED
      BY <3>1, <1>0, <1>o, <1>w
  <2>8. QED
    BY <1>1, <2>1, <2>2, <2>3, <2>4, <2>5, <2>6, <2>7 DEF WriterStep
<1>2. CASE ReaderStep(r)
  <2>1. CASE ReadSummary(r) \/ ReadDimensions(r) \/ ReadCategories(r) \/ ReadCells(r) \/ ReadBatch(r)
    <3>1. pc'[r] \notin Named /\ ins' = ins /\ del' = del
      BY <2>1 DEF ReadSummary, ReadDimensions, ReadCategories, ReadCells, ReadBatch, ReadOnly
    <3>2. QED
      BY <3>1, <1>0, <1>o
  <2>2. CASE Finish(r) \/ GetSummary(r) \/ ListDatasets(r) \/ ListProviders(r)
    BY <2>2, <1>0, <1>e DEF Finish, GetSummary, ListDatasets, ListProviders, Answer
  <2>3. QED
    BY <1>2, <2>1, <2>2 DEF ReaderStep
<1>3. CASE Begin(r) \/ GiveUp(r)
  BY <1>3, <1>0, <1>o DEF Begin, FirstPc, GiveUp, server
<1>4. CASE Rollback(r) \/ ServerAbort(r)
  BY <1>4, <1>0, <1>e DEF Rollback, ServerAbort
<1>5. QED
  BY <1>1, <1>2, <1>3, <1>4 DEF Step, ClientStep, ServerStep

\* Provider rows are only added, one for each provider, and a replacement
\* has its provider from its first insert on.
LEMMA ProvidersStep ==
    ASSUME TypeOK, LockHeld, ProvidersKept, NEW r \in Request, Step(r)
    PROVE  ProvidersKept'
<1>f. /\ call' = call
      /\ \A q \in Request \ {r} : pc'[q] = pc[q] /\ ins'[q] = ins[q] /\ del'[q] = del[q]
  BY Frame
<1>o. NoRows.providers = {} /\ NoRows \in Rows
  BY NoRowsType DEF NoRows
<1>1. CASE ~InsertProvider(r) /\ ~ServerCommit(r)
  BY <1>1, <1>f, ProvidersFrame DEF ProvidersKept
<1>2. CASE ServerCommit(r)
  <2>1. /\ db'.providers = db.providers \cup ins[r].providers
        /\ ins'[r].providers = {} /\ del'[r].providers = {} /\ pc'[r] \notin Named
    <3>1. db' = Merge(db, del[r], ins[r]) /\ ins'[r] = NoRows /\ del'[r] = NoRows
      BY <1>2 DEF ServerCommit, EndSession, View, TypeOK
    <3>2. pc'[r] \in {"commit", "failed"}
      BY <1>2 DEF ServerCommit, LockHeld
    <3>3. QED
      BY <1>o, <3>1, <3>2 DEF Merge, ProvidersKept, Named
  <2>2. QED
    BY <1>f, <2>1 DEF ProvidersKept
<1>3. CASE InsertProvider(r)
  <2> DEFINE new == [provider |-> call[r].provider, code |-> r]
  <2>1. View(r).providers = db.providers \cup ins[r].providers
    BY DEF View, Merge, ProvidersKept, TypeOK
  <2>2. CASE ProviderRows(View(r), call[r]) # {}
    <3>1. Write(r, NoRows, NoRows) /\ db' = db
      BY <1>3, <2>2 DEF InsertProvider, Write
    <3>2. ins'[r].providers = ins[r].providers /\ del'[r].providers = {}
      BY <1>o, <3>1 DEF Write, TypeOK, Rows, Merge, ProvidersKept
    <3>3. \E p \in db.providers \cup ins[r].providers : p.provider = call[r].provider
      BY <2>1, <2>2 DEF ProviderRows
    <3>4. QED
      BY <1>f, <3>1, <3>2, <3>3 DEF ProvidersKept
  <2>3. CASE ProviderRows(View(r), call[r]) = {}
    <3>1. Write(r, NoRows, [NoRows EXCEPT !.providers = {new}]) /\ db' = db
      BY <1>3, <2>3 DEF InsertProvider, Write
    <3>2. ins'[r].providers = ins[r].providers \cup {new} /\ del'[r].providers = {}
      BY <1>o, <3>1 DEF Write, TypeOK, Rows, Merge, ProvidersKept, NoRows
    <3>3. \A p \in db.providers \cup ins[r].providers : p.provider # call[r].provider
      BY <2>1, <2>3 DEF ProviderRows
    <3>4. \A q \in Request \ {r} : \A p \in ins[q].providers : p.provider # call[r].provider
      BY <1>3 DEF InsertProvider, ProviderRows
    <3>5. new.provider = call[r].provider
      OBVIOUS
    <3> HIDE DEF new
    <3>6. QED
      BY <1>f, <3>1, <3>2, <3>3, <3>4, <3>5 DEF ProvidersKept
  <2>4. QED
    BY <2>2, <2>3
<1>4. QED
  BY <1>1, <1>2, <1>3

-----------------------------------------------------------------------------
(***************************************************************************)
(* The rows of one identity.                                               *)
(***************************************************************************)

\* Taking an identity's part of a database distributes over Merge.
LEMMA PartMerge ==
    ASSUME NEW calls, NEW i, NEW a \in Rows, NEW b \in Rows, NEW c \in Rows
    PROVE  /\ Part(calls, Merge(a, b, c), i)
                = Merge(Part(calls, a, i), Part(calls, b, i), Part(calls, c, i))
           /\ Part(calls, a, i) \in Rows
           /\ Part(calls, NoRows, i) = NoRows
<1>1. Part(calls, Merge(a, b, c), i).datasets
        = Merge(Part(calls, a, i), Part(calls, b, i), Part(calls, c, i)).datasets
  BY DEF Part, Merge
<1>2. Part(calls, Merge(a, b, c), i).dimensions
        = Merge(Part(calls, a, i), Part(calls, b, i), Part(calls, c, i)).dimensions
  BY DEF Part, Merge
<1>3. Part(calls, Merge(a, b, c), i).categories
        = Merge(Part(calls, a, i), Part(calls, b, i), Part(calls, c, i)).categories
  BY DEF Part, Merge
<1>4. Part(calls, Merge(a, b, c), i).observations
        = Merge(Part(calls, a, i), Part(calls, b, i), Part(calls, c, i)).observations
  BY DEF Part, Merge
<1>5. Part(calls, a, i) \in Rows /\ Part(calls, NoRows, i) = NoRows
  BY DEF Part, Rows, NoRows
<1>6. QED
  BY <1>1, <1>2, <1>3, <1>4, <1>5 DEF Part, Merge

\* Nothing is changed by merging nothing; a write of a transaction is a
\* write to what it sees.
LEMMA MergeWrite ==
    ASSUME NEW a \in Rows, NEW b \in Rows, NEW c \in Rows,
           NEW out \in Rows, NEW in \in Rows
    PROVE  /\ Merge(a, NoRows, NoRows) = a
           /\ Merge(a, Merge(b, NoRows, out), Merge(c, out, in))
                = Merge(Merge(a, b, c), out, in)
<1>1. Merge(a, NoRows, NoRows) = a
  BY DEF Merge, NoRows, Rows
<1>2. \A S, T, U, V, W : (S \ ((T \ {}) \cup V)) \cup ((U \ V) \cup W)
                            = (((S \ T) \cup U) \ V) \cup W
  OBVIOUS
<1>3. QED
  BY <1>1, <1>2 DEF Merge, NoRows

\* What a call's codes select is the datasets of its identity.
LEMMA SelectPart ==
    ASSUME NEW calls, NEW rows \in Rows, NEW c
    PROVE  DatasetRows(rows, c) = Part(calls, rows, IdentityOf(c)).datasets
BY DEF DatasetRows, Part, IdentityOf

\* All rows are of identity i.
Confined(calls, rows, i) ==
    \A j \in Identity : j # i => Part(calls, rows, j) = NoRows

\* Moreover own are the rows, providers apart.
Local(calls, rows, i, own) == Confined(calls, rows, i) /\ Part(calls, rows, i) = own

\* Rows of one table, or of the two of a structure.
OnlyProviders(S) == [NoRows EXCEPT !.providers = S]
OnlyDatasets(S) == [NoRows EXCEPT !.datasets = S]
OnlyObservations(S) == [NoRows EXCEPT !.observations = S]
OnlyStructure(S, T) == [NoRows EXCEPT !.dimensions = S, !.categories = T]

\* Their fields.
LEMMA OnlyFields ==
    ASSUME NEW S, NEW T
    PROVE  /\ OnlyProviders(S) = [providers |-> S, datasets |-> {}, dimensions |-> {},
                                  categories |-> {}, observations |-> {}]
           /\ OnlyDatasets(S) = [providers |-> {}, datasets |-> S, dimensions |-> {},
                                 categories |-> {}, observations |-> {}]
           /\ OnlyObservations(S) = [providers |-> {}, datasets |-> {}, dimensions |-> {},
                                     categories |-> {}, observations |-> S]
           /\ OnlyStructure(S, T) = [providers |-> {}, datasets |-> {}, dimensions |-> S,
                                     categories |-> T, observations |-> {}]
<1>1. OnlyStructure(S, T) = [providers |-> {}, datasets |-> {}, dimensions |-> S,
                             categories |-> T, observations |-> {}]
  <2> DEFINE a == [NoRows EXCEPT !.dimensions = S]
  <2>1. a = [providers |-> {}, datasets |-> {}, dimensions |-> S,
             categories |-> {}, observations |-> {}]
    BY DEF NoRows
  <2>2. OnlyStructure(S, T) = [a EXCEPT !.categories = T]
    BY DEF OnlyStructure
  <2> HIDE DEF a
  <2>3. QED
    BY <2>1, <2>2
<1>2. QED
  BY <1>1 DEF OnlyProviders, OnlyDatasets, OnlyObservations, NoRows

\* No rows, and rows of one table or of two that are all of identity i, are
\* confined to it.
LEMMA ConfinedNone ==
    ASSUME NEW calls, NEW i
    PROVE  Local(calls, NoRows, i, NoRows)
BY DEF Local, Confined, Part, NoRows

LEMMA ConfinedProviders ==
    ASSUME NEW calls, NEW i, NEW S
    PROVE  Local(calls, OnlyProviders(S), i, NoRows)
BY DEF Local, Confined, Part, NoRows, OnlyProviders

LEMMA ConfinedDatasets ==
    ASSUME NEW calls, NEW i, NEW S, \A d \in S : <<d.provider, d.dataset>> = i
    PROVE  Local(calls, OnlyDatasets(S), i, OnlyDatasets(S))
<1>1. \A j : j # i => {d \in S : <<d.provider, d.dataset>> = j} = {}
  OBVIOUS
<1>2. {d \in S : <<d.provider, d.dataset>> = i} = S
  OBVIOUS
<1>3. QED
  <2>1. ASSUME NEW j
        PROVE  Part(calls, OnlyDatasets(S), j)
                 = IF j = i THEN OnlyDatasets(S) ELSE NoRows
    BY <1>1, <1>2 DEF Part, NoRows, OnlyDatasets
  <2>2. QED
    BY <2>1 DEF Local, Confined

LEMMA ConfinedObservations ==
    ASSUME NEW calls, NEW i, NEW S, \A o \in S : IdentityOf(calls[o.dataset]) = i
    PROVE  Local(calls, OnlyObservations(S), i, OnlyObservations(S))
<1>1. \A j : Part(calls, OnlyObservations(S), j)
               = OnlyObservations({o \in S : IdentityOf(calls[o.dataset]) = j})
  BY DEF Part, NoRows, OnlyObservations
<1>2. \A j : j # i => {o \in S : IdentityOf(calls[o.dataset]) = j} = {}
  OBVIOUS
<1>3. {o \in S : IdentityOf(calls[o.dataset]) = i} = S
  OBVIOUS
<1>4. OnlyObservations({}) = NoRows
  BY OnlyFields DEF NoRows
<1>5. QED
  BY <1>1, <1>2, <1>3, <1>4 DEF Local, Confined

LEMMA ConfinedStructure ==
    ASSUME NEW calls, NEW i, NEW S, NEW T,
           \A m \in S : IdentityOf(calls[m.dataset]) = i,
           \A g \in T : IdentityOf(calls[g.dimension]) = i
    PROVE  Local(calls, OnlyStructure(S, T), i, OnlyStructure(S, T))
<1>1. ASSUME NEW j
      PROVE  Part(calls, OnlyStructure(S, T), j)
               = OnlyStructure({m \in S : IdentityOf(calls[m.dataset]) = j},
                               {g \in T : IdentityOf(calls[g.dimension]) = j})
  <2> DEFINE M == {m \in S : IdentityOf(calls[m.dataset]) = j}
             G == {g \in T : IdentityOf(calls[g.dimension]) = j}
  <2>1. Part(calls, [providers |-> {}, datasets |-> {}, dimensions |-> S,
                     categories |-> T, observations |-> {}], j)
          = [providers |-> {}, datasets |-> {}, dimensions |-> M,
             categories |-> G, observations |-> {}]
    BY DEF Part
  <2> HIDE DEF M, G
  <2>2. OnlyStructure(M, G) = [providers |-> {}, datasets |-> {}, dimensions |-> M,
                               categories |-> G, observations |-> {}]
    BY OnlyFields
  <2>3. OnlyStructure(S, T) = [providers |-> {}, datasets |-> {}, dimensions |-> S,
                               categories |-> T, observations |-> {}]
    BY OnlyFields
  <2>4. Part(calls, OnlyStructure(S, T), j) = OnlyStructure(M, G)
    BY <2>1, <2>2, <2>3
  <2>5. QED
    BY <2>4 DEF M, G
<1>2. \A j : j # i => /\ {m \in S : IdentityOf(calls[m.dataset]) = j} = {}
                      /\ {g \in T : IdentityOf(calls[g.dimension]) = j} = {}
  OBVIOUS
<1>3. /\ {m \in S : IdentityOf(calls[m.dataset]) = i} = S
      /\ {g \in T : IdentityOf(calls[g.dimension]) = i} = T
  OBVIOUS
<1>4. OnlyStructure({}, {}) = NoRows
  BY OnlyFields DEF NoRows
<1>5. QED
  BY <1>1, <1>2, <1>3, <1>4 DEF Local, Confined

-----------------------------------------------------------------------------
(***************************************************************************)
(* What is committed, and what a writer sees of its identity.              *)
(***************************************************************************)

\* Staged asks nothing of a request that is not writing, and time passing
\* does not disturb it.
LEMMA StagedQuiet ==
    ASSUME NEW calls, NEW r, NEW i, NEW p, NEW t, NEW k, NEW old, NEW now, NEW g,
           p \notin Guarded, t # "committing"
    PROVE  Staged(calls, r, i, p, t, k, old, now, g)
BY DEF Staged, Guarded

LEMMA StagedLater ==
    ASSUME NEW calls, NEW r, NEW i, NEW p, NEW t, NEW k \in Nat, NEW old, NEW now \in Rows,
           NEW g, Staged(calls, r, i, p, t, k, old, now, g)
    PROVE  Staged(calls, r, i, p, t, k + 1, old, now, g)
<1>1. Final(calls, i, k, old, now) => Final(calls, i, k + 1, old, now)
  <2>1. \A d \in now.datasets : d.at \in Nat
    BY DEF Rows, DatasetRow
  <2>2. \A d \in now.datasets : d.at <= k => d.at <= k + 1
    BY <2>1
  <2>3. QED
    BY <2>2 DEF Final
<1>2. QED
  BY <1>1 DEF Staged

\* It suffices to look at the writer that makes a step.
LEMMA ContentsStep ==
    ASSUME TypeOK, ContentsStaged, NEW r \in Request, Step(r), db' = db,
           \A j \in Identity : j # IdentityOf(call[r]) =>
              Part(call, ins'[r], j) = NoRows /\ Part(call, del'[r], j) = NoRows,
           Staged(call, r, IdentityOf(call[r]), pc'[r], tx'[r], clock',
                  Part(call, db, IdentityOf(call[r])),
                  Part(call, Merge(db, del'[r], ins'[r]), IdentityOf(call[r])),
                  got'[r].rows)
    PROVE  ContentsStaged'
<1>1. /\ call' = call
      /\ \A q \in Request \ {r} :
            /\ pc'[q] = pc[q] /\ got'[q] = got[q] /\ tx'[q] = tx[q]
            /\ ins'[q] = ins[q] /\ del'[q] = del[q]
      /\ clock' = clock \/ clock' = clock + 1
  BY Frame
<1>2. AllSound(call, db)'
  BY <1>1 DEF ContentsStaged
<1>3. (\A d \in db.datasets : d.at <= clock)'
  <2>1. \A d \in db.datasets : d.at \in Nat /\ d.at <= clock
    BY DEF TypeOK, Rows, DatasetRow, ContentsStaged
  <2>2. clock \in Nat
    BY DEF TypeOK
  <2>3. QED
    BY <1>1, <2>1, <2>2
<1>4. ASSUME NEW q \in Request
      PROVE  (\A i \in Identity :
                i # IdentityOf(call[q]) =>
                   Part(call, ins[q], i) = NoRows /\ Part(call, del[q], i) = NoRows)'
  BY <1>1 DEF ContentsStaged
<1>5. ASSUME NEW q \in Request
      PROVE  Staged(call, q, IdentityOf(call[q]), pc[q], tx[q], clock,
                    Part(call, db, IdentityOf(call[q])), Seen(q, IdentityOf(call[q])),
                    got[q].rows)'
  <2>1. CASE q = r
    BY <1>1, <2>1 DEF Seen
  <2>2. CASE q # r
    <3>1. Seen(q, IdentityOf(call[q])) \in Rows /\ clock \in Nat
      BY PartMerge, MergeType DEF Seen, TypeOK
    <3>2. Seen(q, IdentityOf(call[q]))' = Seen(q, IdentityOf(call[q]))
      BY <1>1, <2>2 DEF Seen
    <3>3. Staged(call, q, IdentityOf(call[q]), pc[q], tx[q], clock,
                 Part(call, db, IdentityOf(call[q])), Seen(q, IdentityOf(call[q])),
                 got[q].rows)
      BY DEF ContentsStaged
    <3>4. Staged(call, q, IdentityOf(call[q]), pc[q], tx[q], clock',
                 Part(call, db, IdentityOf(call[q])), Seen(q, IdentityOf(call[q])),
                 got[q].rows)
      BY <1>1, <3>1, <3>3, StagedLater
    <3>5. QED
      BY <1>1, <2>2, <3>2, <3>4
  <2>3. QED
    BY <2>1, <2>2
<1>6. QED
  BY <1>2, <1>3, <1>4, <1>5 DEF ContentsStaged

\* A statement that writes rows of its identity only: what it sees of that
\* identity changes by them, and it has written nothing of another.
LEMMA WriteContents ==
    ASSUME TypeOK, ContentsStaged, NEW r \in Request, NEW out \in Rows, NEW in \in Rows,
           Write(r, out, in), NEW i, i = IdentityOf(call[r]),
           Confined(call, out, i), Confined(call, in, i)
    PROVE  /\ \A j \in Identity : j # i =>
                 Part(call, ins'[r], j) = NoRows /\ Part(call, del'[r], j) = NoRows
           /\ Part(call, Merge(db, del'[r], ins'[r]), i)
                 = Merge(Seen(r, i), Part(call, out, i), Part(call, in, i))
<1>1. /\ ins'[r] = Merge(ins[r], out, in)
      /\ del'[r] = Merge(del[r], NoRows, out)
      /\ ins[r] \in Rows /\ del[r] \in Rows /\ db \in Rows
  BY DEF Write, TypeOK
<1>2. Merge(NoRows, NoRows, NoRows) = NoRows /\ NoRows \in Rows
  BY NoRowsType, MergeWrite
<1>3. ASSUME NEW j \in Identity, j # i
      PROVE  Part(call, ins'[r], j) = NoRows /\ Part(call, del'[r], j) = NoRows
  <2>1. /\ Part(call, ins[r], j) = NoRows /\ Part(call, del[r], j) = NoRows
        /\ Part(call, out, j) = NoRows /\ Part(call, in, j) = NoRows
    BY <1>3 DEF ContentsStaged, Confined
  <2>2. Part(call, NoRows, j) = NoRows
    BY ConfinedNone DEF Local
  <2>3. Part(call, Merge(ins[r], out, in), j)
          = Merge(Part(call, ins[r], j), Part(call, out, j), Part(call, in, j))
    BY <1>1, PartMerge
  <2>4. Part(call, Merge(del[r], NoRows, out), j)
          = Merge(Part(call, del[r], j), Part(call, NoRows, j), Part(call, out, j))
    BY <1>1, <1>2, PartMerge
  <2>5. QED
    BY <1>1, <1>2, <2>1, <2>2, <2>3, <2>4
<1>4. Merge(db, del'[r], ins'[r]) = Merge(Merge(db, del[r], ins[r]), out, in)
  <2>1. \A b, c \in Rows : Merge(db, Merge(b, NoRows, out), Merge(c, out, in))
                             = Merge(Merge(db, b, c), out, in)
    BY <1>1, MergeWrite
  <2>2. Merge(db, Merge(del[r], NoRows, out), Merge(ins[r], out, in))
          = Merge(Merge(db, del[r], ins[r]), out, in)
    BY <1>1, <2>1
  <2>3. QED
    BY <1>1, <2>2
<1>5. Merge(db, del[r], ins[r]) \in Rows
  BY <1>1, MergeType
<1>6. QED
  BY <1>3, <1>4, <1>5, PartMerge DEF Seen

\* The statements of a replacement on the rows of its identity, in order.
LEMMA ReplaceRows ==
    ASSUME NEW calls, NEW d, NEW w
    PROVE  /\ Merge(NoRows, NoRows, OnlyDatasets({d})) = Bare(d)
           /\ Merge(Filled(calls, d, w), OnlyObservations(Obs(calls, d, w)), NoRows)
                 = Framed(calls, d, w)
           /\ Merge(Framed(calls, d, w),
                    OnlyStructure(Dims(calls, d, w), Cats(calls, w)), NoRows) = Bare(d)
           /\ Merge(Bare(d), NoRows, OnlyStructure(Dims(calls, d, w), Cats(calls, w)))
                 = Framed(calls, d, w)
           /\ Merge(Framed(calls, d, w), NoRows, OnlyObservations(Obs(calls, d, w)))
                 = Filled(calls, d, w)
<1> DEFINE D == Dims(calls, d, w)
           G == Cats(calls, w)
           O == Obs(calls, d, w)
<1> HIDE DEF D, G, O
<1>1. OnlyStructure(D, G) = [providers |-> {}, datasets |-> {}, dimensions |-> D,
                             categories |-> G, observations |-> {}]
  BY OnlyFields
<1>2. Merge(NoRows, NoRows, OnlyDatasets({d})) = Bare(d)
  BY DEF Merge, NoRows, Bare, OnlyDatasets
<1>3. Merge(Filled(calls, d, w), OnlyObservations(O), NoRows) = Framed(calls, d, w)
  BY DEF Merge, NoRows, Filled, Framed, OnlyObservations, D, G, O
<1>4. Merge(Framed(calls, d, w), OnlyStructure(D, G), NoRows) = Bare(d)
  BY <1>1 DEF Merge, NoRows, Framed, Bare, D, G
<1>5. Merge(Bare(d), NoRows, OnlyStructure(D, G)) = Framed(calls, d, w)
  BY <1>1 DEF Merge, NoRows, Framed, Bare, D, G
<1>6. Merge(Framed(calls, d, w), NoRows, OnlyObservations(O)) = Filled(calls, d, w)
  BY DEF Merge, NoRows, Filled, Framed, OnlyObservations, D, G, O
<1>7. QED
  BY <1>2, <1>3, <1>4, <1>5, <1>6 DEF D, G, O

\* Its last statement puts a row e with the same id in place of d.
LEMMA StampRows ==
    ASSUME NEW calls, NEW d, NEW e, e.id = d.id, NEW w
    PROVE  Merge(Filled(calls, d, w), OnlyDatasets({d}), OnlyDatasets({e}))
             = Filled(calls, e, w)
<1> DEFINE D == Dims(calls, d, w)
           O == Obs(calls, d, w)
<1>1. Dims(calls, e, w) = D /\ Obs(calls, e, w) = O
  BY DEF Dims, Obs
<1> HIDE DEF D, O
<1>2. QED
  BY <1>1 DEF Merge, NoRows, Filled, OnlyDatasets, D, O

\* A step of a writer that writes nothing, and a step that ends its session.
LEMMA QuietContents ==
    ASSUME TypeOK, ContentsStaged, NEW r \in Request, Step(r), db' = db,
           \/ ins'[r] = ins[r] /\ del'[r] = del[r]
           \/ ins'[r] = NoRows /\ del'[r] = NoRows,
           Staged(call, r, IdentityOf(call[r]), pc'[r], tx'[r], clock',
                  Part(call, db, IdentityOf(call[r])),
                  Part(call, Merge(db, del'[r], ins'[r]), IdentityOf(call[r])),
                  got'[r].rows)
    PROVE  ContentsStaged'
<1>1. \A j \in Identity : j # IdentityOf(call[r]) =>
         Part(call, ins'[r], j) = NoRows /\ Part(call, del'[r], j) = NoRows
  BY ConfinedNone DEF ContentsStaged, Local
<1>2. QED
  BY <1>1, ContentsStep

\* A statement of a writer that writes rows of its identity.
LEMMA WriterContents ==
    ASSUME TypeOK, LockHeld', ContentsStaged, NEW r \in Request, Step(r),
           NEW out \in Rows, NEW in \in Rows, Write(r, out, in),
           NEW i, i = IdentityOf(call[r]), NEW outI, NEW inI,
           Local(call, out, i, outI), Local(call, in, i, inI),
           pc'[r] \notin {"commit", "failed"},
           Staged(call, r, i, pc'[r], "active", clock', Part(call, db, i),
                  Merge(Seen(r, i), outI, inI), got'[r].rows)
    PROVE  ContentsStaged'
<1>1. db' = db
  BY DEF Write
<1>2. tx'[r] # "committing"
  BY DEF LockHeld
<1>3. /\ \A j \in Identity : j # i =>
            Part(call, ins'[r], j) = NoRows /\ Part(call, del'[r], j) = NoRows
      /\ Part(call, Merge(db, del'[r], ins'[r]), i)
            = Merge(Seen(r, i), outI, inI)
  BY WriteContents DEF Local
<1>4. Staged(call, r, i, pc'[r], tx'[r], clock', Part(call, db, i),
             Part(call, Merge(db, del'[r], ins'[r]), i), got'[r].rows)
  BY <1>2, <1>3 DEF Staged
<1>5. QED
  BY <1>1, <1>3, <1>4, ContentsStep

\* What the parts of the invariant say of a request at one statement.
LEMMA StagedAt ==
    ASSUME ContentsStaged, NEW r \in Request
    PROVE  Staged(call, r, IdentityOf(call[r]), pc[r], tx[r], clock,
                  Part(call, db, IdentityOf(call[r])), Seen(r, IdentityOf(call[r])),
                  got[r].rows)
BY DEF ContentsStaged

\* The statements that find and lock the dataset.
LEMMA LockContents ==
    ASSUME TypeOK, LockHeld, LockHeld', ContentsStaged, NEW r \in Request,
           AdvisoryLock(r) \/ InsertProvider(r) \/ SelectProvider(r)
    PROVE  ContentsStaged'
<1> DEFINE i == IdentityOf(call[r])
           old == Part(call, db, i)
           now == Seen(r, i)
<1>s. Step(r)
  BY DEF Step, ClientStep, WriterStep
<1>a. Staged(call, r, i, pc[r], tx[r], clock, old, now, got[r].rows)
  BY StagedAt
<1>1. CASE AdvisoryLock(r)
  <2>1. holder[Key(r)] # r
    BY <1>1, RequestAssumption DEF AdvisoryLock
  <2>2. ins[r] = NoRows /\ del[r] = NoRows /\ tx[r] # "committing"
    BY <2>1 DEF LockHeld, Written
  <2>3. now = old
    BY <2>2, MergeWrite, NoRowsType DEF Seen, TypeOK
  <2>4. pc'[r] \in {"wipe", "provider"} /\ tx' = tx /\ ins' = ins /\ del' = del /\ db' = db
    BY <1>1 DEF AdvisoryLock, Go, TypeOK
  <2>5. Staged(call, r, i, pc'[r], tx'[r], clock', old, now, got'[r].rows)
    BY <2>2, <2>3, <2>4 DEF Staged
  <2>6. QED
    BY <1>s, <2>4, <2>5, QuietContents DEF Seen
<1>2. CASE InsertProvider(r)
  <2> DEFINE new == {[provider |-> call[r].provider, code |-> r]}
             in == IF ProviderRows(View(r), call[r]) # {} THEN NoRows
                   ELSE OnlyProviders(new)
  <2>1. now = old
    BY <1>2, <1>a DEF InsertProvider, Go, Staged
  <2>2. in \in Rows /\ NoRows \in Rows
    <3>1. new \in SUBSET ProviderRow
      BY DEF TypeOK, AnyCall, ProviderRow
    <3> HIDE DEF new
    <3>2. QED
      BY <3>1, NoRowsType, OneTableType DEF OnlyProviders
  <2>3. Local(call, in, i, NoRows) /\ Local(call, NoRows, i, NoRows)
    <3> HIDE DEF new
    <3>1. QED
      BY ConfinedNone, ConfinedProviders
  <2>4. Write(r, NoRows, in) /\ pc'[r] = "spelling"
    BY <1>2 DEF InsertProvider, Go, TypeOK, OnlyProviders
  <2> HIDE DEF in
  <2>5. now \in Rows
    BY PartMerge, MergeType DEF Seen, TypeOK
  <2>6. Merge(now, NoRows, NoRows) = old
    BY <2>1, <2>2, <2>5, MergeWrite
  <2>7. Staged(call, r, i, pc'[r], "active", clock', old,
               Merge(now, NoRows, NoRows), got'[r].rows)
    BY <2>4, <2>6 DEF Staged
  <2>8. QED
    BY <1>s, <2>2, <2>3, <2>4, <2>7, WriterContents
<1>3. CASE SelectProvider(r)
  <2>1. now = old /\ ins' = ins /\ del' = del /\ db' = db /\ pc'[r] \in {"dataset", "rollback"}
    BY <1>3, <1>a DEF SelectProvider, Go, Fail, ReadOnly, Staged, TypeOK
  <2>2. tx'[r] # "committing"
    BY <2>1 DEF LockHeld
  <2>3. Staged(call, r, i, pc'[r], tx'[r], clock', old, now, got'[r].rows)
    BY <2>1, <2>2 DEF Staged
  <2>4. QED
    BY <1>s, <2>1, <2>3, QuietContents DEF Seen
<1>4. QED
  BY <1>1, <1>2, <1>3

\* What is committed of an identity is nothing, or a dataset of one writer,
\* and its rows say which.
LEMMA SoundPart ==
    ASSUME ContentsStaged, NEW r \in Request, NEW i, i = IdentityOf(call[r]), TypeOK
    PROVE  \/ Part(call, db, i) = NoRows
           \/ \E d : At(call, d, i) /\ Part(call, db, i) = Filled(call, d, d.by)
<1>1. i \in Identity
  BY DEF IdentityOf, Identity, TypeOK, AnyCall
<1>2. QED
  BY <1>1 DEF ContentsStaged, AllSound, Sound

\* The replacement finds the dataset whole, or finds nothing.
LEMMA SelectDatasetContents ==
    ASSUME TypeOK, LockHeld, LockHeld', ContentsStaged, NEW r \in Request, SelectDataset(r)
    PROVE  ContentsStaged'
<1> DEFINE i == IdentityOf(call[r])
           old == Part(call, db, i)
           now == Seen(r, i)
           found == DatasetRows(View(r), call[r])
<1>s. Step(r)
  BY DEF Step, ClientStep, WriterStep
<1>1. now = old /\ ins' = ins /\ del' = del /\ db' = db
      /\ pc'[r] \in {"insert", "clear", "rollback"}
  BY StagedAt DEF SelectDataset, Go, Fail, ReadOnly, Staged, TypeOK
<1>2. tx'[r] # "committing"
  BY <1>1 DEF LockHeld
<1>3. found = now.datasets
  BY ViewType, SelectPart DEF Seen, View
<1>4. Staged(call, r, i, pc'[r], tx'[r], clock', old, now, got'[r].rows)
  <2>1. CASE pc'[r] = "rollback"
    BY <1>2, <2>1 DEF Staged
  <2>2. CASE pc'[r] = "insert"
    <3>1. found = {}
      BY <2>2 DEF SelectDataset, Go, Fail, TypeOK
    <3>2. old.datasets = {}
      BY <1>1, <1>3, <3>1
    <3>3. old = NoRows
      BY <3>2, SoundPart DEF Filled
    <3>4. QED
      BY <1>1, <1>2, <2>2, <3>3 DEF Staged
  <2>3. CASE pc'[r] = "clear"
    <3>1. found # {} /\ got'[r].rows = found
      BY <2>3 DEF SelectDataset, Go, Fail, TypeOK, Got
    <3>2. old.datasets # {}
      BY <1>1, <1>3, <3>1
    <3>3. PICK d : At(call, d, i) /\ old = Filled(call, d, d.by)
      BY <3>2, SoundPart DEF NoRows
    <3>4. old.datasets = {d} /\ SameDataset(d, old)
      BY <3>3 DEF Filled, SameDataset
    <3>5. got'[r].rows = {d}
      BY <1>1, <1>3, <3>1, <3>4
    <3> HIDE DEF i, old, now, found
    <3>6. QED
      BY <1>1, <1>2, <2>3, <3>3, <3>4, <3>5 DEF Staged
  <2>4. QED
    BY <1>1, <2>1, <2>2, <2>3
<1>5. QED
  BY <1>s, <1>1, <1>4, QuietContents DEF Seen

\* A dataset row of r for its identity.
LEMMA InsertDatasetContents ==
    ASSUME TypeOK, LockHeld, LockHeld', ContentsStaged, NEW r \in Request, InsertDataset(r)
    PROVE  ContentsStaged'
<1> DEFINE i == IdentityOf(call[r])
           old == Part(call, db, i)
           now == Seen(r, i)
           row == [id |-> r, provider |-> call[r].provider,
                   dataset |-> call[r].dataset, by |-> r, at |-> clock]
           in == OnlyDatasets({row})
<1>s. Step(r)
  BY DEF Step, ClientStep, WriterStep
<1>1. now = NoRows /\ old = NoRows
  BY StagedAt DEF InsertDataset, Go, Fail, Staged, TypeOK
<1>2. CASE /\ Fail(r, "insert", "error")
           /\ UNCHANGED <<db, holder, tx, ins, del, snap, call>>
  <2>1. ins' = ins /\ del' = del /\ db' = db /\ pc'[r] = "rollback"
    BY <1>2 DEF Fail, Go, TypeOK
  <2>2. tx'[r] # "committing"
    BY <2>1 DEF LockHeld
  <2>3. Staged(call, r, i, pc'[r], tx'[r], clock', old, now, got'[r].rows)
    BY <2>1, <2>2 DEF Staged
  <2>4. QED
    BY <1>s, <2>1, <2>3, QuietContents DEF Seen
<1>3. CASE /\ Go(r, "insert", "structure")
           /\ Write(r, NoRows, in)
           /\ got' = [got EXCEPT ![r].rows = {row}]
  <2>1. At(call, row, i) /\ <<row.provider, row.dataset>> = i
    BY DEF At, IdentityOf
  <2>2. in \in Rows /\ NoRows \in Rows
    <3>1. {row} \in SUBSET DatasetRow
      BY DEF TypeOK, AnyCall, DatasetRow
    <3>2. QED
      BY <3>1, NoRowsType, OneTableType DEF OnlyDatasets
  <2>3. pc'[r] = "structure" /\ got'[r].rows = {row}
    BY <1>3 DEF Go, TypeOK, Got
  <2>4. SameDataset(row, old)
    BY <1>1 DEF SameDataset, NoRows
  <2> HIDE DEF row
  <2>5. Local(call, in, i, in) /\ Local(call, NoRows, i, NoRows)
    <3>1. \A e \in {row} : <<e.provider, e.dataset>> = i
      BY <2>1
    <3> HIDE DEF i
    <3>2. QED
      BY <3>1, ConfinedNone, ConfinedDatasets
  <2>6. Merge(now, NoRows, in) = Bare(row)
    BY <1>1, ReplaceRows
  <2> HIDE DEF i, old, now, in
  <2>7. Staged(call, r, i, pc'[r], "active", clock', old,
               Merge(now, NoRows, in), got'[r].rows)
    BY <2>1, <2>3, <2>4, <2>6 DEF Staged
  <2>8. QED
    BY <1>s, <1>3, <2>2, <2>3, <2>5, <2>7, WriterContents DEF i, old, now
<1>4. QED
  BY <1>2, <1>3 DEF InsertDataset, OnlyDatasets

\* The rows a writer w has of a dataset of identity i are of i, and a
\* statement on the dataset's id reaches all of them.
LEMMA DatasetPart ==
    ASSUME NEW calls, NEW i, NEW d, At(calls, d, i), NEW w, IdentityOf(calls[w]) = i
    PROVE  /\ \A rows : rows = OnlyObservations(Obs(calls, d, w)) => Local(calls, rows, i, rows)
           /\ \A rows : rows = OnlyStructure(Dims(calls, d, w), Cats(calls, w))
                 => Local(calls, rows, i, rows)
           /\ \A rows : rows = OnlyDatasets({d}) => Local(calls, rows, i, rows)
<1>1. \A o \in Obs(calls, d, w) : IdentityOf(calls[o.dataset]) = i
  BY DEF Obs, At
<1>2. \A m \in Dims(calls, d, w) : IdentityOf(calls[m.dataset]) = i
  BY DEF Dims, At
<1>3. \A g \in Cats(calls, w) : IdentityOf(calls[g.dimension]) = i
  BY DEF Cats
<1>4. \A e \in {d} : <<e.provider, e.dataset>> = i
  BY DEF At
<1>5. QED
  BY <1>1, <1>2, <1>3, <1>4, ConfinedObservations, ConfinedStructure, ConfinedDatasets

\* What the statements of a replacement select by the dataset's id is of its
\* identity, and is all its identity has.
LEMMA SelectObservations ==
    ASSUME NEW calls, NEW rows \in Rows, NEW i, NEW d, At(calls, d, i), NEW w,
           Part(calls, rows, i).observations = Obs(calls, d, w)
    PROVE  ObservationRows(rows, Ids({d})) = Obs(calls, d, w)
<1>1. IdentityOf(calls[d.id]) = i /\ Ids({d}) = {d.id}
  BY DEF At, Ids
<1>2. ObservationRows(rows, {d.id}) =
         {o \in Part(calls, rows, i).observations : o.dataset = d.id}
  BY <1>1 DEF ObservationRows, Part
<1>3. \A o \in Obs(calls, d, w) : o.dataset = d.id
  BY DEF Obs
<1>4. QED
  BY <1>1, <1>2, <1>3

LEMMA SelectDimensions ==
    ASSUME NEW calls, NEW rows \in Rows, NEW i, NEW d, At(calls, d, i), NEW w,
           Part(calls, rows, i).dimensions = Dims(calls, d, w)
    PROVE  DimensionRows(rows, Ids({d})) = Dims(calls, d, w)
<1>1. IdentityOf(calls[d.id]) = i /\ Ids({d}) = {d.id}
  BY DEF At, Ids
<1>2. DimensionRows(rows, {d.id}) =
         {m \in Part(calls, rows, i).dimensions : m.dataset = d.id}
  BY <1>1 DEF DimensionRows, Part
<1>3. \A m \in Dims(calls, d, w) : m.dataset = d.id
  BY DEF Dims
<1>4. QED
  BY <1>1, <1>2, <1>3

LEMMA SelectCategories ==
    ASSUME NEW calls, NEW rows \in Rows, NEW i, NEW d, At(calls, d, i), NEW w,
           IdentityOf(calls[w]) = i,
           Part(calls, rows, i).dimensions = Dims(calls, d, w),
           Part(calls, rows, i).categories = Cats(calls, w)
    PROVE  CategoryRows(rows, Ids({d})) = Cats(calls, w)
<1>1. /\ \A m \in Dims(calls, d, w) : m.id = w
      /\ \E m \in Dims(calls, d, w) : m.id = w
      /\ \A g \in Cats(calls, w) : g.dimension = w
  BY DEF Dims, Cats
<1>2. CategoryRows(rows, Ids({d})) = {g \in rows.categories : g.dimension = w}
  BY <1>1, SelectDimensions DEF CategoryRows
<1>3. Cats(calls, w) = {g \in rows.categories : IdentityOf(calls[g.dimension]) = i}
  BY DEF Part
<1>4. QED
  BY <1>1, <1>2, <1>3

\* The rows a replacement removes are of its identity, and are all it has.
LEMMA ClearContents ==
    ASSUME TypeOK, LockHeld, LockHeld', ContentsStaged, NEW r \in Request,
           ClearObservations(r) \/ ClearDimensions(r)
    PROVE  ContentsStaged'
<1> DEFINE i == IdentityOf(call[r])
           old == Part(call, db, i)
           now == Seen(r, i)
<1>s. Step(r)
  BY DEF Step, ClientStep, WriterStep
<1>v. View(r) \in Rows /\ now = Part(call, View(r), i)
  BY ViewType DEF Seen, View
<1>n. NoRows \in Rows /\ Local(call, NoRows, i, NoRows)
  BY NoRowsType, ConfinedNone
<1>1. PICK d \in got[r].rows :
         /\ At(call, d, i) /\ SameDataset(d, old) /\ got[r].rows = {d}
         /\ pc[r] = "clear" => now = Filled(call, d, d.by)
         /\ pc[r] = "cascade" => now = Framed(call, d, d.by)
  BY StagedAt DEF ClearObservations, ClearDimensions, Go, Staged
<1>2. IdentityOf(call[d.by]) = i
  BY <1>1 DEF At
<1>i. i = IdentityOf(call[r]) /\ old = Part(call, db, i)
  OBVIOUS
<1> HIDE DEF i, old, now
<1>3. CASE ClearObservations(r)
  <2> DEFINE O == Obs(call, d, d.by)
             out == OnlyObservations(O)
  <2>1. ObservationRows(View(r), Ids(got[r].rows)) = O
    <3>1. Part(call, View(r), i).observations = O
      BY <1>1, <1>3, <1>v DEF ClearObservations, Go, Filled
    <3>2. QED
      BY <1>1, <1>v, <3>1, SelectObservations
  <2>2. Write(r, out, NoRows) /\ pc'[r] = "cascade" /\ got' = got
    BY <1>3, <2>1 DEF ClearObservations, Go, TypeOK, OnlyObservations
  <2>3. out \in Rows
    <3>1. O \in SUBSET ObservationRow
      BY <1>v, <2>1, SelectType
    <3> HIDE DEF O
    <3>2. QED
      BY <3>1, OneTableType DEF OnlyObservations
  <2>4. Local(call, out, i, out)
    BY <1>1, <1>2, DatasetPart
  <2>5. Merge(now, out, NoRows) = Framed(call, d, d.by)
    BY <1>1, <1>3, <1>n, <2>4, ReplaceRows DEF ClearObservations, Go
  <2> HIDE DEF out
  <2>6. Staged(call, r, i, pc'[r], "active", clock', old,
               Merge(now, out, NoRows), got'[r].rows)
    BY <1>1, <2>2, <2>5 DEF Staged
  <2>7. QED
    BY <1>i, <1>s, <1>n, <2>2, <2>3, <2>4, <2>6, WriterContents DEF now
<1>4. CASE ClearDimensions(r)
  <2> DEFINE out == OnlyStructure(Dims(call, d, d.by), Cats(call, d.by))
  <2>0. now = Framed(call, d, d.by)
    BY <1>1, <1>4 DEF ClearDimensions, Go
  <2>1. /\ DimensionRows(View(r), Ids(got[r].rows)) = Dims(call, d, d.by)
        /\ CategoryRows(View(r), Ids(got[r].rows)) = Cats(call, d.by)
    <3>1. /\ Part(call, View(r), i).dimensions = Dims(call, d, d.by)
          /\ Part(call, View(r), i).categories = Cats(call, d.by)
      BY <1>v, <2>0 DEF Framed
    <3>2. QED
      BY <1>1, <1>2, <1>v, <3>1, SelectDimensions, SelectCategories
  <2>2. Write(r, out, NoRows) /\ pc'[r] = "structure" /\ got' = got
    BY <1>4, <2>1 DEF ClearDimensions, Cascade, Go, TypeOK, OnlyStructure
  <2>3. out \in Rows
    BY <1>v, <2>1, CascadeType DEF Cascade, OnlyStructure
  <2>4. Local(call, out, i, out)
    BY <1>1, <1>2, DatasetPart
  <2>5. Merge(now, out, NoRows) = Bare(d)
    BY <1>n, <2>0, <2>4, ReplaceRows
  <2> HIDE DEF out
  <2>6. Staged(call, r, i, pc'[r], "active", clock', old,
               Merge(now, out, NoRows), got'[r].rows)
    BY <1>1, <2>2, <2>5 DEF Staged
  <2>7. QED
    BY <1>i, <1>s, <1>n, <2>2, <2>3, <2>4, <2>6, WriterContents DEF now
<1>5. QED
  BY <1>3, <1>4

\* An error return writes nothing, and its request writes nothing more.
LEMMA FailContents ==
    ASSUME TypeOK, LockHeld, LockHeld', ContentsStaged, NEW r \in Request, Step(r),
           NEW from, NEW status, Fail(r, from, status),
           UNCHANGED <<db, holder, tx, ins, del, snap, call>>
    PROVE  ContentsStaged'
<1>1. ins' = ins /\ del' = del /\ db' = db /\ pc'[r] = "rollback"
  BY DEF Fail, Go, TypeOK
<1>2. tx'[r] # "committing"
  BY <1>1 DEF LockHeld
<1>3. pc'[r] \notin Guarded
  BY <1>1 DEF Guarded
<1>4. QED
  BY <1>1, <1>2, <1>3, StagedQuiet, QuietContents

\* The new structure and the new cells are of r's request.
LEMMA FillContents ==
    ASSUME TypeOK, LockHeld, LockHeld', ContentsStaged, NEW r \in Request,
           InsertStructure(r) \/ CopyObservations(r)
    PROVE  ContentsStaged'
<1> DEFINE i == IdentityOf(call[r])
           old == Part(call, db, i)
           now == Seen(r, i)
<1>s. Step(r)
  BY DEF Step, ClientStep, WriterStep
<1>n. NoRows \in Rows /\ Local(call, NoRows, i, NoRows)
  BY NoRowsType, ConfinedNone
<1>i. i = IdentityOf(call[r]) /\ old = Part(call, db, i)
  OBVIOUS
<1>1. PICK d \in got[r].rows :
         /\ At(call, d, i) /\ SameDataset(d, old) /\ got[r].rows = {d}
         /\ pc[r] = "structure" => now = Bare(d)
         /\ pc[r] = "observations" => now = Framed(call, d, r)
  <2>1. pc[r] = "structure" \/ pc[r] = "observations"
    BY DEF InsertStructure, CopyObservations, Fail, Go
  <2>2. QED
    BY <2>1, StagedAt DEF Staged
<1>2. Ids(got[r].rows) = {d.id} /\ d.id \in Request
  BY <1>1 DEF Ids, TypeOK, Got, DatasetRow
<1> HIDE DEF i, old, now
<1>3. CASE InsertStructure(r)
  <2> DEFINE D == Dims(call, d, r)
             G == Cats(call, r)
             out == OnlyStructure(D, G)
  <2>1. CASE /\ Fail(r, "structure", "error")
             /\ UNCHANGED <<db, holder, tx, ins, del, snap, call>>
    BY <1>s, <2>1, FailContents
  <2>2. CASE /\ Go(r, "structure", "observations")
             /\ Write(r, NoRows, out)
    <3>1. pc[r] = "structure" /\ pc'[r] = "observations" /\ got' = got
      BY <1>3, <2>2 DEF InsertStructure, Go, TypeOK
    <3>2. out \in Rows
      <4>1. D \in SUBSET DimensionRow /\ G \in SUBSET CategoryRow
        BY <1>2 DEF Dims, Cats, DimensionRow, CategoryRow, TypeOK, AnyCall
      <4> HIDE DEF D, G
      <4>2. QED
        BY <4>1, OneTableType DEF OnlyStructure
    <3>3. Local(call, out, i, out)
      BY <1>1, <1>i, DatasetPart
    <3>4. Merge(now, NoRows, out) = Framed(call, d, r)
      BY <1>1, <3>1, ReplaceRows
    <3> HIDE DEF out
    <3>5. Staged(call, r, i, pc'[r], "active", clock', old,
                 Merge(now, NoRows, out), got'[r].rows)
      BY <1>1, <3>1, <3>4 DEF Staged
    <3>6. QED
      BY <1>i, <1>s, <1>n, <2>2, <3>1, <3>2, <3>3, <3>5, WriterContents DEF now
  <2>3. [NoRows EXCEPT
           !.dimensions = {[id |-> r, dataset |-> j, structure |-> call[r].structure] :
                              j \in Ids(got[r].rows)},
           !.categories = {[dimension |-> r, structure |-> call[r].structure]}] = out
    <3>1. {[id |-> r, dataset |-> j, structure |-> call[r].structure] :
              j \in Ids(got[r].rows)} = D
      BY <1>2 DEF Dims
    <3> HIDE DEF D
    <3>2. QED
      BY <3>1 DEF OnlyStructure, Cats
  <2>4. QED
    <3> HIDE DEF out
    <3>1. QED
      BY <1>3, <2>1, <2>2, <2>3 DEF InsertStructure
<1>4. CASE CopyObservations(r)
  <2> DEFINE O == Obs(call, d, r)
             out == OnlyObservations(O)
             new == {[dataset |-> j, cell |-> c, by |-> r] :
                        j \in Ids(got[r].rows), c \in call[r].cells}
  <2>1. CASE /\ Fail(r, "observations", "error")
             /\ UNCHANGED <<db, holder, tx, ins, del, snap, call>>
    BY <1>s, <2>1, FailContents
  <2>2. CASE /\ Go(r, "observations", "stamp")
             /\ Write(r, NoRows, out)
    <3>1. pc[r] = "observations" /\ pc'[r] = "stamp" /\ got' = got
      BY <1>4, <2>2 DEF CopyObservations, Go, TypeOK
    <3>2. out \in Rows
      <4>1. O \in SUBSET ObservationRow
        BY <1>2 DEF Obs, ObservationRow, TypeOK, AnyCall
      <4> HIDE DEF O
      <4>2. QED
        BY <4>1, OneTableType DEF OnlyObservations
    <3>3. Local(call, out, i, out)
      BY <1>1, <1>i, DatasetPart
    <3>4. Merge(now, NoRows, out) = Filled(call, d, r)
      BY <1>1, <3>1, ReplaceRows
    <3> HIDE DEF out
    <3>5. Staged(call, r, i, pc'[r], "active", clock', old,
                 Merge(now, NoRows, out), got'[r].rows)
      BY <1>1, <3>1, <3>4 DEF Staged
    <3>6. QED
      BY <1>i, <1>s, <1>n, <2>2, <3>1, <3>2, <3>3, <3>5, WriterContents DEF now
  <2>3. new = O
    BY <1>2 DEF Obs
  <2>4. /\ Go(r, "observations", "stamp")
        /\ Write(r, NoRows, OnlyObservations(new))
        \/ /\ Fail(r, "observations", "error")
           /\ UNCHANGED <<db, holder, tx, ins, del, snap, call>>
    BY <1>4 DEF CopyObservations, OnlyObservations
  <2> HIDE DEF O, new
  <2>5. QED
    BY <2>1, <2>2, <2>3, <2>4
<1>5. QED
  BY <1>3, <1>4

\* No other dataset that r sees has the id of its own.
LEMMA OneId ==
    ASSUME TypeOK, ContentsStaged, NEW r \in Request, NEW i, i = IdentityOf(call[r]),
           NEW d, At(call, d, i), Seen(r, i).datasets = {d}
    PROVE  /\ d \in View(r).datasets
           /\ \A e \in View(r).datasets : e.id \in Ids({d}) <=> e = d
<1>1. d \in View(r).datasets
  BY DEF Seen, Part, View
<1>2. ASSUME NEW e \in View(r).datasets, e.id = d.id
      PROVE  e = d
  <2> DEFINE j == <<e.provider, e.dataset>>
  <2>1. j \in Identity
    BY ViewType DEF Rows, DatasetRow, Identity
  <2>2. CASE j = i
    BY <2>2 DEF Seen, Part, View
  <2>3. CASE j # i
    <3>1. /\ Part(call, ins[r], j) = NoRows /\ Part(call, del[r], j) = NoRows
          /\ Sound(call, db, j)
      BY <2>1, <2>3 DEF ContentsStaged, AllSound
    <3>2. Part(call, View(r), j) = Part(call, db, j)
      <4>1. Part(call, View(r), j) =
              Merge(Part(call, db, j), Part(call, del[r], j), Part(call, ins[r], j))
        BY PartMerge DEF View, TypeOK
      <4>2. Part(call, db, j) \in Rows
        BY PartMerge DEF TypeOK
      <4>3. QED
        BY <3>1, <4>1, <4>2, MergeWrite, NoRowsType
    <3>3. e \in Part(call, db, j).datasets
      BY <3>2 DEF Part
    <3>4. PICK f : At(call, f, j) /\ Part(call, db, j) = Filled(call, f, f.by)
      BY <3>1, <3>3 DEF Sound, NoRows
    <3>5. IdentityOf(call[e.id]) = j
      BY <3>3, <3>4 DEF At, Filled
    <3>6. QED
      BY <1>2, <2>3, <3>5 DEF At
  <2>4. QED
    BY <2>2, <2>3
<1>3. Ids({d}) = {d.id}
  BY DEF Ids
<1>4. QED
  BY <1>1, <1>2, <1>3

\* The row is stamped by r, later than what is committed.
LEMMA UpdateContents ==
    ASSUME TypeOK, LockHeld, LockHeld', ContentsStaged, NEW r \in Request, UpdateDataset(r)
    PROVE  ContentsStaged'
<1> DEFINE i == IdentityOf(call[r])
           old == Part(call, db, i)
           now == Seen(r, i)
<1>s. Step(r)
  BY DEF Step, ClientStep, WriterStep
<1>i. i = IdentityOf(call[r]) /\ old = Part(call, db, i)
  OBVIOUS
<1>1. PICK d \in got[r].rows :
         /\ At(call, d, i) /\ SameDataset(d, old) /\ got[r].rows = {d}
         /\ now = Filled(call, d, r)
  <2>1. pc[r] = "stamp"
    BY DEF UpdateDataset, Go
  <2>2. QED
    BY <2>1, StagedAt DEF Staged
<1>2. d \in DatasetRow /\ clock \in Nat
  BY DEF TypeOK, Got
<1>3. \A e \in old.datasets : e.at < clock + 1
  <2>1. \A e \in db.datasets : e.at \in Nat /\ e.at <= clock
    BY DEF TypeOK, Rows, DatasetRow, ContentsStaged
  <2>2. QED
    BY <1>2, <2>1 DEF Part
<1> HIDE DEF i, old, now
<1> DEFINE e == Stamped(d, r)
<1>4. /\ e \in DatasetRow /\ e.id = d.id /\ e.by = r /\ e.at = clock + 1
      /\ e.provider = d.provider /\ e.dataset = d.dataset
  <2>1. e = [id |-> d.id, provider |-> d.provider, dataset |-> d.dataset,
             by |-> r, at |-> clock + 1]
    <3> DEFINE f == [d EXCEPT !.by = r]
    <3>1. f = [id |-> d.id, provider |-> d.provider, dataset |-> d.dataset,
               by |-> r, at |-> d.at]
      BY <1>2 DEF DatasetRow
    <3>2. e = [f EXCEPT !.at = clock + 1]
      BY DEF Stamped
    <3> HIDE DEF e, f
    <3>3. QED
      BY <3>1, <3>2
  <2> HIDE DEF e
  <2>2. QED
    BY <1>2, <2>1 DEF DatasetRow
<1>5. At(call, e, i) /\ SameDataset(e, old)
  BY <1>1, <1>4, <1>i DEF At, SameDataset
<1> HIDE DEF e
<1>6. {f \in View(r).datasets : f.id \in Ids(got[r].rows)} = {d}
  <2>1. Seen(r, i).datasets = {d}
    BY <1>1 DEF now, Filled
  <2>2. /\ d \in View(r).datasets
        /\ \A f \in View(r).datasets : f.id \in Ids({d}) <=> f = d
    BY <1>1, <1>i, <2>1, OneId
  <2>3. QED
    BY <1>1, <2>2
<1> DEFINE out == OnlyDatasets({d})
           in == OnlyDatasets({e})
<1>7. Write(r, out, in) /\ pc'[r] = "ready" /\ clock' = clock + 1
  <2> DEFINE rows == {f \in View(r).datasets : f.id \in Ids(got[r].rows)}
             new == {Stamped(f, r) : f \in rows}
  <2>1. new = {e}
    BY <1>6 DEF e
  <2>2. Write(r, OnlyDatasets(rows), OnlyDatasets(new))
    BY DEF UpdateDataset, OnlyDatasets
  <2>3. pc'[r] = "ready" /\ clock' = clock + 1
    BY DEF UpdateDataset, Go, TypeOK
  <2> HIDE DEF rows, new
  <2>4. rows = {d}
    BY <1>6 DEF rows
  <2>5. QED
    BY <2>1, <2>2, <2>3, <2>4
<1>8. out \in Rows /\ in \in Rows
  <2>1. {d} \in SUBSET DatasetRow /\ {e} \in SUBSET DatasetRow
    BY <1>2, <1>4
  <2>2. QED
    BY <2>1, OneTableType DEF OnlyDatasets
<1>9. Local(call, out, i, out) /\ Local(call, in, i, in)
  BY <1>1, <1>5, <1>i, DatasetPart
<1>10. Merge(now, out, in) = Filled(call, e, r)
  BY <1>1, <1>4, StampRows
<1>11. Filled(call, e, r).datasets = {e}
  BY DEF Filled
<1> HIDE DEF out, in
<1>12. Final(call, i, clock', old, Merge(now, out, in))
  BY <1>2, <1>3, <1>4, <1>5, <1>7, <1>10, <1>11 DEF Final
<1>13. Staged(call, r, i, pc'[r], "active", clock', old, Merge(now, out, in), got'[r].rows)
  BY <1>7, <1>12 DEF Staged
<1>14. QED
  BY <1>i, <1>s, <1>7, <1>8, <1>9, <1>13, WriterContents DEF now

\* A dataset without its observations is of its identity.
LEMMA FramedLocal ==
    ASSUME NEW calls, NEW i, NEW d, At(calls, d, i), NEW w, IdentityOf(calls[w]) = i
    PROVE  Local(calls, Framed(calls, d, w), i, Framed(calls, d, w))
<1> DEFINE D == Dims(calls, d, w)
           G == Cats(calls, w)
<1>1. ASSUME NEW j
      PROVE  Part(calls, Framed(calls, d, w), j) =
                [providers |-> {}, datasets |-> {e \in {d} : <<e.provider, e.dataset>> = j},
                 dimensions |-> {m \in D : IdentityOf(calls[m.dataset]) = j},
                 categories |-> {g \in G : IdentityOf(calls[g.dimension]) = j},
                 observations |-> {}]
  <2> HIDE DEF D, G
  <2>1. QED
    BY DEF Part, Framed, D, G
<1>2. /\ \A m \in D : IdentityOf(calls[m.dataset]) = i
      /\ \A g \in G : IdentityOf(calls[g.dimension]) = i
      /\ \A e \in {d} : <<e.provider, e.dataset>> = i
  BY DEF Dims, Cats, At
<1> HIDE DEF D, G
<1>3. ASSUME NEW j, j # i
      PROVE  Part(calls, Framed(calls, d, w), j) = NoRows
  BY <1>1, <1>2, <1>3 DEF NoRows
<1>4. Part(calls, Framed(calls, d, w), i) = Framed(calls, d, w)
  BY <1>1, <1>2 DEF Framed, D, G
<1>5. QED
  BY <1>3, <1>4 DEF Local, Confined

\* A delete takes all the rows of its identity.
LEMMA DeleteContents ==
    ASSUME TypeOK, LockHeld, LockHeld', ContentsStaged, NEW r \in Request,
           DeleteObservations(r) \/ DeleteDataset(r)
    PROVE  ContentsStaged'
<1> DEFINE i == IdentityOf(call[r])
           old == Part(call, db, i)
           now == Seen(r, i)
           found == DatasetRows(View(r), call[r])
<1>s. Step(r)
  BY DEF Step, ClientStep, WriterStep
<1>n. NoRows \in Rows /\ Local(call, NoRows, i, NoRows)
  BY NoRowsType, ConfinedNone
<1>i. i = IdentityOf(call[r]) /\ old = Part(call, db, i)
  OBVIOUS
<1>v. View(r) \in Rows /\ now = Part(call, View(r), i)
  BY ViewType DEF Seen, View
<1>f. found = now.datasets
  BY <1>v, SelectPart
<1>1. old = NoRows \/ \E d : At(call, d, i) /\ old = Filled(call, d, d.by)
  BY SoundPart
<1>2. old \in Rows
  BY PartMerge DEF TypeOK
<1> HIDE DEF i, old, now, found
<1>3. CASE DeleteObservations(r)
  <2> DEFINE O == ObservationRows(View(r), Ids(found))
             out == OnlyObservations(O)
             wiped == [old EXCEPT !.observations = {}]
  <2>1. pc[r] = "wipe" /\ pc'[r] = "remove" /\ Write(r, out, NoRows)
    BY <1>3 DEF DeleteObservations, Go, TypeOK, OnlyObservations, found
  <2>2. now = old
    BY <2>1, StagedAt DEF Staged, now, old, i
  <2>3. out \in Rows
    <3>1. O \in SUBSET ObservationRow
      BY <1>v, SelectType
    <3> HIDE DEF O
    <3>2. QED
      BY <3>1, OneTableType DEF OnlyObservations
  <2>4. Local(call, out, i, out) /\ Merge(now, out, NoRows) = wiped
    <3>1. CASE old = NoRows
      <4>1. Ids(found) = {}
        BY <1>f, <2>2, <3>1 DEF Ids, NoRows
      <4>2. O = {}
        BY <4>1 DEF ObservationRows
      <4>3. out = NoRows /\ wiped = NoRows
        BY <3>1, <4>2 DEF OnlyObservations, NoRows
      <4>4. Merge(NoRows, NoRows, NoRows) = NoRows
        BY <1>n, MergeWrite
      <4> HIDE DEF out, wiped
      <4>5. QED
        BY <1>n, <2>2, <3>1, <4>3, <4>4
    <3>2. ASSUME NEW d, At(call, d, i), old = Filled(call, d, d.by)
          PROVE  Local(call, out, i, out) /\ Merge(now, out, NoRows) = wiped
      <4>1. found = {d} /\ IdentityOf(call[d.by]) = i
        BY <1>f, <2>2, <3>2 DEF Filled, At
      <4>2. Part(call, View(r), i).observations = Obs(call, d, d.by)
        BY <1>v, <2>2, <3>2 DEF Filled
      <4>3. O = Obs(call, d, d.by)
        BY <1>v, <3>2, <4>1, <4>2, SelectObservations
      <4>4. Local(call, out, i, out)
        BY <3>2, <4>1, <4>3, DatasetPart
      <4>5. Merge(now, out, NoRows) = Framed(call, d, d.by)
        BY <2>2, <3>2, <4>3, ReplaceRows
      <4>6. wiped = Framed(call, d, d.by)
        BY <3>2 DEF Filled, Framed
      <4>7. QED
        BY <4>4, <4>5, <4>6
    <3>3. QED
      BY <1>1, <3>1, <3>2
  <2> HIDE DEF out
  <2>5. Staged(call, r, i, pc'[r], "active", clock', old, Merge(now, out, NoRows),
               got'[r].rows)
    BY <2>1, <2>4 DEF Staged
  <2>6. QED
    BY <1>i, <1>s, <1>n, <2>1, <2>3, <2>4, <2>5, WriterContents DEF now
<1>4. CASE DeleteDataset(r)
  <2> DEFINE ids == Ids(found)
             out == [Cascade(View(r), ids) EXCEPT !.datasets = found]
  <2>1. pc[r] = "remove" /\ pc'[r] = "ready" /\ Write(r, out, NoRows)
    BY <1>4 DEF DeleteDataset, Go, TypeOK, found
  <2>2. now = [old EXCEPT !.observations = {}]
    BY <2>1, StagedAt DEF Staged, now, old, i
  <2>3. out = [providers |-> {}, datasets |-> found,
               dimensions |-> DimensionRows(View(r), ids),
               categories |-> CategoryRows(View(r), ids), observations |-> {}]
    <3>1. Cascade(View(r), ids) = [providers |-> {}, datasets |-> {},
               dimensions |-> DimensionRows(View(r), ids),
               categories |-> CategoryRows(View(r), ids), observations |-> {}]
      BY OnlyFields DEF Cascade, OnlyStructure
    <3> HIDE DEF ids
    <3>2. QED
      BY <3>1
  <2> HIDE DEF out
  <2>4. out \in Rows
    BY <1>v, <2>3, SelectType DEF found, Rows
  <2>5. Local(call, out, i, out) /\ Merge(now, out, NoRows) = NoRows
    <3>1. CASE old = NoRows
      <4>1. now = NoRows
        BY <2>2, <3>1 DEF NoRows
      <4>2. found = {} /\ ids = {}
        BY <1>f, <4>1 DEF Ids, NoRows
      <4>3. DimensionRows(View(r), ids) = {} /\ CategoryRows(View(r), ids) = {}
        BY <4>2 DEF DimensionRows, CategoryRows
      <4>4. out = NoRows
        BY <2>3, <4>2, <4>3 DEF NoRows
      <4>5. Merge(NoRows, NoRows, NoRows) = NoRows
        BY <1>n, MergeWrite
      <4>6. QED
        BY <1>n, <4>1, <4>4, <4>5
    <3>2. ASSUME NEW d, At(call, d, i), old = Filled(call, d, d.by)
          PROVE  Local(call, out, i, out) /\ Merge(now, out, NoRows) = NoRows
      <4>1. now = Framed(call, d, d.by) /\ IdentityOf(call[d.by]) = i
        BY <2>2, <3>2 DEF Filled, Framed, At
      <4>2. found = {d}
        BY <1>f, <4>1 DEF Framed
      <4>3. /\ Part(call, View(r), i).dimensions = Dims(call, d, d.by)
            /\ Part(call, View(r), i).categories = Cats(call, d.by)
        BY <1>v, <4>1 DEF Framed
      <4>4. /\ DimensionRows(View(r), ids) = Dims(call, d, d.by)
            /\ CategoryRows(View(r), ids) = Cats(call, d.by)
        <5>1. View(r) \in Rows /\ At(call, d, i) /\ IdentityOf(call[d.by]) = i
          BY <1>v, <3>2, <4>1
        <5>2. DimensionRows(View(r), Ids({d})) = Dims(call, d, d.by)
          BY <4>3, <5>1, SelectDimensions
        <5>3. CategoryRows(View(r), Ids({d})) = Cats(call, d.by)
          BY <4>3, <5>1, SelectCategories
        <5>4. QED
          BY <4>2, <5>2, <5>3
      <4>5. out = Framed(call, d, d.by)
        BY <2>3, <4>2, <4>4 DEF Framed
      <4>6. Merge(Framed(call, d, d.by), Framed(call, d, d.by), NoRows) = NoRows
        BY DEF Merge, Framed, NoRows
      <4>7. Local(call, Framed(call, d, d.by), i, Framed(call, d, d.by))
        BY <3>2, <4>1, FramedLocal
      <4>8. QED
        BY <4>1, <4>5, <4>6, <4>7
    <3>3. QED
      BY <1>1, <3>1, <3>2
  <2>6. Staged(call, r, i, pc'[r], "active", clock', old, Merge(now, out, NoRows),
               got'[r].rows)
    BY <2>1, <2>5 DEF Staged, Final
  <2>7. QED
    BY <1>i, <1>s, <1>n, <2>1, <2>4, <2>5, <2>6, WriterContents DEF now
<1>5. QED
  BY <1>3, <1>4

\* Reads, and the steps of a request that is no longer writing.
LEMMA QuietStepContents ==
    ASSUME TypeOK, LockHeld, LockHeld', ContentsStaged, NEW r \in Request,
           \/ ReaderStep(r) \/ Begin(r) \/ Commit(r) \/ Ack(r)
           \/ Rollback(r) \/ ServerAbort(r) \/ GiveUp(r)
    PROVE  ContentsStaged'
<1>s. Step(r)
  BY DEF Step, ClientStep, WriterStep, ServerStep
<1>1. ASSUME db' = db, pc'[r] \notin Guarded, tx'[r] # "committing",
             \/ ins'[r] = ins[r] /\ del'[r] = del[r]
             \/ ins'[r] = NoRows /\ del'[r] = NoRows
      PROVE  ContentsStaged'
  BY <1>s, <1>1, StagedQuiet, QuietContents
<1>2. ASSUME NEW outcome \in {"committed", "aborted"}, EndSession(r, outcome), db' = db,
             pc'[r] \notin Guarded
      PROVE  ContentsStaged'
  <2>1. tx'[r] # "committing" /\ ins'[r] = NoRows /\ del'[r] = NoRows
    BY <1>2 DEF EndSession, TypeOK
  <2>2. QED
    BY <1>1, <1>2, <2>1
<1>3. ASSUME db' = db, ins' = ins, del' = del, pc'[r] \notin Guarded,
             pc'[r] \notin {"commit", "failed"}
      PROVE  ContentsStaged'
  BY <1>1, <1>3 DEF LockHeld
<1>4. CASE ReaderStep(r)
  <2>1. CASE ReadSummary(r)
    BY <1>3, <2>1 DEF ReadSummary, Go, Fail, Guarded, TypeOK
  <2>2. CASE ReadDimensions(r) \/ ReadCells(r)
    BY <1>3, <2>2 DEF ReadDimensions, ReadCells, Go, ReadOnly, Guarded, TypeOK
  <2>3. CASE ReadCategories(r)
    BY <1>3, <2>3 DEF ReadCategories, Go, Fail, ReadOnly, Guarded, TypeOK
  <2>4. CASE ReadBatch(r)
    BY <1>3, <2>4 DEF ReadBatch, Go, ReadOnly, Guarded, TypeOK
  <2>5. CASE Finish(r)
    BY <1>2, <2>5 DEF Finish, Go, Guarded, TypeOK
  <2>6. CASE GetSummary(r) \/ ListDatasets(r) \/ ListProviders(r)
    <3>1. EndSession(r, "committed") /\ db' = db /\ pc'[r] = "done"
      BY <2>6 DEF GetSummary, ListDatasets, ListProviders, Answer, Go, TypeOK
    <3>2. QED
      BY <1>2, <3>1 DEF Guarded
  <2>7. QED
    BY <1>4, <2>1, <2>2, <2>3, <2>4, <2>5, <2>6 DEF ReaderStep
<1>5. CASE Begin(r)
  <2>1. pc'[r] \in {"lock", "summary", "statement"}
    BY <1>5 DEF Begin, Go, FirstPc, TypeOK
  <2>2. db' = db /\ ins' = ins /\ del' = del
    BY <1>5 DEF Begin
  <2>3. QED
    BY <1>3, <2>1, <2>2 DEF Guarded
<1>6. CASE Ack(r) \/ Rollback(r) \/ ServerAbort(r)
  <2>1. CASE Ack(r)
    BY <1>1, <2>1 DEF Ack, Go, Guarded, TypeOK, server
  <2>2. CASE Rollback(r) \/ ServerAbort(r)
    BY <1>2, <2>2 DEF Rollback, ServerAbort, Go, Guarded, TypeOK
  <2>3. QED
    BY <1>6, <2>1, <2>2
<1>7. CASE Commit(r) \/ GiveUp(r)
  <2> DEFINE i == IdentityOf(call[r])
             old == Part(call, db, i)
             now == Seen(r, i)
  <2>1. /\ db' = db /\ ins' = ins /\ del' = del /\ clock' = clock
        /\ pc'[r] \in {"commit", "failed"}
        /\ tx'[r] = "committing" => pc[r] = "ready" \/ tx[r] = "committing"
    BY <1>7 DEF Commit, GiveUp, Go, TypeOK, server
  <2>2. CASE tx'[r] # "committing"
    BY <1>1, <2>1, <2>2 DEF Guarded
  <2>3. CASE tx'[r] = "committing"
    <3>1. Staged(call, r, i, pc[r], tx[r], clock, old, now, got[r].rows)
      BY StagedAt
    <3> HIDE DEF i, old, now
    <3>2. Final(call, i, clock, old, now)
      BY <2>1, <2>3, <3>1 DEF Staged
    <3>3. Staged(call, r, i, pc'[r], tx'[r], clock', old, now, got'[r].rows)
      BY <2>1, <3>2 DEF Staged
    <3>4. QED
      BY <1>s, <2>1, <3>3, QuietContents DEF i, old, now, Seen
  <2>4. QED
    BY <2>2, <2>3
<1>8. QED
  BY <1>4, <1>5, <1>6, <1>7

\* A commit changes nothing of another identity, nor of what a transaction
\* on another identity sees.
LEMMA CommitElsewhere ==
    ASSUME TypeOK, ContentsStaged, NEW r \in Request, ServerCommit(r),
           NEW j \in Identity, j # IdentityOf(call[r])
    PROVE  /\ Part(call, db', j) = Part(call, db, j)
           /\ \A q \in Request : Part(call, Merge(db', del[q], ins[q]), j) = Seen(q, j)
<1>1. db' = View(r) /\ db' \in Rows /\ db \in Rows
  BY ViewType DEF ServerCommit, TypeOK
<1>2. Part(call, db', j) = Part(call, db, j)
  <2>1. Part(call, ins[r], j) = NoRows /\ Part(call, del[r], j) = NoRows
    BY DEF ContentsStaged
  <2>2. Part(call, View(r), j) =
          Merge(Part(call, db, j), Part(call, del[r], j), Part(call, ins[r], j))
    BY PartMerge DEF View, TypeOK
  <2>3. Part(call, db, j) \in Rows
    BY PartMerge DEF TypeOK
  <2>4. QED
    BY <1>1, <2>1, <2>2, <2>3, MergeWrite, NoRowsType
<1>3. ASSUME NEW q \in Request
      PROVE  Part(call, Merge(db', del[q], ins[q]), j) = Seen(q, j)
  <2>1. ins[q] \in Rows /\ del[q] \in Rows
    BY DEF TypeOK
  <2>2. Part(call, Merge(db', del[q], ins[q]), j) =
          Merge(Part(call, db', j), Part(call, del[q], j), Part(call, ins[q], j))
    BY <1>1, <2>1, PartMerge
  <2>3. Part(call, Merge(db, del[q], ins[q]), j) =
          Merge(Part(call, db, j), Part(call, del[q], j), Part(call, ins[q], j))
    BY <1>1, <2>1, PartMerge
  <2>4. QED
    BY <1>2, <2>2, <2>3 DEF Seen
<1>4. QED
  BY <1>2, <1>3

\* What is committed is whole, and of one identity only: that of the
\* request whose lock it is.
LEMMA CommitContents ==
    ASSUME TypeOK, LockHeld, ContentsStaged, NEW r \in Request, ServerCommit(r)
    PROVE  ContentsStaged'
<1> DEFINE i == IdentityOf(call[r])
           old == Part(call, db, i)
           now == Seen(r, i)
<1>1. /\ db' = View(r) /\ call' = call /\ clock' = clock /\ pc' = pc /\ got' = got
      /\ ins' = [ins EXCEPT ![r] = NoRows] /\ del' = [del EXCEPT ![r] = NoRows]
      /\ tx' = [tx EXCEPT ![r] = "committed"] /\ tx[r] = "committing"
  BY DEF ServerCommit, EndSession
<1>2. holder[Key(r)] = r /\ pc[r] \in {"commit", "failed"}
  BY <1>1 DEF LockHeld
<1>3. Final(call, i, clock, old, now)
  BY <1>1, StagedAt DEF Staged
<1>4. Part(call, db', i) = now
  BY <1>1 DEF View, Seen
<1>5. ASSUME NEW j \in Identity, j # i
      PROVE  Part(call, db', j) = Part(call, db, j)
  BY <1>5, CommitElsewhere
<1> HIDE DEF i, old, now
<1>6. ASSUME NEW j \in Identity
      PROVE  Sound(call, db', j)
  <2>1. CASE j = i
    <3>1. now.datasets \subseteq db'.datasets
      BY <1>4 DEF Part
    <3>2. QED
      BY <1>3, <1>4, <2>1, <3>1 DEF Final, Sound
  <2>2. CASE j # i
    <3>1. Part(call, db', j) = Part(call, db, j) /\ Sound(call, db, j)
      BY <1>5, <2>2 DEF ContentsStaged, AllSound
    <3>2. CASE Part(call, db, j) = NoRows
      BY <3>1, <3>2 DEF Sound
    <3>3. ASSUME NEW d, At(call, d, j), Part(call, db, j) = Filled(call, d, d.by)
          PROVE  Sound(call, db', j)
      <4>1. d \in Part(call, db', j).datasets
        BY <3>1, <3>3 DEF Filled
      <4>2. d \in db'.datasets
        BY <4>1 DEF Part
      <4>3. QED
        BY <3>1, <3>3, <4>2 DEF Sound
    <3>4. QED
      BY <3>1, <3>2, <3>3 DEF Sound
  <2>3. QED
    BY <2>1, <2>2
<1>7. ASSUME NEW d \in db'.datasets
      PROVE  d.at <= clock
  <2> DEFINE j == <<d.provider, d.dataset>>
  <2>1. j \in Identity /\ d \in Part(call, db', j).datasets
    <3>1. d \in DatasetRow
      BY <1>1, ViewType DEF Rows
    <3>2. QED
      BY <3>1 DEF DatasetRow, Identity, Part
  <2> HIDE DEF j
  <2>2. CASE j = i
    BY <1>3, <1>4, <2>1, <2>2 DEF Final, Filled, NoRows
  <2>3. CASE j # i
    <3>1. d \in Part(call, db, j).datasets
      BY <1>5, <2>1, <2>3
    <3>2. QED
      BY <3>1 DEF Part, ContentsStaged
  <2>4. QED
    BY <2>2, <2>3
<1>8. ASSUME NEW q \in Request, NEW j \in Identity, j # IdentityOf(call[q])
      PROVE  Part(call, ins'[q], j) = NoRows /\ Part(call, del'[q], j) = NoRows
  <2>1. Part(call, NoRows, j) = NoRows
    BY ConfinedNone DEF Local
  <2>2. /\ ins'[q] = ins[q] \/ ins'[q] = NoRows
        /\ del'[q] = del[q] \/ del'[q] = NoRows
    BY <1>1 DEF TypeOK
  <2>3. QED
    BY <1>8, <2>1, <2>2 DEF ContentsStaged
<1>9. ASSUME NEW q \in Request
      PROVE  Staged(call, q, IdentityOf(call[q]), pc'[q], tx'[q], clock,
                    Part(call, db', IdentityOf(call[q])),
                    Part(call, Merge(db', del'[q], ins'[q]), IdentityOf(call[q])),
                    got'[q].rows)
  <2> DEFINE j == IdentityOf(call[q])
  <2>1. CASE q = r
    <3>1. pc'[q] \notin Guarded /\ tx'[q] # "committing"
      BY <1>1, <1>2, <2>1 DEF Guarded, TypeOK
    <3>2. QED
      BY <3>1, StagedQuiet
  <2>2. CASE q # r /\ j = i
    <3>1. Key(q) = Key(r)
      BY <2>2 DEF Key, IdentityOf, i
    <3>2. holder[Key(q)] # q
      BY <1>2, <2>2, <3>1
    <3>3. pc[q] \notin Guarded /\ tx[q] # "committing"
      BY <3>2 DEF LockHeld
    <3>4. pc'[q] \notin Guarded /\ tx'[q] # "committing"
      BY <1>1, <2>2, <3>3 DEF TypeOK
    <3>5. QED
      BY <3>4, StagedQuiet
  <2>3. CASE q # r /\ j # i
    <3>1. j \in Identity
      BY DEF IdentityOf, Identity, TypeOK, AnyCall
    <3>2. /\ pc'[q] = pc[q] /\ tx'[q] = tx[q] /\ got'[q] = got[q]
          /\ ins'[q] = ins[q] /\ del'[q] = del[q]
      BY <1>1, <2>3 DEF TypeOK
    <3>3. Staged(call, q, j, pc[q], tx[q], clock, Part(call, db, j), Seen(q, j), got[q].rows)
      BY StagedAt
    <3> HIDE DEF j
    <3>4. Part(call, db', j) = Part(call, db, j)
      BY <1>5, <2>3, <3>1
    <3>5. Part(call, Merge(db', del[q], ins[q]), j) = Seen(q, j)
      BY <2>3, <3>1, CommitElsewhere DEF i
    <3>6. QED
      BY <3>2, <3>3, <3>4, <3>5 DEF j
  <2>4. QED
    BY <2>1, <2>2, <2>3
<1>10. QED
  BY <1>1, <1>6, <1>7, <1>8, <1>9 DEF ContentsStaged, AllSound, Seen

\* Every step keeps what is committed whole, and what is not yet committed
\* determined by it.
LEMMA ContentsKept ==
    ASSUME TypeOK, LockHeld, LockHeld', ContentsStaged, NEW r \in Request, Step(r)
    PROVE  ContentsStaged'
BY LockContents, SelectDatasetContents, InsertDatasetContents, ClearContents,
   FillContents, UpdateContents, DeleteContents, QuietStepContents, CommitContents
   DEF Step, ClientStep, ServerStep, WriterStep

-----------------------------------------------------------------------------
(***************************************************************************)
(* The provider of a dataset.                                              *)
(***************************************************************************)

\* What the last statement before COMMIT leaves: no dataset, or the provider.
LEMMA ReadyProviders ==
    ASSUME TypeOK, ProvidersKept, NEW r \in Request, UpdateDataset(r) \/ DeleteDataset(r)
    PROVE  (\/ DatasetRows(View(r), call[r]) = {}
            \/ \E p \in db.providers \cup ins[r].providers : p.provider = call[r].provider)'
<1>1. CASE UpdateDataset(r)
  <2>1. \E p \in db.providers \cup ins[r].providers : p.provider = call[r].provider
    BY <1>1 DEF UpdateDataset, Go, ProvidersKept, Named
  <2>2. db' = db /\ call' = call /\ ins'[r].providers = ins[r].providers
    <3>1. PICK S, T : Write(r, OnlyDatasets(S), OnlyDatasets(T))
      BY <1>1 DEF UpdateDataset, OnlyDatasets
    <3>2. OnlyDatasets(S).providers = {} /\ OnlyDatasets(T).providers = {}
      BY DEF OnlyDatasets, NoRows
    <3>3. QED
      BY <3>1, <3>2 DEF Write, TypeOK, Rows, Merge
  <2>3. QED
    BY <2>1, <2>2
<1>2. CASE DeleteDataset(r)
  <2> DEFINE found == DatasetRows(View(r), call[r])
             out == [Cascade(View(r), Ids(found)) EXCEPT !.datasets = found]
  <2>1. Write(r, out, NoRows)
    BY <1>2 DEF DeleteDataset
  <2>2. out.datasets = found /\ NoRows.datasets = {}
    BY DEF Cascade, NoRows
  <2> HIDE DEF out
  <2>3. /\ ins'[r].datasets = ins[r].datasets \ found
        /\ del'[r].datasets = del[r].datasets \cup found
        /\ db' = db /\ call' = call
    BY <2>1, <2>2 DEF Write, TypeOK, Merge
  <2>4. View(r)'.datasets = View(r).datasets \ found
    BY <2>3 DEF View, Merge
  <2>5. DatasetRows(View(r), call[r])' = {}
    BY <2>3, <2>4 DEF DatasetRows
  <2>6. QED
    BY <2>5
<1>3. QED
  BY <1>1, <1>2

\* Any other step leaves r neither about to commit nor committing, or keeps
\* what it sees.
LEMMA ReadySteps ==
    ASSUME TypeOK, LockHeld, LockHeld', NEW r \in Request, Step(r),
           ~UpdateDataset(r), ~DeleteDataset(r), ~ServerCommit(r)
    PROVE  \/ pc'[r] # "ready" /\ tx'[r] # "committing"
           \/ /\ pc[r] = "ready" \/ tx[r] = "committing"
              /\ db' = db /\ ins' = ins /\ del' = del /\ call' = call
<1> USE DEF Go, Fail, TypeOK
<1>1. CASE Commit(r) \/ Ack(r) \/ GiveUp(r) \/ ServerAbort(r) \/ Rollback(r)
  BY <1>1 DEF Commit, Ack, GiveUp, ServerAbort, Rollback, EndSession, server
<1>2. ASSUME pc'[r] \notin {"ready", "commit", "failed"}
      PROVE  pc'[r] # "ready" /\ tx'[r] # "committing"
  BY <1>2 DEF LockHeld
<1>3. CASE AdvisoryLock(r) \/ InsertProvider(r) \/ SelectProvider(r) \/ SelectDataset(r)
  <2>1. pc'[r] \notin {"ready", "commit", "failed"}
    BY <1>3 DEF AdvisoryLock, InsertProvider, SelectProvider, SelectDataset
  <2>2. QED
    BY <1>2, <2>1
<1>4. CASE InsertDataset(r) \/ ClearObservations(r) \/ ClearDimensions(r)
  <2>1. pc'[r] \notin {"ready", "commit", "failed"}
    BY <1>4 DEF InsertDataset, ClearObservations, ClearDimensions
  <2>2. QED
    BY <1>2, <2>1
<1>5. CASE InsertStructure(r) \/ CopyObservations(r) \/ DeleteObservations(r)
  <2>1. pc'[r] \notin {"ready", "commit", "failed"}
    BY <1>5 DEF InsertStructure, CopyObservations, DeleteObservations
  <2>2. QED
    BY <1>2, <2>1
<1>6. CASE ReaderStep(r)
  <2>1. CASE ReadSummary(r) \/ ReadDimensions(r) \/ ReadCategories(r) \/ ReadCells(r) \/ ReadBatch(r)
    <3>1. pc'[r] \notin {"ready", "commit", "failed"}
      BY <2>1 DEF ReadSummary, ReadDimensions, ReadCategories, ReadCells, ReadBatch
    <3>2. QED
      BY <1>2, <3>1
  <2>2. CASE Finish(r) \/ GetSummary(r) \/ ListDatasets(r) \/ ListProviders(r)
    <3>1. pc'[r] \notin {"ready", "commit", "failed"}
      BY <2>2 DEF Finish, GetSummary, ListDatasets, ListProviders, Answer
    <3>2. QED
      BY <1>2, <3>1
  <2>3. QED
    BY <1>6, <2>1, <2>2 DEF ReaderStep
<1>7. CASE Begin(r)
  <2>1. pc'[r] \notin {"ready", "commit", "failed"}
    BY <1>7 DEF Begin, FirstPc
  <2>2. QED
    BY <1>2, <2>1
<1>8. QED
  BY <1>1, <1>3, <1>4, <1>5, <1>6, <1>7 DEF Step, ClientStep, ServerStep, WriterStep

\* A dataset is committed with its provider, or after it.
LEMMA ProvidersPresentStep ==
    ASSUME TypeOK, LockHeld, LockHeld', ProvidersKept, ContentsStaged, ProvidersPresent,
           NEW r \in Request, Step(r)
    PROVE  ProvidersPresent'
<1> DEFINE Present(q) == \/ DatasetRows(View(q), call[q]) = {}
                         \/ \E p \in db.providers \cup ins[q].providers :
                               p.provider = call[q].provider
<1>1. /\ call' = call
      /\ \A q \in Request \ {r} : /\ pc'[q] = pc[q] /\ tx'[q] = tx[q]
                                  /\ ins'[q] = ins[q] /\ del'[q] = del[q]
      /\ db' = db \/ ServerCommit(r)
  BY Frame
<1>2. CASE ~ServerCommit(r)
  <2>1. ASSUME NEW q \in Request \ {r}, pc'[q] = "ready" \/ tx'[q] = "committing"
        PROVE  Present(q)'
    BY <1>1, <1>2, <2>1 DEF ProvidersPresent, View
  <2>2. ASSUME pc'[r] = "ready" \/ tx'[r] = "committing"
        PROVE  Present(r)'
    <3>1. CASE UpdateDataset(r) \/ DeleteDataset(r)
      BY <3>1, ReadyProviders
    <3>2. CASE ~UpdateDataset(r) /\ ~DeleteDataset(r)
      <4>1. /\ pc[r] = "ready" \/ tx[r] = "committing"
            /\ db' = db /\ ins' = ins /\ del' = del /\ call' = call
        BY <1>2, <2>2, <3>2, ReadySteps
      <4>2. QED
        BY <4>1 DEF ProvidersPresent, View
    <3>3. QED
      BY <3>1, <3>2
  <2>3. QED
    BY <1>1, <1>2, <2>1, <2>2 DEF ProvidersPresent
<1>3. CASE ServerCommit(r)
  <2> DEFINE i == IdentityOf(call[r])
  <2>1. /\ db' = View(r) /\ pc' = pc /\ tx'[r] = "committed" /\ tx[r] = "committing"
        /\ db'.providers = db.providers \cup ins[r].providers
    BY <1>3 DEF ServerCommit, EndSession, TypeOK, View, Merge, ProvidersKept
  <2>2. holder[Key(r)] = r /\ pc[r] \in {"commit", "failed"}
    BY <2>1 DEF LockHeld
  <2>3. ASSUME NEW j \in Identity, j # i
        PROVE  Part(call, db', j) = Part(call, db, j)
    BY <1>3, <2>3, CommitElsewhere
  <2>4. ASSUME NEW d \in db'.datasets
        PROVE  \E p \in db'.providers : p.provider = d.provider
    <3> DEFINE j == <<d.provider, d.dataset>>
    <3>1. j \in Identity
      BY <2>1, ViewType DEF Rows, DatasetRow, Identity
    <3>2. CASE j = i
      <4>1. d \in DatasetRows(View(r), call[r]) /\ d.provider = call[r].provider
        BY <2>1, <3>2 DEF DatasetRows, IdentityOf
      <4>2. QED
        BY <2>1, <4>1 DEF ProvidersPresent
    <3>3. CASE j # i
      <4>1. d \in Part(call, db', j).datasets
        BY DEF Part
      <4>2. d \in Part(call, db, j).datasets
        BY <2>3, <3>1, <3>3, <4>1
      <4>3. d \in db.datasets
        BY <4>2 DEF Part
      <4>4. QED
        BY <2>1, <4>3 DEF ProvidersPresent
    <3>4. QED
      BY <3>2, <3>3
  <2>5. ASSUME NEW q \in Request, pc'[q] = "ready" \/ tx'[q] = "committing"
        PROVE  Present(q)'
    <3> DEFINE j == IdentityOf(call[q])
    <3>1. q # r
      BY <2>1, <2>2, <2>5
    <3>2. holder[Key(q)] = q
      BY <1>1, <2>5, <3>1 DEF LockHeld, Guarded
    <3>3. j # i
      BY <2>2, <3>1, <3>2 DEF Key, IdentityOf
    <3>4. j \in Identity
      BY DEF IdentityOf, Identity, TypeOK, AnyCall
    <3>5. Part(call, Merge(db', del[q], ins[q]), j) = Part(call, Merge(db, del[q], ins[q]), j)
      BY <1>3, <3>3, <3>4, CommitElsewhere DEF Seen
    <3>6. Merge(db', del[q], ins[q]) \in Rows /\ Merge(db, del[q], ins[q]) \in Rows
      BY <2>1, ViewType, MergeType DEF TypeOK
    <3>7. DatasetRows(Merge(db', del[q], ins[q]), call[q])
            = DatasetRows(Merge(db, del[q], ins[q]), call[q])
      BY <3>5, <3>6, SelectPart
    <3>8. Present(q)
      BY <1>1, <2>5, <3>1 DEF ProvidersPresent
    <3>9. QED
      BY <1>1, <2>1, <3>1, <3>7, <3>8 DEF View
  <2>6. QED
    BY <2>4, <2>5 DEF ProvidersPresent
<1>4. QED
  BY <1>2, <1>3

-----------------------------------------------------------------------------
(***************************************************************************)
(* Readers.                                                                *)
(***************************************************************************)

\* The statements of a read.
LEMMA LoadStep ==
    ASSUME TypeOK, ContentsStaged, ReadersStaged, NEW r \in Request,
           \/ ReadSummary(r) \/ ReadDimensions(r) \/ ReadCategories(r)
           \/ ReadCells(r) \/ ReadBatch(r)
    PROVE  ReaderStaged(r)'
<1>g. got[r] \in Got /\ snap[r] \in Rows
  BY DEF TypeOK
<1>r. ReaderStaged(r)
  BY DEF ReadersStaged
<1>f. ASSUME NEW from, NEW status \in {"not_found", "error", "invalid_selection"},
             Fail(r, from, status)
      PROVE  ReaderStaged(r)'
  BY <1>f DEF Fail, Go, TypeOK, ReaderStaged, Loading, FirstRead
<1>1. CASE ReadSummary(r)
  <2> DEFINE found == DatasetRows(db, call[r])
             codes == ProviderRows(db, call[r])
  <2>1. CASE Fail(r, "summary", "not_found")
    BY <1>f, <2>1
  <2>2. CASE /\ Go(r, "summary", "dimensions")
             /\ got' = [got EXCEPT ![r].rows = found, ![r].codes = codes]
             /\ UNCHANGED result
    <3>1. pc[r] = "summary" /\ pc'[r] = "dimensions" /\ call' = call /\ snap'[r] = db
      BY <1>1, <2>2 DEF ReadSummary, Go, TypeOK
    <3> HIDE DEF found, codes
    <3>2. got'[r].rows = found /\ got'[r].cells = {}
      <4>1. got[r] = NoGot
        BY <1>r, <3>1 DEF ReaderStaged, FirstRead
      <4>2. got'[r] = [got[r] EXCEPT !.rows = found, !.codes = codes]
        BY <2>2 DEF TypeOK
      <4>3. QED
        BY <1>g, <4>1, <4>2 DEF NoGot, Got
    <3>3. AllSound(call', snap'[r])
      BY <3>1 DEF ContentsStaged
    <3>4. Loaded(call'[r], pc'[r], snap'[r], got'[r])
      BY <1>r, <3>1, <3>2 DEF Loaded, ReaderStaged, found
    <3>5. QED
      BY <1>r, <2>2, <3>1, <3>3, <3>4 DEF ReaderStaged, FirstRead
  <2>3. QED
    BY <1>1, <2>1, <2>2 DEF ReadSummary
<1> DEFINE ids == Ids(got[r].rows)
           kind == call[r].kind
<1>u. ASSUME ReadOnly PROVE call' = call /\ snap' = snap
  BY <1>u DEF ReadOnly
<1>k. ASSUME pc[r] \in Loading, call' = call, snap' = snap, pc'[r] \in Loading,
             result' = result, got'[r].rows = got[r].rows,
             Loaded(call[r], pc'[r], snap[r], got'[r]),
             pc'[r] = "cells" => kind = "data"
      PROVE  ReaderStaged(r)'
  <2>1. AllSound(call', snap'[r])
    BY <1>r, <1>k DEF ReaderStaged
  <2>2. result'[r] # "ok"
    BY <1>r, <1>k DEF ReaderStaged, Loading
  <2>3. pc'[r] \notin FirstRead
    BY <1>k DEF Loading, FirstRead
  <2>4. QED
    BY <1>k, <2>1, <2>2, <2>3 DEF ReaderStaged, FirstRead
<1>2. CASE ReadDimensions(r)
  <2> DEFINE dims == DimensionRows(snap[r], ids)
  <2>1. /\ pc[r] = "dimensions" /\ pc'[r] = "categories" /\ result' = result
        /\ got'[r] = [got[r] EXCEPT !.dims = dims]
    BY <1>2 DEF ReadDimensions, Go, TypeOK, Snapshot
  <2>2. Loaded(call[r], "dimensions", snap[r], got[r])
    BY <1>r, <2>1 DEF ReaderStaged, Loading
  <2>3. /\ got'[r].rows = got[r].rows /\ got'[r].cells = got[r].cells
        /\ got'[r].dims = dims
    <3> HIDE DEF dims
    <3>1. QED
      BY <1>g, <2>1 DEF Got
  <2>4. Loaded(call[r], "categories", snap[r], got'[r])
    BY <2>2, <2>3 DEF Loaded
  <2>5. QED
    BY <1>2, <1>k, <1>u, <2>1, <2>3, <2>4 DEF ReadDimensions, Loading
<1>3. CASE ReadCategories(r)
  <2> DEFINE cats == CategoryRows(snap[r], ids)
             left == IF kind = "query" THEN call[r].cells ELSE {}
             next == CASE kind = "structure" -> "finish"
                       [] kind = "data" -> "cells"
                       [] OTHER -> IF call[r].cells = {} THEN "finish" ELSE "batch"
  <2>1. CASE Fail(r, "categories", "error") \/ Fail(r, "categories", "invalid_selection")
    BY <1>f, <2>1
  <2>2. CASE /\ Go(r, "categories", next)
             /\ got' = [got EXCEPT ![r].cats = cats, ![r].left = left]
             /\ UNCHANGED result
    <3>1. /\ pc[r] = "categories" /\ pc'[r] = next /\ result' = result
          /\ got'[r] = [got[r] EXCEPT !.cats = cats, !.left = left]
      BY <2>2 DEF Go, TypeOK
    <3>2. Loaded(call[r], "categories", snap[r], got[r])
      BY <1>r, <3>1 DEF ReaderStaged, Loading
    <3>3. kind \in {"structure", "data", "query"}
      BY <3>2 DEF Loaded
    <3>4. /\ got'[r].rows = got[r].rows /\ got'[r].dims = got[r].dims
          /\ got'[r].cells = got[r].cells /\ got'[r].cats = cats /\ got'[r].left = left
      <4> DEFINE g == [got[r] EXCEPT !.cats = cats]
      <4> HIDE DEF cats, left
      <4>1. /\ g.rows = got[r].rows /\ g.dims = got[r].dims /\ g.codes = got[r].codes
            /\ g.cells = got[r].cells /\ g.cats = cats
            /\ DOMAIN g = DOMAIN got[r]
        BY <1>g DEF Got
      <4>2. got'[r] = [g EXCEPT !.left = left]
        BY <3>1
      <4>3. DOMAIN got[r] = {"rows", "codes", "dims", "cats", "cells", "left"}
        BY <1>g DEF Got
      <4> HIDE DEF g
      <4>4. QED
        BY <4>1, <4>2, <4>3
    <3>5. CASE kind = "structure"
      <4>1. next = "finish"
        BY <3>5
      <4>2. Loaded(call[r], "finish", snap[r], got'[r])
        BY <3>2, <3>4, <3>5 DEF Loaded
      <4>3. QED
        BY <1>3, <1>k, <1>u, <3>1, <3>4, <4>1, <4>2 DEF ReadCategories, Loading
    <3>6. CASE kind = "data"
      <4>1. next = "cells"
        BY <3>6
      <4>2. Loaded(call[r], "cells", snap[r], got'[r])
        BY <3>2, <3>4, <3>6 DEF Loaded
      <4>3. QED
        BY <1>3, <1>k, <1>u, <3>1, <3>4, <3>6, <4>1, <4>2 DEF ReadCategories, Loading
    <3>7. CASE kind = "query"
      <4>1. left = call[r].cells
        BY <3>7
      <4>2. CASE call[r].cells = {}
        <5>1. next = "finish"
          BY <3>7, <4>2
        <5>2. {o \in ObservationRows(snap[r], ids) : o.cell \in call[r].cells} = {}
          BY <4>2
        <5>3. Loaded(call[r], "finish", snap[r], got'[r])
          BY <3>2, <3>4, <3>7, <5>2 DEF Loaded
        <5>4. QED
          BY <1>3, <1>k, <1>u, <3>1, <3>4, <5>1, <5>3 DEF ReadCategories, Loading
      <4>3. CASE call[r].cells # {}
        <5>1. next = "batch"
          BY <3>7, <4>3
        <5>2. {o \in ObservationRows(snap[r], ids) : o.cell \in call[r].cells \ left} = {}
          BY <4>1
        <5>3. Loaded(call[r], "batch", snap[r], got'[r])
          BY <3>2, <3>4, <3>7, <4>1, <5>2 DEF Loaded
        <5>4. QED
          BY <1>3, <1>k, <1>u, <3>1, <3>4, <5>1, <5>3 DEF ReadCategories, Loading
      <4>4. QED
        BY <4>2, <4>3
    <3>8. QED
      BY <3>3, <3>5, <3>6, <3>7
  <2>3. QED
    BY <1>3, <2>1, <2>2 DEF ReadCategories, Snapshot
<1>4. CASE ReadCells(r)
  <2> DEFINE cells == ObservationRows(snap[r], ids)
  <2>1. /\ pc[r] = "cells" /\ pc'[r] = "finish" /\ result' = result
        /\ got'[r] = [got[r] EXCEPT !.cells = cells]
    BY <1>4 DEF ReadCells, Go, TypeOK, Snapshot
  <2>2. Loaded(call[r], "cells", snap[r], got[r]) /\ kind = "data"
    BY <1>r, <2>1 DEF ReaderStaged, Loading
  <2>3. /\ got'[r].rows = got[r].rows /\ got'[r].cells = cells
        /\ got'[r].dims = got[r].dims /\ got'[r].cats = got[r].cats
    <3> HIDE DEF cells
    <3>1. QED
      BY <1>g, <2>1 DEF Got
  <2>4. Loaded(call[r], "finish", snap[r], got'[r])
    BY <2>2, <2>3 DEF Loaded
  <2>5. QED
    BY <1>4, <1>k, <1>u, <2>1, <2>3, <2>4 DEF ReadCells, Loading
<1>5. CASE ReadBatch(r)
  <2> DEFINE rows == ObservationRows(snap[r], ids)
             c == call[r]
  <2>1. PICK batch \in SUBSET got[r].left :
          /\ Go(r, "batch", IF batch = got[r].left THEN "finish" ELSE "batch")
          /\ got' = [got EXCEPT
                       ![r].left = @ \ batch,
                       ![r].cells = @ \cup {o \in rows : o.cell \in batch}]
    BY <1>5 DEF ReadBatch, Snapshot
  <2> DEFINE left == got[r].left \ batch
             cells == got[r].cells \cup {o \in rows : o.cell \in batch}
  <2>2. /\ pc[r] = "batch" /\ result' = result
        /\ pc'[r] = IF batch = got[r].left THEN "finish" ELSE "batch"
    BY <1>5, <2>1 DEF ReadBatch, Go, TypeOK
  <2>3. Loaded(c, "batch", snap[r], got[r])
    BY <1>r, <2>2 DEF ReaderStaged, Loading
  <2>4. /\ got'[r].rows = got[r].rows /\ got'[r].dims = got[r].dims
        /\ got'[r].cats = got[r].cats /\ got'[r].left = left /\ got'[r].cells = cells
    <3>1. got'[r] = [got[r] EXCEPT !.left = left, !.cells = cells]
      BY <1>g, <2>1 DEF TypeOK, Got
    <3> DEFINE g == [got[r] EXCEPT !.left = left]
    <3> HIDE DEF left, cells
    <3>2. /\ g.rows = got[r].rows /\ g.dims = got[r].dims /\ g.cats = got[r].cats
          /\ g.left = left /\ DOMAIN g = DOMAIN got[r]
      BY <1>g DEF Got
    <3>3. DOMAIN got[r] = {"rows", "codes", "dims", "cats", "cells", "left"}
      BY <1>g DEF Got
    <3>4. got'[r] = [g EXCEPT !.cells = cells]
      BY <3>1
    <3> HIDE DEF g
    <3>5. QED
      BY <3>2, <3>3, <3>4
  <2>5. /\ got[r].left \subseteq c.cells /\ c.kind = "query"
        /\ got[r].cells = {o \in rows : o.cell \in c.cells \ got[r].left}
    BY <2>3 DEF Loaded
  <2>6. cells = {o \in rows : o.cell \in c.cells \ left} /\ left \subseteq c.cells
    <3> HIDE DEF rows, c
    <3>1. QED
      BY <2>5
  <2>7. CASE batch = got[r].left
    <3>1. cells = {o \in rows : o.cell \in c.cells}
      BY <2>6, <2>7
    <3>2. Loaded(c, "finish", snap[r], got'[r])
      BY <2>3, <2>4, <2>5, <3>1 DEF Loaded
    <3>3. QED
      BY <1>5, <1>k, <1>u, <2>2, <2>4, <2>7, <3>2 DEF ReadBatch, Loading
  <2>8. CASE batch # got[r].left
    <3>1. Loaded(c, "batch", snap[r], got'[r])
      BY <2>3, <2>4, <2>6 DEF Loaded
    <3>2. QED
      BY <1>5, <1>k, <1>u, <2>2, <2>4, <2>8, <3>1 DEF ReadBatch, Loading
  <2>9. QED
    BY <2>7, <2>8
<1>6. QED
  BY <1>1, <1>2, <1>3, <1>4, <1>5

\* Any step of r keeps what its read has loaded.
LEMMA ReadersStep ==
    ASSUME TypeOK, LockHeld, LockHeld', ContentsStaged, ReadersStaged, NEW r \in Request,
           Step(r)
    PROVE  ReadersStaged'
<1>r. ReaderStaged(r)
  BY DEF ReadersStaged
<1>1. ASSUME NEW q \in Request \ {r}
      PROVE  ReaderStaged(q)'
  <2>1. /\ call' = call /\ pc'[q] = pc[q] /\ got'[q] = got[q] /\ result'[q] = result[q]
        /\ snap'[q] = snap[q]
    BY Frame
  <2>2. ReaderStaged(q)
    BY DEF ReadersStaged
  <2>3. QED
    BY <2>1, <2>2 DEF ReaderStaged
<1>2. ReaderStaged(r)'
  <2>1. CASE ReadSummary(r) \/ ReadDimensions(r) \/ ReadCategories(r) \/ ReadCells(r) \/ ReadBatch(r)
    BY <2>1, LoadStep
  <2>2. ASSUME pc'[r] \notin Loading, pc'[r] \notin FirstRead, result'[r] = "ok" => pc'[r] = "done"
        PROVE  ReaderStaged(r)'
    BY <2>2 DEF ReaderStaged, Loading, FirstRead
  <2>3. ASSUME pc[r] # "done", pc'[r] \notin Loading, pc'[r] \notin FirstRead,
               result'[r] = result[r]
        PROVE  ReaderStaged(r)'
    BY <1>r, <2>2, <2>3 DEF ReaderStaged
  <2>4. CASE AdvisoryLock(r) \/ InsertProvider(r) \/ ClearObservations(r) \/ ClearDimensions(r)
             \/ UpdateDataset(r) \/ DeleteObservations(r)
    <3>1. /\ pc[r] # "done" /\ result'[r] = result[r]
          /\ pc'[r] \in {"wipe", "provider", "spelling", "cascade", "structure", "ready", "remove"}
      BY <2>4 DEF AdvisoryLock, InsertProvider, ClearObservations, ClearDimensions,
                  UpdateDataset, DeleteObservations, Go, TypeOK
    <3>2. QED
      BY <2>3, <3>1 DEF Loading, FirstRead
  <2>5. CASE SelectProvider(r) \/ SelectDataset(r) \/ InsertDataset(r)
    <3>1. /\ pc[r] # "done"
          /\ result'[r] = result[r] \/ result'[r] # "ok"
          /\ pc'[r] \in {"dataset", "insert", "clear", "structure", "rollback"}
      BY <2>5 DEF SelectProvider, SelectDataset, InsertDataset, Go, Fail, TypeOK
    <3>2. QED
      BY <1>r, <2>2, <3>1 DEF Loading, FirstRead, ReaderStaged
  <2>6. CASE InsertStructure(r) \/ CopyObservations(r) \/ DeleteDataset(r)
    <3>1. /\ pc[r] # "done"
          /\ result'[r] = result[r] \/ result'[r] # "ok"
          /\ pc'[r] \in {"observations", "stamp", "rollback", "ready"}
      BY <2>6 DEF InsertStructure, CopyObservations, DeleteDataset, Go, Fail, TypeOK
    <3>2. QED
      BY <1>r, <2>2, <3>1 DEF Loading, FirstRead, ReaderStaged
  <2>7. CASE Commit(r) \/ Ack(r) \/ Rollback(r) \/ GiveUp(r)
    <3>1. /\ pc[r] # "done" /\ result'[r] = result[r]
          /\ pc'[r] \in {"commit", "done", "failed"}
      BY <2>7 DEF Commit, Ack, Rollback, GiveUp, Go, TypeOK
    <3>2. QED
      BY <2>3, <3>1 DEF Loading, FirstRead
  <2>8. CASE Begin(r)
    <3>1. /\ pc[r] = "queued" /\ result'[r] = result[r] /\ got'[r] = got[r] /\ call' = call
          /\ pc'[r] = FirstPc(call[r].kind)
      BY <2>8 DEF Begin, Go, TypeOK
    <3>2. /\ pc'[r] \in {"lock", "summary", "statement"}
          /\ pc'[r] = "summary" => call[r].kind \in {"structure", "data", "query"}
      BY <3>1 DEF FirstPc
    <3>3. QED
      BY <1>r, <3>1, <3>2 DEF Loading, FirstRead, ReaderStaged
  <2>9. CASE Finish(r) \/ GetSummary(r) \/ ListDatasets(r) \/ ListProviders(r)
    <3>1. pc'[r] = "done"
      BY <2>9 DEF Finish, GetSummary, ListDatasets, ListProviders, Answer, Go, TypeOK
    <3>2. QED
      BY <2>2, <3>1 DEF Loading, FirstRead
  <2>10. CASE ServerCommit(r) \/ ServerAbort(r)
    <3>1. pc' = pc /\ result' = result /\ pc[r] \in {"commit", "failed"}
      BY <2>10 DEF ServerCommit, ServerAbort, LockHeld
    <3>2. QED
      BY <2>3, <3>1 DEF Loading, FirstRead
  <2>11. QED
    BY <2>1, <2>4, <2>5, <2>6, <2>7, <2>8, <2>9, <2>10
    DEF Step, ClientStep, ServerStep, WriterStep, ReaderStep
<1>3. QED
  BY <1>1, <1>2 DEF ReadersStaged

-----------------------------------------------------------------------------
(***************************************************************************)
(* The inductive invariant.                                                *)
(***************************************************************************)
Safe == /\ TypeOK /\ LockHeld /\ ProvidersKept
        /\ ContentsStaged /\ ProvidersPresent /\ ReadersStaged

LEMMA SafeInit == Init => Safe
<1> SUFFICES ASSUME Init PROVE Safe
  OBVIOUS
<1>1. TypeOK
  <2>1. NoGot \in Got /\ "queued" \in Pc /\ None \in Result
    BY DEF NoGot, Got, Pc, Result
  <2>2. QED
    BY <2>1, NoRowsType, CallAssumption DEF Init, TypeOK
<1>2. LockHeld
  BY DEF Init, LockHeld, Guarded, Written
<1>3. ProvidersKept
  BY DEF Init, ProvidersKept, Named, NoRows
<1>4. ContentsStaged
  <2>1. \A i \in Identity : Part(call, NoRows, i) = NoRows
    BY ConfinedNone DEF Local
  <2>2. \A r \in Request, i \in Identity :
           Part(call, ins[r], i) = NoRows /\ Part(call, del[r], i) = NoRows
    BY <2>1 DEF Init
  <2>3. \A r \in Request : pc[r] \notin Guarded /\ tx[r] # "committing"
    BY DEF Init, Guarded
  <2>4. AllSound(call, db)
    BY <2>1 DEF Init, AllSound, Sound
  <2>5. db.datasets = {}
    BY DEF Init, NoRows
  <2>6. QED
    BY <2>2, <2>3, <2>4, <2>5, StagedQuiet DEF ContentsStaged
<1>5. ProvidersPresent
  BY DEF Init, ProvidersPresent, NoRows
<1>6. ReadersStaged
  BY DEF Init, ReadersStaged, ReaderStaged, Loading, FirstRead, None
<1>7. QED
  BY <1>1, <1>2, <1>3, <1>4, <1>5, <1>6 DEF Safe

LEMMA SafeStep == Safe /\ [Next]_vars => Safe'
<1> SUFFICES ASSUME Safe, [Next]_vars PROVE Safe'
  OBVIOUS
<1> USE DEF Safe
<1>1. TypeOK'
  BY TypeStep
<1>2. CASE UNCHANGED vars
  <2>1. /\ db' = db /\ clock' = clock /\ holder' = holder /\ tx' = tx /\ ins' = ins
        /\ del' = del /\ snap' = snap /\ call' = call /\ pc' = pc /\ got' = got
        /\ result' = result
    BY <1>2 DEF vars
  <2>2. LockHeld' /\ ProvidersKept'
    BY <2>1 DEF LockHeld, ProvidersKept, Written, Key
  <2>3. ContentsStaged'
    BY <2>1 DEF ContentsStaged, Seen
  <2>4. ProvidersPresent' /\ ReadersStaged'
    BY <2>1 DEF ProvidersPresent, View, ReadersStaged, ReaderStaged
  <2>5. QED
    BY <1>1, <2>2, <2>3, <2>4
<1>3. ASSUME NEW r \in Request, Step(r)
      PROVE  Safe'
  <2>1. LockHeld'
    BY <1>3, LockStep
  <2>2. ProvidersKept'
    BY <1>3, ProvidersStep
  <2>3. ContentsStaged'
    BY <1>3, <2>1, ContentsKept
  <2>4. ProvidersPresent'
    BY <1>3, <2>1, ProvidersPresentStep
  <2>5. ReadersStaged'
    BY <1>3, <2>1, ReadersStep
  <2>6. QED
    BY <1>1, <2>1, <2>2, <2>3, <2>4, <2>5
<1>4. CASE Next
  BY <1>2, <1>3, <1>4 DEF Next, Terminating, Step
<1>5. QED
  BY <1>2, <1>4

\* The invariant holds of every behaviour.
LEMMA SafeAlways == Spec => []Safe
<1>1. QED
  BY SafeInit, SafeStep, PTL DEF Spec

-----------------------------------------------------------------------------
(***************************************************************************)
(* What follows from it.                                                   *)
(***************************************************************************)

\* Two transactions never hold uncommitted changes of one identity's rows,
\* whether or not their requests still wait for them: advisoryKey is a
\* function of the identity, and the lock is held until the session ends.
THEOREM OneWriter == Spec => []OneWriterPerIdentity
<1>1. Safe => OneWriterPerIdentity
  <2> SUFFICES ASSUME Safe, NEW q \in Request, NEW r \in Request, Changed(q), Changed(r),
                      call[q].provider = call[r].provider, call[q].dataset = call[r].dataset
               PROVE  q = r
    BY DEF OneWriterPerIdentity
  <2>1. ASSUME NEW s \in Request, Changed(s) PROVE holder[Key(s)] = s
    <3>1. ins[s] = NoRows => [ins[s] EXCEPT !.providers = {}] = NoRows
      BY DEF NoRows
    <3>2. Written(s)
      BY <2>1, <3>1 DEF Changed, Written
    <3>3. QED
      BY <3>2 DEF Safe, LockHeld
  <2>2. Key(q) = Key(r)
    BY DEF Key
  <2>3. QED
    BY <2>1, <2>2
<1>2. QED
  BY <1>1, SafeAlways, PTL

\* No committed row outlives the row it refers to, though observations have
\* no foreign key: Replace and Delete remove them first, and hold the lock.
THEOREM Referential == Spec => []NoOrphans
<1>1. Safe => NoOrphans
  <2> SUFFICES ASSUME Safe PROVE NoOrphans
    OBVIOUS
  <2> USE DEF Safe
  <2>1. ASSUME NEW i \in Identity,
               \/ Part(call, db, i).observations # {}
               \/ Part(call, db, i).dimensions # {}
               \/ Part(call, db, i).categories # {}
        PROVE  \E d \in db.datasets : /\ At(call, d, i)
                                      /\ Part(call, db, i) = Filled(call, d, d.by)
    BY <2>1 DEF ContentsStaged, AllSound, Sound, NoRows
  <2>2. \A s \in Request : IdentityOf(call[s]) \in Identity
    BY DEF IdentityOf, Identity, TypeOK, AnyCall
  <2>3. ASSUME NEW o \in db.observations PROVE o.dataset \in Ids(db.datasets)
    <3> DEFINE i == IdentityOf(call[o.dataset])
    <3>1. i \in Identity
      BY <2>2 DEF TypeOK, Rows, ObservationRow
    <3>2. o \in Part(call, db, i).observations
      BY DEF Part
    <3> HIDE DEF i
    <3>3. PICK d \in db.datasets : Part(call, db, i) = Filled(call, d, d.by)
      BY <2>1, <3>1, <3>2
    <3>4. o \in Obs(call, d, d.by)
      BY <3>2, <3>3 DEF Filled
    <3>5. QED
      BY <3>4 DEF Obs, Ids
  <2>4. ASSUME NEW m \in db.dimensions PROVE m.dataset \in Ids(db.datasets)
    <3> DEFINE i == IdentityOf(call[m.dataset])
    <3>1. i \in Identity
      BY <2>2 DEF TypeOK, Rows, DimensionRow
    <3>2. m \in Part(call, db, i).dimensions
      BY DEF Part
    <3> HIDE DEF i
    <3>3. PICK d \in db.datasets : Part(call, db, i) = Filled(call, d, d.by)
      BY <2>1, <3>1, <3>2
    <3>4. m \in Dims(call, d, d.by)
      BY <3>2, <3>3 DEF Filled
    <3>5. QED
      BY <3>4 DEF Dims, Ids
  <2>5. ASSUME NEW g \in db.categories PROVE \E m \in db.dimensions : m.id = g.dimension
    <3> DEFINE i == IdentityOf(call[g.dimension])
    <3>1. i \in Identity
      BY <2>2 DEF TypeOK, Rows, CategoryRow
    <3>2. g \in Part(call, db, i).categories
      BY DEF Part
    <3> HIDE DEF i
    <3>3. PICK d \in db.datasets : Part(call, db, i) = Filled(call, d, d.by)
      BY <2>1, <3>1, <3>2
    <3>4. g \in Cats(call, d.by) /\ Part(call, db, i).dimensions = Dims(call, d, d.by)
      BY <3>2, <3>3 DEF Filled
    <3>5. Part(call, db, i).dimensions \subseteq db.dimensions
      BY DEF Part
    <3>6. \E m \in Dims(call, d, d.by) : m.id = g.dimension
      BY <3>4 DEF Cats, Dims
    <3>7. QED
      BY <3>4, <3>5, <3>6
  <2>6. QED
    BY <2>3, <2>4, <2>5 DEF NoOrphans, ProvidersPresent
<1>2. QED
  BY <1>1, SafeAlways, PTL

\* A committed dataset is whole.
LEMMA WholePart ==
    ASSUME NEW calls, NEW rows \in Rows, AllSound(calls, rows), NEW d \in rows.datasets
    PROVE  /\ At(calls, d, <<d.provider, d.dataset>>)
           /\ Part(calls, rows, <<d.provider, d.dataset>>) = Filled(calls, d, d.by)
           /\ DimensionRows(rows, Ids({d})) = Dims(calls, d, d.by)
           /\ CategoryRows(rows, Ids({d})) = Cats(calls, d.by)
           /\ ObservationRows(rows, Ids({d})) = Obs(calls, d, d.by)
<1> DEFINE i == <<d.provider, d.dataset>>
<1>1. i \in Identity
  BY DEF Rows, DatasetRow, Identity
<1>2. d \in Part(calls, rows, i).datasets
  BY DEF Part
<1> HIDE DEF i
<1>3. PICK e \in rows.datasets : At(calls, e, i) /\ Part(calls, rows, i) = Filled(calls, e, e.by)
  BY <1>1, <1>2 DEF AllSound, Sound, NoRows
<1>4. e = d
  BY <1>2, <1>3 DEF Filled
<1>5. At(calls, d, i) /\ Part(calls, rows, i) = Filled(calls, d, d.by) /\ IdentityOf(calls[d.by]) = i
  BY <1>3, <1>4 DEF At
<1>6. /\ Part(calls, rows, i).dimensions = Dims(calls, d, d.by)
      /\ Part(calls, rows, i).categories = Cats(calls, d.by)
      /\ Part(calls, rows, i).observations = Obs(calls, d, d.by)
  BY <1>5 DEF Filled
<1>7. DimensionRows(rows, Ids({d})) = Dims(calls, d, d.by)
  BY <1>5, <1>6, SelectDimensions
<1>8. CategoryRows(rows, Ids({d})) = Cats(calls, d.by)
  BY <1>5, <1>6, SelectCategories
<1>9. ObservationRows(rows, Ids({d})) = Obs(calls, d, d.by)
  BY <1>5, <1>6, SelectObservations
<1>10. QED
  BY <1>5, <1>7, <1>8, <1>9 DEF i

\* Every committed dataset is what one request submitted, all of it and
\* nothing else, however its writers interleave, fail or are abandoned.
THEOREM Whole == Spec => []WholeDatasets
<1>1. Safe => WholeDatasets
  <2> SUFFICES ASSUME Safe, NEW d \in db.datasets
               PROVE  /\ DimensionRows(db, {d.id}) = Dims(call, d, d.by)
                      /\ CategoryRows(db, {d.id}) = Cats(call, d.by)
                      /\ ObservationRows(db, {d.id}) = Obs(call, d, d.by)
    BY DEF WholeDatasets, Dims, Cats, Obs
  <2>1. db \in Rows /\ AllSound(call, db)
    BY DEF Safe, TypeOK, ContentsStaged
  <2>2. Ids({d}) = {d.id}
    BY DEF Ids
  <2>3. QED
    BY <2>1, <2>2, WholePart
<1>2. QED
  BY <1>1, SafeAlways, PTL

\* What a commit does to a dataset: the ids of rows do not move between
\* identities, and the row of an identity is replaced by one with the same
\* id and a later time, if by another one at all.
LEMMA CommittedRows ==
    ASSUME Safe, [Next]_vars, NEW d \in db.datasets, NEW e \in db'.datasets,
           \/ d.id = e.id
           \/ d.provider = e.provider /\ d.dataset = e.dataset
    PROVE  d.id = e.id /\ (d = e \/ d.at < e.at)
<1> USE DEF Safe
<1>1. CASE db' = db
  <2>1. db \in Rows /\ AllSound(call, db)
    BY DEF TypeOK, ContentsStaged
  <2> DEFINE i == <<d.provider, d.dataset>>
             j == <<e.provider, e.dataset>>
  <2>2. /\ At(call, d, i) /\ Part(call, db, i) = Filled(call, d, d.by)
        /\ At(call, e, j) /\ Part(call, db, j) = Filled(call, e, e.by)
    BY <1>1, <2>1, WholePart
  <2>3. i = j
    BY <2>2 DEF At
  <2> HIDE DEF i, j
  <2>4. d = e
    BY <2>2, <2>3 DEF Filled
  <2>5. QED
    BY <2>4
<1>2. ASSUME NEW r \in Request, ServerCommit(r)
      PROVE  d.id = e.id /\ (d = e \/ d.at < e.at)
  <2> DEFINE k == IdentityOf(call[r])
             i == <<d.provider, d.dataset>>
             j == <<e.provider, e.dataset>>
             old == Part(call, db, k)
             now == Seen(r, k)
  <2>1. db \in Rows /\ db' \in Rows /\ AllSound(call, db) /\ AllSound(call', db') /\ call' = call
    <3>1. TypeOK' /\ LockHeld'
      BY TypeStep, SafeStep
    <3>2. ContentsStaged'
      BY SafeStep
    <3>3. QED
      BY <1>2, <3>1, <3>2 DEF TypeOK, ContentsStaged, ServerCommit, EndSession
  <2>2. /\ At(call, d, i) /\ Part(call, db, i) = Filled(call, d, d.by)
        /\ At(call, e, j) /\ Part(call, db', j) = Filled(call, e, e.by)
    BY <2>1, WholePart
  <2>3. i = j
    BY <2>2 DEF At
  <2>4. j \in Identity
    BY <2>1 DEF Rows, DatasetRow, Identity
  <2>5. CASE j = k
    <3>1. Final(call, k, clock, old, now)
      BY <1>2, StagedAt DEF ServerCommit, Staged
    <3>2. Part(call, db', k) = now
      BY <1>2 DEF ServerCommit, Seen, View
    <3> HIDE DEF i, j, k, now
    <3>3. now.datasets = {e}
      BY <2>2, <2>5, <3>2 DEF Filled
    <3>4. d \in old.datasets
      BY <2>2, <2>3, <2>5 DEF Filled
    <3> HIDE DEF old
    <3>5. SameDataset(e, old) /\ \A f \in old.datasets : f.at < e.at
      BY <3>1, <3>3 DEF Final, NoRows
    <3>6. QED
      BY <3>4, <3>5 DEF SameDataset
  <2>6. CASE j # k
    <3>1. Part(call, db', j) = Part(call, db, j)
      BY <1>2, <2>4, <2>6, CommitElsewhere
    <3> HIDE DEF i, j
    <3>2. d = e
      BY <2>2, <2>3, <3>1 DEF Filled
    <3>3. QED
      BY <3>2
  <2>7. QED
    BY <2>5, <2>6
<1>3. QED
  <2>1. CASE UNCHANGED vars
    BY <1>1, <2>1 DEF vars
  <2>2. CASE Next
    BY <1>1, <1>2, <2>1, <2>2, Frame DEF Next, Terminating, Step
  <2>3. QED
    BY <2>1, <2>2

\* updated_at only goes forward: the stamp is read from the database's clock
\* under the lock, after every earlier writer of the dataset has committed.
THEOREM UpdatedAt == Spec => UpdatedAtAdvances
<1>1. Safe /\ [Next]_vars =>
         [\A d \in db.datasets, e \in db'.datasets : d.id = e.id /\ d # e => d.at < e.at]_db
  BY CommittedRows
<1>2. QED
  BY <1>1, SafeAlways, PTL DEF Spec, UpdatedAtAdvances

\* A provider keeps the spelling of the request that created it, and a
\* dataset the row of the request that created it.
THEOREM Spelling == Spec => SpellingPreserved
<1> DEFINE Kept ==
       /\ db.providers \subseteq db'.providers
       /\ \A p, q \in db'.providers : p.provider = q.provider => p = q
       /\ \A d \in db.datasets, e \in db'.datasets :
            d.provider = e.provider /\ d.dataset = e.dataset => d.id = e.id
<1>1. ASSUME Safe, [Next]_vars PROVE [Kept]_db
  <2>1. \A d \in db.datasets, e \in db'.datasets :
           d.provider = e.provider /\ d.dataset = e.dataset => d.id = e.id
    BY <1>1, CommittedRows
  <2>2. ASSUME NEW r \in Request, ServerCommit(r) PROVE Kept
    <3>1. ProvidersKept /\ ProvidersKept'
      BY <1>1, SafeStep DEF Safe
    <3>2. db.providers \subseteq db'.providers
      BY <2>2, <3>1 DEF ServerCommit, View, Merge, ProvidersKept
    <3>3. \A p, q \in db'.providers : p.provider = q.provider => p = q
      BY <3>1 DEF ProvidersKept
    <3>4. QED
      BY <2>1, <3>2, <3>3
  <2>3. CASE UNCHANGED vars
    BY <2>3 DEF vars
  <2>4. CASE Next
    BY <1>1, <2>2, <2>3, <2>4, Frame DEF Next, Terminating, Step, Safe
  <2>5. QED
    BY <1>1, <2>3, <2>4
<1>2. QED
  BY <1>1, SafeAlways, PTL DEF Spec, SpellingPreserved

\* None of the errors that the code can only report as internal is met.
LEMMA ErrorStep ==
    ASSUME Safe, NEW r \in Request, Step(r), result[r] # "error"
    PROVE  result'[r] # "error"
<1> USE DEF Safe
<1> DEFINE i == IdentityOf(call[r])
           now == Seen(r, i)
<1>v. View(r) \in Rows /\ now = Part(call, View(r), i)
  BY ViewType DEF Seen, View
<1>a. Staged(call, r, i, pc[r], tx[r], clock, Part(call, db, i), now, got[r].rows)
  BY StagedAt
<1>t. result \in [Request -> Result]
  BY DEF TypeOK
<1>1. CASE SelectProvider(r)
  <2>1. pc[r] = "spelling"
    BY <1>1 DEF SelectProvider, Go, Fail
  <2>2. ProviderRows(View(r), call[r]) # {}
    BY <2>1 DEF ProviderRows, View, Merge, ProvidersKept, Named
  <2>3. QED
    BY <1>1, <1>t, <2>2 DEF SelectProvider
<1>2. CASE InsertDataset(r)
  <2>1. pc[r] = "insert"
    BY <1>2 DEF InsertDataset, Go, Fail
  <2>2. now = NoRows
    BY <1>a, <2>1 DEF Staged
  <2>3. DatasetRows(View(r), call[r]) = {}
    <3>1. DatasetRows(View(r), call[r]) = now.datasets
      BY <1>v, SelectPart
    <3>2. QED
      BY <2>2, <3>1 DEF NoRows
  <2>4. QED
    BY <1>2, <1>t, <2>3 DEF InsertDataset
<1>3. CASE InsertStructure(r)
  <2>1. pc[r] = "structure"
    BY <1>3 DEF InsertStructure, Go, Fail
  <2>2. PICK d \in got[r].rows : At(call, d, i) /\ got[r].rows = {d} /\ now = Bare(d)
    BY <1>a, <2>1 DEF Staged
  <2>3. DimensionRows(View(r), Ids(got[r].rows)) = {}
    <3>1. now.dimensions = {}
      BY <2>2 DEF Bare
    <3>2. \A m \in DimensionRows(View(r), Ids(got[r].rows)) : m \in now.dimensions
      BY <1>v, <2>2 DEF DimensionRows, Ids, Part, At
    <3>3. QED
      BY <3>1, <3>2
  <2>4. QED
    BY <1>3, <1>t, <2>3 DEF InsertStructure
<1>4. CASE CopyObservations(r)
  <2> DEFINE new == {[dataset |-> j, cell |-> c, by |-> r] :
                        j \in Ids(got[r].rows), c \in call[r].cells}
  <2>1. pc[r] = "observations"
    BY <1>4 DEF CopyObservations, Go, Fail
  <2>2. PICK d \in got[r].rows :
           At(call, d, i) /\ got[r].rows = {d} /\ now = Framed(call, d, r)
    BY <1>a, <2>1 DEF Staged
  <2>3. now.observations = {}
    BY <2>2 DEF Framed
  <2>4. \A n \in new : n.dataset = d.id
    BY <2>2 DEF Ids
  <2> HIDE DEF new
  <2>5. \A o \in View(r).observations : o.dataset # d.id
    <3>1. ASSUME NEW o \in View(r).observations, o.dataset = d.id
          PROVE  FALSE
      <4>1. o \in Part(call, View(r), i).observations
        BY <2>2, <3>1 DEF Part, At
      <4>2. QED
        BY <1>v, <2>3, <4>1
    <3>2. QED
      BY <3>1
  <2>6. ~\E o \in View(r).observations, n \in new : o.dataset = n.dataset /\ o.cell = n.cell
    BY <2>4, <2>5
  <2>7. result'[r] = result[r] \/ result'[r] = "stamp"
    BY <1>4, <1>t, <2>6 DEF CopyObservations, new
  <2>8. QED
    BY <2>7
<1>5. CASE ReadCategories(r)
  <2>1. pc[r] = "categories"
    BY <1>5 DEF ReadCategories, Go, Fail
  <2>2. Loaded(call[r], "categories", snap[r], got[r])
    BY <2>1 DEF ReadersStaged, ReaderStaged, Loading
  <2>3. got[r].dims = DimensionRows(snap[r], Ids(got[r].rows))
    BY <2>2 DEF Loaded
  <2>4. \A g \in CategoryRows(Snapshot(r), Ids(got[r].rows)) :
           \E m \in got[r].dims : m.id = g.dimension
    BY <2>3 DEF CategoryRows, Snapshot
  <2>5. result'[r] = result[r] \/ result'[r] = "invalid_selection"
    BY <1>5, <1>t, <2>4 DEF ReadCategories, Fail
  <2>6. QED
    BY <2>5
<1>6. CASE \/ AdvisoryLock(r) \/ InsertProvider(r) \/ ClearObservations(r)
           \/ ClearDimensions(r) \/ UpdateDataset(r) \/ DeleteObservations(r)
           \/ Commit(r) \/ Ack(r) \/ Begin(r) \/ Rollback(r) \/ GiveUp(r)
           \/ ServerCommit(r) \/ ServerAbort(r) \/ ReadDimensions(r) \/ ReadCells(r)
           \/ ReadBatch(r)
  <2>1. result' = result
    BY <1>6 DEF AdvisoryLock, InsertProvider, ClearObservations, ClearDimensions,
       UpdateDataset, DeleteObservations, Commit, Ack, Begin, Rollback, GiveUp,
       ServerCommit, ServerAbort, ReadDimensions, ReadCells, ReadBatch
  <2>2. QED
    BY <2>1
<1>7. CASE SelectDataset(r) \/ DeleteDataset(r) \/ ReadSummary(r) \/ Finish(r)
           \/ GetSummary(r) \/ ListDatasets(r) \/ ListProviders(r)
  BY <1>7, <1>t DEF SelectDataset, DeleteDataset, ReadSummary, Finish, Fail, GetSummary,
     ListDatasets, ListProviders, Answer
<1>8. QED
  BY <1>1, <1>2, <1>3, <1>4, <1>5, <1>6, <1>7
  DEF Step, ClientStep, ServerStep, WriterStep, ReaderStep

\* No interleaving of requests makes one fail with an internal error: the
\* lock, the unique keys and the snapshot keep what a statement relies on.
THEOREM InternalErrors == Spec => []NoInternalError
<1>1. Init => NoInternalError
  BY DEF Init, NoInternalError, None
<1>2. Safe /\ NoInternalError /\ [Next]_vars => NoInternalError'
  <2> SUFFICES ASSUME Safe, NoInternalError, [Next]_vars, NEW q \in Request
               PROVE  result'[q] # "error"
    BY DEF NoInternalError
  <2>1. CASE UNCHANGED vars
    BY <2>1 DEF vars, NoInternalError
  <2>2. ASSUME NEW r \in Request, Step(r) PROVE result'[q] # "error"
    BY <2>2, ErrorStep, Frame DEF NoInternalError, Safe
  <2>3. QED
    BY <2>1, <2>2 DEF Next, Terminating, Step
<1>3. QED
  BY <1>1, <1>2, SafeAlways, PTL DEF Spec

\* What a reader that has been answered holds.
AllOfOne(calls, c, g) ==
    c.kind \in {"structure", "data", "query"} =>
        \A d \in g.rows :
            LET w == d.by
                cells == CASE c.kind = "data" -> calls[w].cells
                           [] c.kind = "query" -> calls[w].cells \cap c.cells
                           [] OTHER -> {}
            IN
            /\ {m.id : m \in g.dims} = {w}
            /\ {v.dimension : v \in g.cats} = {w}
            /\ g.cells = {[dataset |-> d.id, cell |-> x, by |-> w] : x \in cells}

AnsweredBy(r) == result[r] = "ok" => AllOfOne(call, call[r], got[r])

\* A read that is finished has all the rows of one writer.
LEMMA FinishStep ==
    ASSUME Safe, NEW r \in Request, Finish(r)
    PROVE  AnsweredBy(r)'
<1> USE DEF Safe
<1>1. pc[r] = "finish" /\ got' = got /\ call' = call
  BY DEF Finish, Go
<1>2. /\ snap[r] \in Rows /\ AllSound(call, snap[r])
      /\ Loaded(call[r], "finish", snap[r], got[r])
  BY <1>1 DEF ReadersStaged, ReaderStaged, Loading, TypeOK
<1> DEFINE c == call[r]
           i == IdentityOf(c)
<1>3. got[r].rows = Part(call, snap[r], i).datasets
  BY <1>2, SelectPart DEF Loaded
<1>4. SUFFICES ASSUME NEW d \in got[r].rows
               PROVE  /\ {m.id : m \in got[r].dims} = {d.by}
                      /\ {g.dimension : g \in got[r].cats} = {d.by}
                      /\ c.kind = "structure" => got[r].cells = {}
                      /\ c.kind = "data" => got[r].cells = Obs(call, d, d.by)
                      /\ c.kind = "query" =>
                            got[r].cells = {[dataset |-> d.id, cell |-> x, by |-> d.by] :
                                               x \in call[d.by].cells \cap c.cells}
  BY <1>1 DEF AnsweredBy, AllOfOne, Obs
<1>5. d \in snap[r].datasets
  BY <1>3 DEF Part
<1>6. /\ At(call, d, <<d.provider, d.dataset>>)
      /\ Part(call, snap[r], <<d.provider, d.dataset>>) = Filled(call, d, d.by)
      /\ DimensionRows(snap[r], Ids({d})) = Dims(call, d, d.by)
      /\ CategoryRows(snap[r], Ids({d})) = Cats(call, d.by)
      /\ ObservationRows(snap[r], Ids({d})) = Obs(call, d, d.by)
  BY <1>2, <1>5, WholePart
<1>7. got[r].rows = {d}
  <2>1. <<d.provider, d.dataset>> = i
    BY <1>3 DEF Part
  <2>2. QED
    BY <1>3, <1>6, <2>1 DEF Filled
<1>8. got[r].dims = Dims(call, d, d.by) /\ got[r].cats = Cats(call, d.by)
  BY <1>2, <1>6, <1>7 DEF Loaded
<1>9. {m.id : m \in got[r].dims} = {d.by} /\ {g.dimension : g \in got[r].cats} = {d.by}
  BY <1>8 DEF Dims, Cats
<1>10. c.kind = "structure" => got[r].cells = {}
  BY <1>2 DEF Loaded
<1>11. c.kind = "data" => got[r].cells = Obs(call, d, d.by)
  BY <1>2, <1>6, <1>7 DEF Loaded
<1>12. c.kind = "query" => got[r].cells = {o \in Obs(call, d, d.by) : o.cell \in c.cells}
  BY <1>2, <1>6, <1>7 DEF Loaded
<1>13. {o \in Obs(call, d, d.by) : o.cell \in c.cells} =
          {[dataset |-> d.id, cell |-> x, by |-> d.by] : x \in call[d.by].cells \cap c.cells}
  BY DEF Obs
<1>14. QED
  BY <1>9, <1>10, <1>11, <1>12, <1>13

\* A read is answered by its last statement only, and its answer stays.
LEMMA AnswerKept ==
    ASSUME Safe, NEW r \in Request, Step(r),
           ~Finish(r), ~GetSummary(r), ~ListDatasets(r), ~ListProviders(r)
    PROVE  result'[r] = "ok" => result[r] = "ok" /\ got'[r] = got[r]
<1>1. result \in [Request -> Result] /\ got \in [Request -> Got]
      /\ (result[r] = "ok" => pc[r] = "done")
  BY DEF Safe, TypeOK, ReadersStaged, ReaderStaged
<1>2. CASE SelectProvider(r) \/ SelectDataset(r) \/ InsertDataset(r) \/ InsertStructure(r)
           \/ CopyObservations(r)
  <2>1. pc[r] # "done" /\ (result'[r] = "ok" => result[r] = "ok")
    BY <1>1, <1>2 DEF SelectProvider, SelectDataset, InsertDataset, InsertStructure,
       CopyObservations, Go, Fail
  <2>2. QED
    BY <1>1, <2>1
<1>3. CASE \/ AdvisoryLock(r) \/ InsertProvider(r) \/ ClearObservations(r)
           \/ ClearDimensions(r) \/ UpdateDataset(r) \/ DeleteObservations(r)
           \/ DeleteDataset(r) \/ Commit(r) \/ Ack(r) \/ Begin(r) \/ Rollback(r)
  <2>1. pc[r] # "done" /\ (result'[r] = "ok" => result[r] = "ok")
    BY <1>1, <1>3 DEF AdvisoryLock, InsertProvider, ClearObservations, ClearDimensions,
       UpdateDataset, DeleteObservations, DeleteDataset, Commit, Ack, Begin, Rollback, Go
  <2>2. QED
    BY <1>1, <2>1
<1>4. CASE ReadSummary(r) \/ ReadDimensions(r) \/ ReadCategories(r) \/ ReadCells(r) \/ ReadBatch(r)
  <2>1. pc[r] # "done" /\ (result'[r] = "ok" => result[r] = "ok")
    BY <1>1, <1>4 DEF ReadSummary, ReadDimensions, ReadCategories, ReadCells, ReadBatch, Go, Fail
  <2>2. QED
    BY <1>1, <2>1
<1>5. CASE GiveUp(r) \/ ServerCommit(r) \/ ServerAbort(r)
  BY <1>5 DEF GiveUp, ServerCommit, ServerAbort
<1>6. QED
  BY <1>2, <1>3, <1>4, <1>5 DEF Step, ClientStep, ServerStep, WriterStep, ReaderStep

\* A reader is answered with the rows of a single replacement, all of them,
\* whatever is committed between its statements.
THEOREM OneSnapshot == Spec => []ReadersSeeOneWriter
<1> DEFINE Answered == \A r \in Request : AnsweredBy(r)
<1>1. Init => Answered
  BY DEF Init, AnsweredBy, None
<1>2. Safe /\ Answered /\ [Next]_vars => Answered'
  <2> SUFFICES ASSUME Safe, Answered, [Next]_vars, NEW q \in Request
               PROVE  AnsweredBy(q)'
    OBVIOUS
  <2> USE DEF Safe
  <2>1. CASE UNCHANGED vars
    BY <2>1 DEF vars, AnsweredBy
  <2>2. ASSUME NEW r \in Request, Step(r) PROVE AnsweredBy(q)'
    <3>1. CASE q # r
      <4>1. call' = call /\ got'[q] = got[q] /\ result'[q] = result[q]
        BY <2>2, <3>1, Frame
      <4>2. QED
        BY <4>1 DEF AnsweredBy
    <3>2. CASE q = r /\ Finish(r)
      BY <3>2, FinishStep
    <3>3. CASE q = r /\ (GetSummary(r) \/ ListDatasets(r) \/ ListProviders(r))
      <4>1. call' = call /\ call[r].kind \notin {"structure", "data", "query"}
        BY <3>3 DEF GetSummary, ListDatasets, ListProviders, Answer
      <4>2. QED
        BY <3>3, <4>1 DEF AnsweredBy, AllOfOne
    <3>4. ASSUME q = r, ~Finish(r), ~GetSummary(r), ~ListDatasets(r), ~ListProviders(r)
          PROVE  AnsweredBy(q)'
      <4>1. result'[r] = "ok" => result[r] = "ok" /\ got'[r] = got[r]
        BY <2>2, <3>4, AnswerKept
      <4>2. call' = call
        BY <2>2, Frame
      <4>3. QED
        BY <3>4, <4>1, <4>2 DEF AnsweredBy
    <3>5. QED
      BY <3>1, <3>2, <3>3, <3>4
  <2>3. QED
    BY <2>1, <2>2 DEF Next, Terminating, Step
<1>3. Answered => ReadersSeeOneWriter
  BY DEF AnsweredBy, AllOfOne, ReadersSeeOneWriter
<1> HIDE DEF Answered
<1>4. QED
  BY <1>1, <1>2, <1>3, SafeAlways, PTL DEF Spec

-----------------------------------------------------------------------------
(***************************************************************************)
(* DatasetStore implements AtomicStore: every store call is atomic, for    *)
(* any requests, identities, lock keys, pool and batch size.               *)
(*                                                                         *)
(* The invariant adds to Safe what relates a call's own memory (got,       *)
(* result) to its effect: a writer's outcome to what is committed, a       *)
(* reader's answer to its snapshot.                                        *)
(***************************************************************************)

Transactional == {"structure", "data", "query"}
Replacing == {"provider", "spelling", "dataset", "insert", "clear", "cascade",
              "structure", "observations", "stamp"}
Deciding == {"insert", "clear", "cascade", "structure", "observations", "stamp"}

\* r's rows are written, or on their way to be.
Prepared(r) == pc[r] = "ready" \/ tx[r] = "committing"

\* A call runs the statements of its kind.
KindsFit(r) ==
    /\ pc[r] = "lock" => Writes(r)
    /\ pc[r] \in Replacing => call[r].kind = "replace"
    /\ pc[r] \in {"wipe", "remove"} => call[r].kind = "delete"
    /\ Prepared(r) \/ pc[r] = "commit" => Writes(r)
    /\ pc[r] = "summary" \/ pc[r] \in Loading => call[r].kind \in Transactional
    /\ pc[r] = "statement" => call[r].kind \notin Transactional /\ ~Writes(r)
    /\ call[r].kind \notin Transactional => got[r].dims = {} /\ got[r].cells = {}

\* A replacement adds at most its own spelling of its provider; a deletion none.
OwnProvider(r) ==
    \A v \in ins[r].providers :
        v.provider = call[r].provider /\ v.code = r /\ call[r].kind = "replace"

\* From the statement that selected it, the spelling a replacement answers with
\* is the provider's.
CodeKnown(r) ==
    call[r].kind = "replace" /\ (pc[r] = "dataset" \/ pc[r] \in Deciding \/ Prepared(r)) =>
        \E p \in db.providers \cup ins[r].providers :
            p.provider = call[r].provider /\ got[r].codes = {p}

\* A replacement has told created from replaced, by what is committed.
OutcomeTold(r) ==
    call[r].kind = "replace" /\ (pc[r] \in Deciding \/ Prepared(r)) =>
        LET old == Part(call, db, IdentityOf(call[r])).datasets
        IN  \/ result[r] = "created" /\ old = {} /\ \A d \in got[r].rows : d.id = r
            \/ result[r] = "replaced" /\ old # {} /\ call[r].overwrite

\* What is about to be committed is what is answered.
RowsTold(r) ==
    LET now == Seen(r, IdentityOf(call[r])).datasets
    IN  /\ Prepared(r) /\ call[r].kind = "replace" =>
               now # {} /\ got[r].rows = now /\ \A d \in now : d.by = r
        /\ Prepared(r) /\ call[r].kind = "delete" =>
               now = {} /\ result[r] = "deleted"

\* A reader's answer is that of its snapshot.
ReaderTold(r) ==
    LET rows == DatasetRows(snap[r], call[r])
        dims == DimensionRows(snap[r], Ids(rows))
    IN  /\ pc[r] \in Loading =>
               rows # {} /\ got[r].codes = ProviderRows(snap[r], call[r])
        /\ pc[r] \in {"batch", "finish"} /\ call[r].kind = "query" =>
               \A m \in got[r].dims : m.structure = call[r].structure
        /\ pc[r] = "rollback" /\ ~Writes(r) =>
               \/ result[r] = "not_found" /\ rows = {}
               \/ /\ result[r] = "invalid_selection" /\ call[r].kind = "query" /\ rows # {}
                  /\ \E m \in dims : m.structure # call[r].structure

Told(r) ==
    /\ KindsFit(r) /\ OwnProvider(r) /\ CodeKnown(r)
    /\ OutcomeTold(r) /\ RowsTold(r) /\ ReaderTold(r)
AllTold == \A r \in Request : Told(r)

-----------------------------------------------------------------------------
(* A step of another request.                                              *)

\* Provider rows are only added.
LEMMA ProvidersGrow ==
    ASSUME Safe, NEW r \in Request, Step(r)
    PROVE  db.providers \subseteq db'.providers
<1>1. db' = db \/ ServerCommit(r)
    BY Frame DEF Safe
<1>2. CASE ServerCommit(r)
    <2>1. db' = Merge(db, del[r], ins[r]) /\ del[r].providers = {}
        BY <1>2 DEF ServerCommit, View, Safe, ProvidersKept
    <2> QED
        BY <2>1 DEF Merge
<1> QED
    BY <1>1, <1>2

\* What is committed by another writer is of another identity.
LEMMA CommitApart ==
    ASSUME Safe, NEW r \in Request, ServerCommit(r), NEW q \in Request \ {r},
           pc[q] \in Guarded \/ tx[q] = "committing"
    PROVE  LET j == IdentityOf(call[q])
           IN  /\ Part(call, db', j) = Part(call, db, j)
               /\ Part(call, Merge(db', del[q], ins[q]), j) = Seen(q, j)
<1> DEFINE j == IdentityOf(call[q])
<1>1. j \in Identity
    BY DEF Safe, TypeOK, AnyCall, Identity, IdentityOf
<1>2. holder[Key(q)] = q /\ holder[Key(r)] = r
    BY DEF Safe, LockHeld, ServerCommit
<1>3. j # IdentityOf(call[r])
    BY <1>2 DEF Key, IdentityOf
<1> QED
    BY <1>1, <1>3, CommitElsewhere DEF Safe

LEMMA ToldElsewhere ==
    ASSUME Safe, NEW r \in Request, Step(r), NEW q \in Request \ {r}, Told(q)
    PROVE  Told(q)'
<1> DEFINE j == IdentityOf(call[q])
<1>1. /\ call' = call /\ pc'[q] = pc[q] /\ got'[q] = got[q] /\ result'[q] = result[q]
      /\ tx'[q] = tx[q] /\ snap'[q] = snap[q] /\ ins'[q] = ins[q] /\ del'[q] = del[q]
      /\ db' = db \/ ServerCommit(r)
    BY Frame DEF Safe
<1>2. KindsFit(q)' /\ OwnProvider(q)' /\ ReaderTold(q)'
    BY <1>1 DEF Told, KindsFit, OwnProvider, ReaderTold, Writes, Prepared
<1>3. CodeKnown(q)'
    <2>1. db.providers \subseteq db'.providers
        BY ProvidersGrow
    <2> QED
        BY <1>1, <2>1 DEF Told, CodeKnown, Prepared
<1>4. pc[q] \in Deciding \/ Prepared(q) =>
          Part(call, db', j) = Part(call, db, j) /\ Seen(q, j)' = Seen(q, j)
    <2>1. CASE db' = db
        BY <1>1, <2>1 DEF Seen
    <2>2. CASE ServerCommit(r)
        BY <1>1, <2>2, CommitApart DEF Seen, Deciding, Prepared, Guarded
    <2> QED
        BY <1>1, <2>1, <2>2
<1>5. OutcomeTold(q)'
    BY <1>1, <1>4 DEF Told, OutcomeTold, Prepared
<1>6. RowsTold(q)'
    BY <1>1, <1>4 DEF Told, RowsTold, Prepared
<1> QED
    BY <1>2, <1>3, <1>5, <1>6 DEF Told

-----------------------------------------------------------------------------
(* A step of the request itself.                                           *)

\* Only a transactional read loads dimensions and cells.
LEMMA Recall ==
    ASSUME TypeOK, NEW r \in Request, Step(r), ~ReadDimensions(r), ~ReadCells(r), ~ReadBatch(r)
    PROVE  got'[r].dims = got[r].dims /\ got'[r].cells = got[r].cells
<1> DEFINE Rows1 == \E S : got' = [got EXCEPT ![r].rows = S]
           Codes1 == \E S : got' = [got EXCEPT ![r].codes = S]
           Both == \E S, T : got' = [got EXCEPT ![r].rows = S, ![r].codes = T]
           Cats1 == \E S, T : got' = [got EXCEPT ![r].cats = S, ![r].left = T]
<1>1. CASE WriterStep(r)
    <2>1. CASE AdvisoryLock(r) \/ InsertProvider(r) \/ ClearObservations(r) \/ ClearDimensions(r)
        BY <2>1 DEF AdvisoryLock, InsertProvider, ClearObservations, ClearDimensions
    <2>2. CASE InsertStructure(r) \/ CopyObservations(r) \/ DeleteObservations(r)
        BY <2>2 DEF InsertStructure, CopyObservations, DeleteObservations
    <2>3. CASE DeleteDataset(r) \/ Commit(r) \/ Ack(r)
        BY <2>3 DEF DeleteDataset, Commit, Ack
    <2>4. CASE SelectProvider(r)
        <3>1. got' = got \/ Codes1
            BY <2>4 DEF SelectProvider, Fail
        <3> QED
            BY <3>1 DEF TypeOK, Got
    <2>5. CASE SelectDataset(r) \/ InsertDataset(r) \/ UpdateDataset(r)
        <3>1. SelectDataset(r) => got' = got \/ Rows1
            BY DEF SelectDataset, Fail
        <3>2. InsertDataset(r) => got' = got \/ Rows1
            BY DEF InsertDataset, Fail
        <3>3. UpdateDataset(r) => Rows1
            BY DEF UpdateDataset
        <3>4. got' = got \/ Rows1
            BY <2>5, <3>1, <3>2, <3>3
        <3> QED
            BY <3>4 DEF TypeOK, Got
    <2> QED
        BY <1>1, <2>1, <2>2, <2>3, <2>4, <2>5 DEF WriterStep
<1>2. CASE ReaderStep(r)
    <2>1. CASE ReadSummary(r)
        <3>1. got' = got \/ Both
            BY <2>1 DEF ReadSummary, Fail
        <3> QED
            BY <3>1 DEF TypeOK, Got
    <2>2. CASE ReadCategories(r)
        <3>1. got' = got \/ Cats1
            BY <2>2 DEF ReadCategories, Fail
        <3> QED
            BY <3>1 DEF TypeOK, Got
    <2>3. CASE Finish(r)
        BY <2>3 DEF Finish
    <2>4. CASE GetSummary(r) \/ ListDatasets(r) \/ ListProviders(r)
        <3>1. Both
            BY <2>4 DEF GetSummary, ListDatasets, ListProviders, Answer
        <3> QED
            BY <3>1 DEF TypeOK, Got
    <2> QED
        BY <1>2, <2>1, <2>2, <2>3, <2>4 DEF ReaderStep
<1>3. CASE Begin(r) \/ Rollback(r) \/ ServerStep(r) \/ GiveUp(r)
    BY <1>3 DEF Begin, Rollback, ServerStep, ServerCommit, ServerAbort, GiveUp
<1> QED
    BY <1>1, <1>2, <1>3 DEF Step, ClientStep

LEMMA KindsStep ==
    ASSUME Safe, Safe', NEW r \in Request, Step(r), KindsFit(r)
    PROVE  KindsFit(r)'
<1> DEFINE Fits(p, t) ==
        /\ p = "lock" => Writes(r)
        /\ p \in Replacing => call[r].kind = "replace"
        /\ p \in {"wipe", "remove"} => call[r].kind = "delete"
        /\ p \in {"ready", "commit"} \/ t = "committing" => Writes(r)
        /\ p = "summary" \/ p \in Loading => call[r].kind \in Transactional
        /\ p = "statement" => call[r].kind \notin Transactional /\ ~Writes(r)
<1>0. call' = call
    BY Frame DEF Safe
<1>k. call[r].kind \in Kind /\ pc \in [Request -> Pc] /\ tx \in [Request -> {"none", "active", "committing", "committed", "aborted"}]
    BY DEF Safe, TypeOK, AnyCall
<1>1. Fits(pc[r], tx[r])
    BY DEF KindsFit, Prepared
<1>2. tx'[r] = "committing" => pc'[r] \in {"commit", "failed"}
    BY DEF Safe, LockHeld
<1>3. Fits(pc'[r], tx'[r])
    <2> USE <1>1, <1>2, <1>k DEF Go, Fail, Replacing, Writes, Transactional, Loading
    <2>1. CASE WriterStep(r)
        <3>1. CASE AdvisoryLock(r)
            BY <3>1 DEF AdvisoryLock
        <3>2. CASE InsertProvider(r) \/ SelectProvider(r) \/ SelectDataset(r)
            <4>1. pc[r] \in Replacing /\ pc'[r] \in Replacing \cup {"rollback"}
                BY <3>2 DEF InsertProvider, SelectProvider, SelectDataset
            <4> QED
                BY <4>1
        <3>3. CASE InsertDataset(r) \/ ClearObservations(r) \/ ClearDimensions(r) \/ InsertStructure(r)
            <4>1. pc[r] \in Replacing /\ pc'[r] \in Replacing \cup {"rollback"}
                BY <3>3 DEF InsertDataset, ClearObservations, ClearDimensions, InsertStructure
            <4> QED
                BY <4>1
        <3>4. CASE CopyObservations(r) \/ UpdateDataset(r)
            <4>1. pc[r] \in Replacing /\ pc'[r] \in Replacing \cup {"ready", "rollback"}
                BY <3>4 DEF CopyObservations, UpdateDataset
            <4> QED
                BY <4>1
        <3>5. CASE DeleteObservations(r) \/ DeleteDataset(r) \/ Commit(r) \/ Ack(r)
            BY <3>5 DEF DeleteObservations, DeleteDataset, Commit, Ack
        <3> QED
            BY <2>1, <3>1, <3>2, <3>3, <3>4, <3>5 DEF WriterStep
    <2>2. CASE ReaderStep(r)
        <3>1. CASE ReadSummary(r) \/ ReadDimensions(r) \/ ReadCategories(r)
            BY <3>1 DEF ReadSummary, ReadDimensions, ReadCategories
        <3>2. CASE ReadCells(r) \/ ReadBatch(r) \/ Finish(r)
            BY <3>2 DEF ReadCells, ReadBatch, Finish
        <3>3. CASE GetSummary(r) \/ ListDatasets(r) \/ ListProviders(r)
            <4>1. pc'[r] = "done"
                BY <3>3 DEF GetSummary, ListDatasets, ListProviders, Answer
            <4> QED
                BY <4>1
        <3> QED
            BY <2>2, <3>1, <3>2, <3>3 DEF ReaderStep
    <2>3. CASE Begin(r)
        BY <2>3 DEF Begin, FirstPc, Kind
    <2>4. CASE Rollback(r) \/ GiveUp(r) \/ ServerStep(r)
        BY <2>4 DEF Rollback, GiveUp, ServerStep, ServerCommit, ServerAbort, EndSession, server
    <2> QED
        BY <2>1, <2>2, <2>3, <2>4 DEF Step, ClientStep
<1>4. call[r].kind \notin Transactional => got'[r].dims = {} /\ got'[r].cells = {}
    <2> SUFFICES ASSUME call[r].kind \notin Transactional
                 PROVE  got'[r].dims = {} /\ got'[r].cells = {}
        OBVIOUS
    <2>1. ~ReadDimensions(r) /\ ~ReadCells(r) /\ ~ReadBatch(r)
        BY <1>1 DEF ReadDimensions, ReadCells, ReadBatch, Go, Loading
    <2> QED
        BY <2>1, Recall DEF Safe, KindsFit
<1> QED
    BY <1>0, <1>3, <1>4 DEF KindsFit, Prepared, Writes

\* Its spelling is the only provider row it inserts.
LEMMA OwnProviderStep ==
    ASSUME Safe, NEW r \in Request, Step(r), KindsFit(r), OwnProvider(r)
    PROVE  OwnProvider(r)'
<1>0. call' = call /\ NoRows.providers = {}
    BY Frame DEF Safe, NoRows
<1>1. CASE ~InsertProvider(r) /\ ~ServerCommit(r)
    <2>1. ins'[r].providers \subseteq ins[r].providers
        BY <1>1, ProvidersFrame DEF Safe
    <2> QED
        BY <1>0, <2>1 DEF OwnProvider
<1>2. CASE ServerCommit(r)
    <2>1. ins'[r].providers = {}
        BY <1>0, <1>2 DEF ServerCommit, EndSession, Safe, TypeOK
    <2> QED
        BY <2>1 DEF OwnProvider
<1>3. CASE InsertProvider(r)
    <2> DEFINE new == [provider |-> call[r].provider, code |-> r]
    <2>1. /\ call[r].kind = "replace"
          /\ \/ Write(r, NoRows, NoRows)
             \/ Write(r, NoRows, [NoRows EXCEPT !.providers = {new}])
        BY <1>3 DEF InsertProvider, KindsFit, Replacing, Go
    <2>2. [NoRows EXCEPT !.providers = {new}].providers = {new}
        BY DEF NoRows
    <2>3. ins'[r].providers \subseteq ins[r].providers \cup {new}
        BY <1>0, <2>1, <2>2 DEF Write, Safe, TypeOK, Merge
    <2> QED
        BY <1>0, <2>1, <2>3 DEF OwnProvider
<1> QED
    BY <1>1, <1>2, <1>3

\* Nothing is recalled differently once the rows are written.
LEMMA PreparedKeeps ==
    ASSUME Safe, NEW r \in Request, Step(r), pc[r] \in {"ready", "commit", "failed"}
    PROVE  got'[r] = got[r] /\ result'[r] = result[r]
<1> USE DEF Go, Fail
<1>1. CASE WriterStep(r)
    BY <1>1 DEF WriterStep, AdvisoryLock, InsertProvider, SelectProvider, SelectDataset,
       InsertDataset, ClearObservations, ClearDimensions, InsertStructure,
       CopyObservations, UpdateDataset, DeleteObservations, DeleteDataset, Commit, Ack
<1>2. CASE ReaderStep(r)
    BY <1>2 DEF ReaderStep, ReadSummary, ReadDimensions, ReadCategories, ReadCells,
       ReadBatch, Finish, GetSummary, ListDatasets, ListProviders, Answer
<1>3. CASE Begin(r) \/ Rollback(r) \/ ServerStep(r) \/ GiveUp(r)
    BY <1>3 DEF Begin, Rollback, ServerStep, ServerCommit, ServerAbort, GiveUp
<1> QED
    BY <1>1, <1>2, <1>3 DEF Step, ClientStep

\* Who is prepared after a step has just written the last rows, or was
\* prepared and has changed nothing.
LEMMA PreparedSteps ==
    ASSUME Safe, Safe', NEW r \in Request, Step(r), Prepared(r)',
           ~UpdateDataset(r), ~DeleteDataset(r)
    PROVE  /\ Prepared(r) /\ got'[r] = got[r] /\ result'[r] = result[r]
           /\ db' = db /\ ins' = ins /\ del' = del /\ call' = call
<1>1. ~ServerCommit(r)
    <2> SUFFICES ASSUME ServerCommit(r) PROVE FALSE
        OBVIOUS
    <2>1. tx[r] = "committing" /\ pc' = pc /\ tx'[r] = "committed"
        BY DEF ServerCommit, EndSession, Safe, TypeOK
    <2>2. pc[r] \in {"commit", "failed"}
        BY <2>1 DEF Safe, LockHeld
    <2> QED
        BY <2>1, <2>2 DEF Prepared
<1>2. Prepared(r) /\ db' = db /\ ins' = ins /\ del' = del /\ call' = call
    BY <1>1, ReadySteps DEF Safe, Prepared
<1>3. pc[r] \in {"ready", "commit", "failed"}
    BY <1>2 DEF Prepared, Safe, LockHeld
<1> QED
    BY <1>2, <1>3, PreparedKeeps

\* Between its decision and its last row a replacement recalls what it found.
LEMMA DecidedSteps ==
    ASSUME TypeOK, LockHeld, NEW r \in Request, Step(r), pc'[r] \in Deciding,
           ~SelectDataset(r), ~InsertDataset(r)
    PROVE  /\ pc[r] \in Deciding /\ got'[r] = got[r] /\ result'[r] = result[r]
           /\ ~SelectProvider(r) /\ ~InsertProvider(r) /\ ~ServerCommit(r)
<1> USE DEF Go, Fail, Deciding, TypeOK
<1>1. CASE WriterStep(r)
    <2>1. CASE AdvisoryLock(r) \/ InsertProvider(r) \/ SelectProvider(r) \/ UpdateDataset(r)
        BY <2>1 DEF AdvisoryLock, InsertProvider, SelectProvider, UpdateDataset
    <2>2. CASE ClearObservations(r) \/ ClearDimensions(r) \/ InsertStructure(r) \/ CopyObservations(r)
        <3>1. pc[r] \in Deciding /\ got' = got /\ result'[r] = result[r]
            BY <2>2 DEF ClearObservations, ClearDimensions, InsertStructure, CopyObservations
        <3>2. pc[r] \notin {"provider", "spelling"} /\ pc'[r] # pc[r]
            BY <2>2 DEF ClearObservations, ClearDimensions, InsertStructure, CopyObservations
        <3> QED
            BY <3>1, <3>2 DEF SelectProvider, InsertProvider, ServerCommit
    <2>3. CASE DeleteObservations(r) \/ DeleteDataset(r) \/ Commit(r) \/ Ack(r)
        BY <2>3 DEF DeleteObservations, DeleteDataset, Commit, Ack
    <2> QED
        BY <1>1, <2>1, <2>2, <2>3 DEF WriterStep
<1>2. CASE ReaderStep(r)
    <2>1. pc'[r] \notin Deciding
        BY <1>2 DEF ReaderStep, ReadSummary, ReadDimensions, ReadCategories, ReadCells,
           ReadBatch, Finish, GetSummary, ListDatasets, ListProviders, Answer
    <2> QED
        BY <2>1
<1>3. CASE Begin(r) \/ Rollback(r) \/ GiveUp(r)
    <2>1. pc'[r] \notin Deciding
        BY <1>3 DEF Begin, Rollback, GiveUp, FirstPc
    <2> QED
        BY <2>1
<1>4. CASE ServerStep(r)
    <2>1. pc' = pc /\ got' = got /\ result' = result
        BY <1>4 DEF ServerStep, ServerCommit, ServerAbort
    <2> QED
        BY <1>4, <2>1 DEF ServerStep, ServerCommit, ServerAbort, SelectProvider, InsertProvider,
           LockHeld
<1> QED
    BY <1>1, <1>2, <1>3, <1>4 DEF Step, ClientStep

\* The UPDATE stamps the one row of its identity, and recalls it.
LEMMA StampTold ==
    ASSUME Safe, NEW r \in Request, UpdateDataset(r)
    PROVE  \E d \in got[r].rows :
              /\ got[r].rows = {d} /\ got'[r].rows = {Stamped(d, r)}
              /\ Stamped(d, r).id = d.id /\ Stamped(d, r).by = r
              /\ Seen(r, IdentityOf(call[r]))'.datasets = {Stamped(d, r)}
              /\ db' = db /\ call' = call /\ ins'[r].providers = ins[r].providers
              /\ got'[r].codes = got[r].codes /\ result'[r] = result[r]
              /\ pc[r] = "stamp" /\ pc'[r] = "ready"
<1> DEFINE i == IdentityOf(call[r])
<1> USE DEF Safe
<1>1. PICK d \in got[r].rows :
         /\ At(call, d, i) /\ got[r].rows = {d} /\ Seen(r, i) = Filled(call, d, r)
    <2>1. pc[r] = "stamp"
        BY DEF UpdateDataset, Go
    <2> QED
        BY <2>1, StagedAt DEF Staged
<1>2. Seen(r, i).datasets = {d}
    BY <1>1 DEF Filled
<1>3. {f \in View(r).datasets : f.id \in Ids(got[r].rows)} = {d}
    <2>1. /\ d \in View(r).datasets
          /\ \A f \in View(r).datasets : f.id \in Ids({d}) <=> f = d
        BY <1>1, <1>2, OneId
    <2> QED
        BY <1>1, <2>1
<1> DEFINE e == Stamped(d, r)
<1>4. e.id = d.id /\ e.by = r /\ <<e.provider, e.dataset>> = i
    <2>1. d \in DatasetRow
        BY DEF TypeOK, Got
    <2> QED
        BY <1>1, <2>1 DEF Stamped, DatasetRow, At
<1> HIDE DEF e
<1> DEFINE out == OnlyDatasets({d})
           in == OnlyDatasets({e})
<1>5. /\ out.datasets = {d} /\ in.datasets = {e} /\ NoRows.datasets = {}
      /\ out.providers = {} /\ in.providers = {}
    BY DEF OnlyDatasets, NoRows
<1>6. /\ Write(r, out, in)
      /\ got' = [got EXCEPT ![r].rows = {e}] /\ result' = result
      /\ pc[r] = "stamp" /\ pc' = [pc EXCEPT ![r] = "ready"]
    <2>1. {Stamped(f, r) : f \in {d}} = {e}
        BY DEF e
    <2> QED
        BY <1>3, <2>1 DEF UpdateDataset, Go, OnlyDatasets
<1> HIDE DEF out, in
<1>7. got'[r].rows = {e} /\ got'[r].codes = got[r].codes /\ pc'[r] = "ready"
    BY <1>6 DEF TypeOK, Got
<1>8. /\ db' = db /\ call' = call
      /\ ins'[r] = Merge(ins[r], out, in) /\ del'[r] = Merge(del[r], NoRows, out)
    BY <1>6 DEF Write, TypeOK
<1>9. ins'[r].providers = ins[r].providers
    BY <1>8, <1>5 DEF Merge
<1>10. Seen(r, i)'.datasets = {e}
    <2> DEFINE old == (db.datasets \ del[r].datasets) \cup ins[r].datasets
               new == (db.datasets \ del'[r].datasets) \cup ins'[r].datasets
    <2>1. /\ del'[r].datasets = del[r].datasets \cup {d}
          /\ ins'[r].datasets = (ins[r].datasets \ {d}) \cup {e}
        BY <1>8, <1>5 DEF Merge
    <2>2. new = (old \ {d}) \cup {e}
        BY <2>1
    <2>3. {f \in old : <<f.provider, f.dataset>> = i} = {d}
        BY <1>2 DEF Seen, Part, Merge
    <2>4. Seen(r, i)'.datasets = {f \in new : <<f.provider, f.dataset>> = i}
        BY <1>8 DEF Seen, Part, Merge
    <2> HIDE DEF old, new, i
    <2> QED
        BY <1>4, <2>2, <2>3, <2>4
<1> QED
    BY <1>1, <1>4, <1>6, <1>7, <1>8, <1>9, <1>10 DEF e

\* The DELETE leaves no row of its identity.
LEMMA DeleteTold ==
    ASSUME Safe, NEW r \in Request, DeleteDataset(r)
    PROVE  /\ Seen(r, IdentityOf(call[r]))'.datasets = {} /\ result'[r] = "deleted"
           /\ call' = call
<1> DEFINE i == IdentityOf(call[r])
           found == DatasetRows(View(r), call[r])
           out == [Cascade(View(r), Ids(found)) EXCEPT !.datasets = found]
<1> USE DEF Safe
<1>1. Write(r, out, NoRows) /\ result'[r] = "deleted"
    BY DEF DeleteDataset, TypeOK
<1>2. out.datasets = found /\ NoRows.datasets = {}
    BY DEF Cascade, NoRows
<1>3. found = {f \in View(r).datasets : <<f.provider, f.dataset>> = i}
    BY DEF DatasetRows, IdentityOf
<1> HIDE DEF out, found
<1>4. /\ db' = db /\ call' = call
      /\ ins'[r] = Merge(ins[r], out, NoRows) /\ del'[r] = Merge(del[r], NoRows, out)
    BY <1>1 DEF Write, TypeOK
<1>5. Seen(r, i)'.datasets = {}
    <2> DEFINE old == (db.datasets \ del[r].datasets) \cup ins[r].datasets
               new == (db.datasets \ del'[r].datasets) \cup ins'[r].datasets
    <2>1. /\ del'[r].datasets = del[r].datasets \cup found
          /\ ins'[r].datasets = ins[r].datasets \ found
        BY <1>2, <1>4 DEF Merge
    <2>2. new = old \ found
        BY <2>1
    <2>3. found = {f \in old : <<f.provider, f.dataset>> = i}
        BY <1>3 DEF View, Merge
    <2>4. Seen(r, i)'.datasets = {f \in new : <<f.provider, f.dataset>> = i}
        BY <1>4 DEF Seen, Part, Merge
    <2> HIDE DEF old, new, i
    <2> QED
        BY <2>2, <2>3, <2>4
<1> QED
    BY <1>1, <1>4, <1>5

\* The spelling is selected where it is seen, and is the only one.
LEMMA CodeStep ==
    ASSUME Safe, Safe', NEW r \in Request, Step(r), KindsFit(r), CodeKnown(r)
    PROVE  CodeKnown(r)'
<1> DEFINE Known == \E p \in db.providers \cup ins[r].providers :
                       p.provider = call[r].provider /\ got[r].codes = {p}
<1>0. call' = call
    BY Frame DEF Safe
<1> SUFFICES ASSUME call[r].kind = "replace",
                    pc'[r] = "dataset" \/ pc'[r] \in Deciding \/ Prepared(r)'
             PROVE  Known'
    BY <1>0 DEF CodeKnown
<1>k. pc[r] = "dataset" \/ pc[r] \in Deciding \/ Prepared(r) => Known
    BY DEF CodeKnown
<1>1. CASE SelectProvider(r)
    <2> DEFINE found == ProviderRows(View(r), call[r])
    <2>1. pc'[r] \in {"dataset", "rollback"}
        BY <1>1 DEF SelectProvider, Go, Fail, Safe, TypeOK
    <2>2. tx'[r] # "committing" /\ pc'[r] = "dataset"
        BY <2>1 DEF Deciding, Prepared, Safe, LockHeld
    <2>3. found # {} /\ got'[r].codes = found /\ db' = db /\ ins' = ins
        BY <1>1, <2>2 DEF SelectProvider, Go, Fail, ReadOnly, Safe, TypeOK, Got
    <2>4. found = {p \in db.providers \cup ins[r].providers : p.provider = call[r].provider}
        BY DEF ProviderRows, View, Merge, Safe, ProvidersKept
    <2>5. \A p, q \in found : p = q
        BY <2>4 DEF Safe, ProvidersKept
    <2> HIDE DEF found
    <2>6. PICK p \in found : found = {p}
        BY <2>3, <2>5
    <2> QED
        BY <1>0, <2>3, <2>4, <2>6
<1>2. CASE UpdateDataset(r)
    <2>1. db' = db /\ ins'[r].providers = ins[r].providers /\ got'[r].codes = got[r].codes
          /\ pc[r] = "stamp"
        BY <1>2, StampTold
    <2> QED
        BY <1>0, <1>k, <2>1 DEF Deciding
<1>3. CASE SelectDataset(r) \/ InsertDataset(r)
    <2>1. pc[r] \in {"dataset", "insert"}
        BY <1>3 DEF SelectDataset, InsertDataset, Go, Fail
    <2>2. got' = got \/ \E S : got' = [got EXCEPT ![r].rows = S]
        BY <1>3 DEF SelectDataset, InsertDataset, Fail
    <2>3. got'[r].codes = got[r].codes
        BY <2>2 DEF Safe, TypeOK, Got
    <2>4. ~InsertProvider(r) /\ ~ServerCommit(r) /\ pc'[r] # "rollback" /\ pc'[r] \in Named
        <3>1. pc'[r] \in {"insert", "clear", "structure", "rollback"}
            BY <1>3 DEF SelectDataset, InsertDataset, Go, Fail, Safe, TypeOK
        <3>2. tx'[r] # "committing"
            BY <3>1 DEF Safe, LockHeld
        <3> QED
            BY <2>1, <3>1, <3>2 DEF InsertProvider, ServerCommit, Go, Safe, LockHeld,
               Deciding, Prepared, Named
    <2>5. db' = db /\ ins'[r].providers = ins[r].providers
        BY <2>4, ProvidersFrame DEF Safe
    <2> QED
        BY <1>0, <1>k, <2>1, <2>3, <2>5 DEF Deciding
<1>4. CASE ~SelectProvider(r) /\ ~UpdateDataset(r) /\ ~SelectDataset(r) /\ ~InsertDataset(r)
    <2>1. CASE Prepared(r)'
        <3>1. ~DeleteDataset(r)
            BY DEF DeleteDataset, Go, KindsFit
        <3> QED
            BY <1>0, <1>4, <1>k, <2>1, <3>1, PreparedSteps
    <2>2. CASE pc'[r] \in Deciding
        <3>1. /\ pc[r] \in Deciding /\ got'[r] = got[r]
              /\ ~InsertProvider(r) /\ ~ServerCommit(r)
            BY <1>4, <2>2, DecidedSteps DEF Safe
        <3>2. db' = db /\ ins'[r].providers = ins[r].providers
            BY <2>2, <3>1, ProvidersFrame DEF Safe, Named, Deciding
        <3> QED
            BY <1>0, <1>k, <3>1, <3>2
    <2>3. pc'[r] # "dataset"
        <3>1. CASE WriterStep(r)
            BY <1>4, <3>1 DEF WriterStep, AdvisoryLock, InsertProvider, SelectProvider,
               ClearObservations, ClearDimensions, InsertStructure, CopyObservations,
               DeleteObservations, DeleteDataset, Commit, Ack, Go, Fail, Safe, TypeOK
        <3>2. CASE ReaderStep(r)
            BY <3>2 DEF ReaderStep, ReadSummary, ReadDimensions, ReadCategories, ReadCells,
               ReadBatch, Finish, GetSummary, ListDatasets, ListProviders, Answer, Go, Fail,
               Safe, TypeOK
        <3>3. CASE Begin(r) \/ Rollback(r) \/ GiveUp(r)
            BY <3>3 DEF Begin, Rollback, GiveUp, FirstPc, Go, Safe, TypeOK
        <3>4. CASE ServerStep(r)
            BY <3>4 DEF ServerStep, ServerCommit, ServerAbort, Safe, LockHeld
        <3> QED
            BY <3>1, <3>2, <3>3, <3>4 DEF Step, ClientStep
    <2> QED
        BY <2>1, <2>2, <2>3
<1> QED
    BY <1>1, <1>2, <1>3, <1>4

\* Whether it creates or replaces is decided by what is committed, which is
\* the request's to change from then on.
LEMMA OutcomeStep ==
    ASSUME Safe, Safe', NEW r \in Request, Step(r), KindsFit(r), OutcomeTold(r)
    PROVE  OutcomeTold(r)'
<1> DEFINE i == IdentityOf(call[r])
           old == Part(call, db, i)
           Decided == \/ result[r] = "created" /\ old.datasets = {}
                         /\ \A d \in got[r].rows : d.id = r
                      \/ result[r] = "replaced" /\ old.datasets # {} /\ call[r].overwrite
<1>0. call' = call
    BY Frame DEF Safe
<1> SUFFICES ASSUME call[r].kind = "replace", pc'[r] \in Deciding \/ Prepared(r)'
             PROVE  Decided'
    BY <1>0 DEF OutcomeTold
<1>k. pc[r] \in Deciding \/ Prepared(r) => Decided
    BY DEF OutcomeTold
<1>1. CASE SelectDataset(r)
    <2> DEFINE found == DatasetRows(View(r), call[r])
    <2>1. pc[r] = "dataset" /\ pc'[r] \in {"insert", "clear", "rollback"}
        BY <1>1 DEF SelectDataset, Go, Fail, Safe, TypeOK
    <2>2. pc'[r] \in {"insert", "clear"}
        BY <2>1 DEF Deciding, Prepared, Safe, LockHeld
    <2>3. found = old.datasets
        <3>1. Seen(r, i) = old
            BY <2>1, StagedAt DEF Safe, Staged
        <3> QED
            BY <3>1, ViewType, SelectPart DEF Safe, Seen, View
    <2>4. /\ found = {} \/ call[r].overwrite
          /\ db' = db /\ got'[r].rows = found
          /\ result'[r] = IF found = {} THEN "created" ELSE "replaced"
        BY <1>1, <2>2 DEF SelectDataset, Go, Fail, ReadOnly, Safe, TypeOK, Got
    <2> QED
        BY <1>0, <2>3, <2>4
<1>2. CASE InsertDataset(r)
    <2> DEFINE row == [id |-> r, provider |-> call[r].provider,
                       dataset |-> call[r].dataset, by |-> r, at |-> clock]
    <2>1. pc[r] = "insert" /\ pc'[r] \in {"structure", "rollback"}
        BY <1>2 DEF InsertDataset, Go, Fail, Safe, TypeOK
    <2>2. pc'[r] = "structure"
        BY <2>1 DEF Deciding, Prepared, Safe, LockHeld
    <2>3. db' = db /\ result' = result /\ got'[r].rows = {row}
        BY <1>2, <2>2 DEF InsertDataset, Go, Fail, Write, Safe, TypeOK, Got
    <2>4. old.datasets = {}
        <3>1. old = NoRows
            BY <2>1, StagedAt DEF Safe, Staged
        <3> QED
            BY <3>1 DEF NoRows
    <2> QED
        BY <1>0, <1>k, <2>1, <2>3, <2>4 DEF Deciding
<1>3. CASE UpdateDataset(r)
    <2>1. PICK d \in got[r].rows :
             /\ got'[r].rows = {Stamped(d, r)} /\ Stamped(d, r).id = d.id
             /\ db' = db /\ result'[r] = result[r] /\ pc[r] = "stamp"
        BY <1>3, StampTold
    <2> QED
        BY <1>0, <1>k, <2>1 DEF Deciding
<1>4. CASE ~SelectDataset(r) /\ ~InsertDataset(r) /\ ~UpdateDataset(r)
    <2>1. CASE Prepared(r)'
        <3>1. ~DeleteDataset(r)
            BY DEF DeleteDataset, Go, KindsFit
        <3> QED
            BY <1>0, <1>4, <1>k, <2>1, <3>1, PreparedSteps
    <2>2. CASE pc'[r] \in Deciding
        <3>1. /\ pc[r] \in Deciding /\ got'[r] = got[r] /\ result'[r] = result[r]
              /\ ~ServerCommit(r)
            BY <1>4, <2>2, DecidedSteps DEF Safe
        <3>2. db' = db
            BY <3>1, Frame DEF Safe
        <3> QED
            BY <1>0, <1>k, <3>1, <3>2
    <2> QED
        BY <2>1, <2>2
<1> QED
    BY <1>1, <1>2, <1>3, <1>4

\* The last row written is the one recalled.
LEMMA RowsStep ==
    ASSUME Safe, Safe', NEW r \in Request, Step(r), KindsFit(r), RowsTold(r)
    PROVE  RowsTold(r)'
<1>0. call' = call
    BY Frame DEF Safe
<1>1. CASE UpdateDataset(r)
    <2>1. PICK d \in got[r].rows :
             /\ got'[r].rows = {Stamped(d, r)} /\ Stamped(d, r).by = r
             /\ Seen(r, IdentityOf(call[r]))'.datasets = {Stamped(d, r)}
             /\ pc[r] = "stamp"
        BY <1>1, StampTold
    <2>2. call[r].kind = "replace"
        BY <2>1 DEF KindsFit, Replacing
    <2> QED
        BY <1>0, <2>1, <2>2 DEF RowsTold
<1>2. CASE DeleteDataset(r)
    <2>1. call[r].kind = "delete"
        BY <1>2 DEF DeleteDataset, Go, KindsFit
    <2> QED
        BY <1>0, <1>2, <2>1, DeleteTold DEF RowsTold
<1>3. CASE ~UpdateDataset(r) /\ ~DeleteDataset(r)
    <2>1. CASE Prepared(r)'
        <3>1. /\ Prepared(r) /\ got'[r] = got[r] /\ result'[r] = result[r]
              /\ db' = db /\ ins' = ins /\ del' = del
            BY <1>3, <2>1, PreparedSteps
        <3>2. Seen(r, IdentityOf(call[r]))' = Seen(r, IdentityOf(call[r]))
            BY <1>0, <3>1 DEF Seen
        <3> QED
            BY <1>0, <2>1, <3>1, <3>2 DEF RowsTold
    <2>2. CASE ~Prepared(r)'
        BY <2>2 DEF RowsTold
    <2> QED
        BY <2>1, <2>2
<1> QED
    BY <1>1, <1>2, <1>3

\* A reader that goes on reading, or is refused, runs one of these statements.
LEMMA LoadingReads ==
    ASSUME Safe, NEW r \in Request, Step(r), pc[r] \in Loading,
           pc'[r] \in Loading \cup {"rollback"}
    PROVE  ReadDimensions(r) \/ ReadCategories(r) \/ ReadCells(r) \/ ReadBatch(r)
<1> USE DEF Go, Fail, Loading, Safe, TypeOK, LockHeld
<1>1. ~WriterStep(r)
    BY DEF WriterStep, AdvisoryLock, InsertProvider, SelectProvider, SelectDataset,
       InsertDataset, ClearObservations, ClearDimensions, InsertStructure, CopyObservations,
       UpdateDataset, DeleteObservations, DeleteDataset, Commit, Ack
<1>2. ~Begin(r) /\ ~Rollback(r) /\ ~GiveUp(r) /\ ~ServerStep(r)
    BY DEF Begin, Rollback, GiveUp, ServerStep, ServerCommit, ServerAbort
<1>3. ~ReadSummary(r) /\ ~Finish(r) /\ ~GetSummary(r) /\ ~ListDatasets(r) /\ ~ListProviders(r)
    BY DEF ReadSummary, Finish, GetSummary, ListDatasets, ListProviders, Answer
<1> QED
    BY <1>1, <1>2, <1>3 DEF Step, ClientStep, ReaderStep

LEMMA CategoriesRead ==
    ASSUME TypeOK, NEW r \in Request, ReadCategories(r)
    PROVE  got'[r] = [got[r] EXCEPT !.cats = got'[r].cats, !.left = got'[r].left]
<1>1. got' = got \/ \E S, T : got' = [got EXCEPT ![r].cats = S, ![r].left = T]
    BY DEF ReadCategories, Fail
<1> QED
    BY <1>1 DEF TypeOK, Got

\* After its first statement a reader keeps its snapshot, its dataset and its
\* spelling until it ends.
LEMMA LoadingSteps ==
    ASSUME Safe, NEW r \in Request, Step(r), ~ReadSummary(r), ~Writes(r),
           KindsFit(r), pc'[r] \in Loading \cup {"rollback"}
    PROVE  /\ pc[r] \in Loading \cup {"rollback"} /\ snap'[r] = snap[r]
           /\ pc[r] \in Loading => got'[r].codes = got[r].codes /\ got'[r].rows = got[r].rows
           /\ pc[r] = "rollback" => pc'[r] = pc[r] /\ result'[r] = result[r]
<1> USE DEF Loading, Go, Fail, ReadOnly
<1>t. pc \in [Request -> Pc] /\ got \in [Request -> Got] /\ snap \in [Request -> Rows]
      /\ result \in [Request -> Result]
    BY DEF Safe, TypeOK
<1>1. CASE WriterStep(r)
    <2>1. pc[r] \in Replacing \cup {"lock", "wipe", "remove"} => Writes(r)
        BY DEF KindsFit, Writes
    <2>2. CASE Commit(r) \/ Ack(r)
        BY <1>t, <2>2 DEF Commit, Ack
    <2>3. CASE ~Commit(r) /\ ~Ack(r)
        <3>1. pc[r] \in Replacing \cup {"lock", "wipe", "remove"}
            BY <1>1, <2>3 DEF WriterStep, AdvisoryLock, InsertProvider, SelectProvider,
               SelectDataset, InsertDataset, ClearObservations, ClearDimensions,
               InsertStructure, CopyObservations, UpdateDataset, DeleteObservations,
               DeleteDataset, Replacing
        <3> QED
            BY <2>1, <3>1
    <2> QED
        BY <2>2, <2>3
<1>2. CASE ReaderStep(r)
    <2>1. CASE ReadDimensions(r)
        BY <1>t, <2>1 DEF ReadDimensions, Got
    <2>2. CASE ReadCategories(r)
        <3>1. got'[r] = [got[r] EXCEPT !.cats = got'[r].cats, !.left = got'[r].left]
            BY <2>2, CategoriesRead DEF Safe
        <3>2. pc[r] = "categories" /\ snap' = snap
            BY <2>2 DEF ReadCategories
        <3> QED
            BY <1>t, <3>1, <3>2 DEF Got
    <2>3. CASE ReadCells(r)
        BY <1>t, <2>3 DEF ReadCells, Got
    <2>4. CASE ReadBatch(r)
        <3>1. \E S, T : got' = [got EXCEPT ![r].left = S, ![r].cells = T]
            BY <1>t, <2>4 DEF ReadBatch, Got
        <3>2. pc[r] = "batch" /\ snap' = snap
            BY <2>4 DEF ReadBatch
        <3> QED
            BY <1>t, <3>1, <3>2 DEF Got
    <2>5. CASE Finish(r)
        BY <1>t, <2>5 DEF Finish
    <2>6. CASE GetSummary(r) \/ ListDatasets(r) \/ ListProviders(r)
        <3>1. pc' = [pc EXCEPT ![r] = "done"]
            BY <2>6 DEF GetSummary, ListDatasets, ListProviders, Answer
        <3> QED
            BY <1>t, <3>1
    <2> QED
        BY <1>2, <2>1, <2>2, <2>3, <2>4, <2>5, <2>6 DEF ReaderStep
<1>3. CASE Begin(r) \/ Rollback(r) \/ GiveUp(r)
    BY <1>3, <1>t DEF Begin, Rollback, GiveUp, FirstPc
<1>4. CASE ServerStep(r)
    <2>1. pc[r] \in {"commit", "failed"} /\ pc' = pc
        BY <1>4 DEF ServerStep, ServerCommit, ServerAbort, Safe, LockHeld
    <2> QED
        BY <2>1
<1> QED
    BY <1>1, <1>2, <1>3, <1>4 DEF Step, ClientStep

\* What a reader will answer is decided by its snapshot.
LEMMA ReaderToldStep ==
    ASSUME Safe, Safe', NoInternalError', NEW r \in Request, Step(r), KindsFit(r), ReaderTold(r)
    PROVE  ReaderTold(r)'
<1> DEFINE rows == DatasetRows(snap[r], call[r])
           Shown == rows # {} /\ got[r].codes = ProviderRows(snap[r], call[r])
           Fits == \A m \in got[r].dims : m.structure = call[r].structure
           Refused ==
              \/ result[r] = "not_found" /\ rows = {}
              \/ /\ result[r] = "invalid_selection" /\ call[r].kind = "query" /\ rows # {}
                 /\ \E m \in DimensionRows(snap[r], Ids(rows)) : m.structure # call[r].structure
<1>0. call' = call
    BY Frame DEF Safe
<1>t. pc \in [Request -> Pc] /\ got \in [Request -> Got] /\ snap \in [Request -> Rows]
      /\ result \in [Request -> Result]
    BY DEF Safe, TypeOK
<1>w. pc[r] \in Loading \/ pc[r] = "summary" => ~Writes(r)
    BY DEF KindsFit, Transactional, Writes
<1>k. /\ pc[r] \in Loading => Shown
      /\ pc[r] \in {"batch", "finish"} /\ call[r].kind = "query" => Fits
      /\ pc[r] = "rollback" /\ ~Writes(r) => Refused
    BY DEF ReaderTold
<1>1. CASE ReadSummary(r)
    <2>1. CASE pc'[r] = "dimensions"
        <3>1. /\ DatasetRows(db, call[r]) # {} /\ snap'[r] = db
              /\ got'[r].codes = ProviderRows(db, call[r])
            BY <1>1, <1>t, <2>1 DEF ReadSummary, Go, Fail, Got
        <3> QED
            BY <1>0, <2>1, <3>1 DEF ReaderTold
    <2>2. CASE pc'[r] # "dimensions"
        <3>1. /\ DatasetRows(db, call[r]) = {} /\ snap'[r] = db
              /\ pc'[r] = "rollback" /\ result'[r] = "not_found"
            BY <1>1, <1>t, <2>2 DEF ReadSummary, Go, Fail
        <3> QED
            BY <1>0, <3>1 DEF ReaderTold, Loading
    <2> QED
        BY <2>1, <2>2
<1>2. CASE ~ReadSummary(r) /\ Writes(r)
    <2>1. call[r].kind # "query" /\ pc'[r] \notin Loading
        <3>1. KindsFit(r)'
            BY KindsStep
        <3> QED
            BY <1>0, <1>2, <3>1 DEF KindsFit, Transactional, Writes
    <2> QED
        BY <1>0, <1>2, <2>1 DEF ReaderTold, Writes
<1>3. CASE ~ReadSummary(r) /\ ~Writes(r) /\ pc'[r] \notin Loading \cup {"rollback"}
    BY <1>3 DEF ReaderTold, Loading
<1>4. CASE ~ReadSummary(r) /\ ~Writes(r) /\ pc'[r] \in Loading \cup {"rollback"}
    <2>1. /\ pc[r] \in Loading \cup {"rollback"} /\ snap'[r] = snap[r]
          /\ pc[r] \in Loading => got'[r].codes = got[r].codes
          /\ pc[r] = "rollback" => pc'[r] = pc[r] /\ result'[r] = result[r]
        BY <1>4, LoadingSteps
    <2>2. CASE pc[r] = "rollback"
        BY <1>0, <1>4, <1>k, <2>1, <2>2 DEF ReaderTold, Writes, Loading
    <2>3. CASE pc[r] \in Loading
        <3>1. Shown'
            BY <1>0, <1>k, <2>1, <2>3
        <3>2. pc'[r] \in {"batch", "finish"} /\ call[r].kind = "query" => Fits'
            <4> SUFFICES ASSUME pc'[r] \in {"batch", "finish"}, call[r].kind = "query"
                         PROVE  Fits'
                OBVIOUS
            <4>1. CASE ReadCategories(r)
                <5>1. \A m \in got[r].dims : m.structure = call[r].structure
                    BY <1>t, <4>1 DEF ReadCategories, Go, Fail
                <5>2. got'[r].dims = got[r].dims
                    BY <1>t, <4>1, CategoriesRead DEF Safe, Got
                <5> QED
                    BY <1>0, <5>1, <5>2
            <4>2. CASE ReadBatch(r)
                <5>1. /\ pc[r] = "batch"
                      /\ \E S, T : got' = [got EXCEPT ![r].left = S, ![r].cells = T]
                    BY <1>t, <4>2 DEF ReadBatch, Go, Got
                <5>2. got'[r].dims = got[r].dims
                    BY <1>t, <5>1 DEF Got
                <5> QED
                    BY <1>0, <1>k, <5>1, <5>2
            <4>3. ~ReadCells(r) /\ ~ReadDimensions(r)
                BY <1>t DEF ReadCells, ReadDimensions, Go, Safe, ReadersStaged, ReaderStaged
            <4> QED
                BY <2>3, <4>1, <4>2, <4>3, LoadingReads DEF Loading
        <3>3. pc'[r] = "rollback" => Refused'
            <4> SUFFICES ASSUME pc'[r] = "rollback"
                         PROVE  Refused'
                OBVIOUS
            <4>1. ReadCategories(r)
                <5>1. ~ReadDimensions(r) /\ ~ReadCells(r) /\ ~ReadBatch(r)
                    BY <1>t DEF ReadDimensions, ReadCells, ReadBatch, Go
                <5> QED
                    BY <2>3, <5>1, LoadingReads
            <4>2. result'[r] # "error"
                BY DEF NoInternalError
            <4>3. /\ result'[r] = "invalid_selection" /\ call[r].kind = "query"
                  /\ \E m \in got[r].dims : m.structure # call[r].structure
                BY <1>t, <4>1, <4>2 DEF ReadCategories, Go, Fail
            <4>4. got[r].dims = DimensionRows(snap[r], Ids(rows))
                BY <2>3, <4>1 DEF ReadCategories, Go, Fail, Safe, ReadersStaged, ReaderStaged, Loaded
            <4> QED
                BY <1>0, <1>k, <2>1, <2>3, <4>3, <4>4
        <3> QED
            BY <1>0, <3>1, <3>2, <3>3 DEF ReaderTold
    <2> QED
        BY <1>4, <2>1, <2>2, <2>3
<1> QED
    BY <1>1, <1>2, <1>3, <1>4

-----------------------------------------------------------------------------
\* A request's memory always tells its effect.
THEOREM TellsItsEffect == Spec => []AllTold
<1>1. Init => AllTold
    <2> SUFFICES ASSUME Init, NEW r \in Request PROVE Told(r)
        BY DEF AllTold
    <2>1. /\ pc[r] = "queued" /\ tx[r] = "none" /\ ins[r] = NoRows /\ got[r] = NoGot
          /\ NoRows.providers = {} /\ NoGot.dims = {} /\ NoGot.cells = {}
        BY DEF Init, NoRows, NoGot
    <2> QED
        BY <2>1 DEF Told, KindsFit, OwnProvider, CodeKnown, OutcomeTold, RowsTold, ReaderTold,
           Prepared, Replacing, Deciding, Loading
<1>2. Safe /\ Safe' /\ NoInternalError' /\ AllTold /\ [Next]_vars => AllTold'
    <2> SUFFICES ASSUME Safe, Safe', NoInternalError', AllTold, [Next]_vars, NEW q \in Request
                 PROVE  Told(q)'
        BY DEF AllTold
    <2>1. CASE UNCHANGED vars
        <3>1. Told(q)
            BY DEF AllTold
        <3>2. /\ db' = db /\ tx' = tx /\ ins' = ins /\ del' = del /\ snap' = snap
              /\ call' = call /\ pc' = pc /\ got' = got /\ result' = result
            BY <2>1 DEF vars
        <3> QED
            BY <3>1, <3>2 DEF Told, KindsFit, OwnProvider, CodeKnown, OutcomeTold, RowsTold,
               ReaderTold, Prepared, Writes, Seen
    <2>2. ASSUME NEW r \in Request, Step(r) PROVE Told(q)'
        <3>1. Told(q) /\ Told(r)
            BY DEF AllTold
        <3>2. CASE q # r
            BY <2>2, <3>1, <3>2, ToldElsewhere
        <3>3. CASE q = r
            <4>1. KindsFit(r)' /\ OwnProvider(r)'
                BY <2>2, <3>1, KindsStep, OwnProviderStep DEF Told
            <4>2. CodeKnown(r)' /\ OutcomeTold(r)'
                BY <2>2, <3>1, CodeStep, OutcomeStep DEF Told
            <4>3. RowsTold(r)' /\ ReaderTold(r)'
                BY <2>2, <3>1, RowsStep, ReaderToldStep DEF Told
            <4> QED
                BY <3>3, <4>1, <4>2, <4>3 DEF Told
        <3> QED
            BY <3>2, <3>3
    <2> QED
        BY <2>1, <2>2 DEF Next, Terminating, Step
<1> QED
    BY <1>1, <1>2, SafeAlways, InternalErrors, PTL DEF Spec

-----------------------------------------------------------------------------
(***************************************************************************)
(* The refinement mapping, request by request and identity by identity.    *)
(***************************************************************************)
StateOf(p, t) ==
    CASE p = "done" -> "answered"
      [] p = "failed" -> IF t = "committing" THEN "abandoned" ELSE "ended"
      [] p \in Loading \cup {"rollback"} -> "effected"
      [] p = "commit" /\ t = "committed" -> "effected"
      [] OTHER -> "pending"

AnswerOf(r) ==
    CASE stateView[r] = "answered" -> Returned(r)
      [] stateView[r] = "effected" -> IF Writes(r) THEN Returned(r) ELSE Foretold(r)
      [] OTHER -> Blank

EntryOf(rows, i) ==
    {[creator |-> d.id, writer |-> d.by] :
        d \in {e \in rows.datasets : <<e.provider, e.dataset>> = i}}
SpellingOf(rows, p) == {w.code : w \in {v \in rows.providers : v.provider = p}}

LEMMA Views ==
    /\ entryView = [i \in Identity |-> EntryOf(db, i)]
    /\ entryView' = [i \in Identity |-> EntryOf(db', i)]
    /\ spellingView = [p \in Provider |-> SpellingOf(db, p)]
    /\ spellingView' = [p \in Provider |-> SpellingOf(db', p)]
    /\ stateView = [r \in Request |-> StateOf(pc[r], tx[r])]
    /\ stateView' = [r \in Request |-> StateOf(pc'[r], tx'[r])]
    /\ answerView = [r \in Request |-> AnswerOf(r)]
    /\ answerView' = [r \in Request |-> AnswerOf(r)']
<1>1. \A p : p \in Loading \cup {"rollback"} <=>
                p \in {"dimensions", "categories", "cells", "batch", "finish", "rollback"}
    BY DEF Loading
<1>2. ASSUME NEW r \in Request
      PROVE  stateView[r] = StateOf(pc[r], tx[r]) /\ stateView'[r] = StateOf(pc'[r], tx'[r])
    BY <1>1 DEF stateView, StateOf
<1>3. /\ stateView = [r \in Request |-> StateOf(pc[r], tx[r])]
      /\ stateView' = [r \in Request |-> StateOf(pc'[r], tx'[r])]
    BY <1>2 DEF stateView
<1> QED
    BY <1>3 DEF entryView, spellingView, answerView, AnswerOf, EntryOf, SpellingOf

\* A step of r changes the state and the answer of r alone, and the datasets
\* and spellings only as it changes the committed rows.
LEMMA ViewsStep ==
    ASSUME Safe, NEW r \in Request, Step(r)
    PROVE  /\ stateView' = [stateView EXCEPT ![r] = StateOf(pc'[r], tx'[r])]
           /\ answerView' = [answerView EXCEPT ![r] = AnswerOf(r)']
           /\ stateView[r] = StateOf(pc[r], tx[r]) /\ answerView[r] = AnswerOf(r)
           /\ stateView'[r] = StateOf(pc'[r], tx'[r])
           /\ db' = db => entryView' = entryView /\ spellingView' = spellingView
<1>1. /\ call' = call
      /\ \A q \in Request \ {r} :
            /\ pc'[q] = pc[q] /\ got'[q] = got[q] /\ result'[q] = result[q]
            /\ tx'[q] = tx[q] /\ snap'[q] = snap[q]
    BY Frame DEF Safe
<1>2. /\ stateView = [q \in Request |-> StateOf(pc[q], tx[q])]
      /\ answerView = [q \in Request |-> AnswerOf(q)]
    BY Views
<1>3. stateView' = [q \in Request |-> StateOf(pc'[q], tx'[q])]
    BY Views
<1>4. answerView' = [q \in Request |-> AnswerOf(q)']
    BY Views
<1>5. \A q \in Request \ {r} : stateView'[q] = stateView[q]
    BY <1>1, <1>2, <1>3
<1>6. ASSUME NEW q \in Request \ {r} PROVE AnswerOf(q)' = AnswerOf(q)
    BY <1>1, <1>5 DEF AnswerOf, Returned, Foretold, Writes
<1>7. db' = db => entryView' = entryView /\ spellingView' = spellingView
    BY DEF entryView, spellingView
<1> QED
    BY <1>2, <1>3, <1>4, <1>5, <1>6, <1>7

\* Dataset rows as an answer shows them, each with the spellings of its provider.
Shown(rows, codes) ==
    UNION {{[provider |-> d.provider, dataset |-> d.dataset, spelling |-> p.code,
             creator |-> d.id, writer |-> d.by] :
                p \in {q \in codes : q.provider = d.provider}} : d \in rows}

LEMMA ShownRow ==
    ASSUME NEW rows, NEW codes, NEW x
    PROVE  x \in Shown(rows, codes) <=>
              \E d \in rows, p \in codes :
                 /\ p.provider = d.provider
                 /\ x = [provider |-> d.provider, dataset |-> d.dataset, spelling |-> p.code,
                         creator |-> d.id, writer |-> d.by]
BY DEF Shown

\* What the abstract map shows is what a join of the tables shows.
LEMMA SeenRows ==
    ASSUME NEW rows \in Rows, NEW ids \in SUBSET Identity
    PROVE  Atomic!Seen([i \in Identity |-> EntryOf(rows, i)],
                       [p \in Provider |-> SpellingOf(rows, p)], ids)
              = Shown({d \in rows.datasets : <<d.provider, d.dataset>> \in ids}, rows.providers)
<1> DEFINE E == [i \in Identity |-> EntryOf(rows, i)]
           S == [p \in Provider |-> SpellingOf(rows, p)]
           found == {d \in rows.datasets : <<d.provider, d.dataset>> \in ids}
<1>1. \A i \in ids : i[1] \in Provider /\ i \in Identity /\ i = <<i[1], i[2]>>
    BY DEF Identity
<1>2. \A i \in ids : E[i] = EntryOf(rows, i) /\ S[i[1]] = SpellingOf(rows, i[1])
    BY <1>1
<1> HIDE DEF E, S
<1>3. ASSUME NEW x \in Atomic!Seen(E, S, ids) PROVE x \in Shown(found, rows.providers)
    <2>0. PICK i \in ids : \E e \in E[i], t \in S[i[1]] :
             x = [provider |-> i[1], dataset |-> i[2], spelling |-> t,
                  creator |-> e.creator, writer |-> e.writer]
        BY DEF Atomic!Seen
    <2>1. PICK e \in E[i], t \in S[i[1]] :
             x = [provider |-> i[1], dataset |-> i[2], spelling |-> t,
                  creator |-> e.creator, writer |-> e.writer]
        BY <2>0
    <2>2. PICK d \in rows.datasets :
             <<d.provider, d.dataset>> = i /\ e = [creator |-> d.id, writer |-> d.by]
        BY <1>2, <2>1 DEF EntryOf
    <2>3. PICK p \in rows.providers : p.provider = i[1] /\ t = p.code
        BY <1>2, <2>1 DEF SpellingOf
    <2>4. d \in found /\ p.provider = d.provider /\ i[1] = d.provider /\ i[2] = d.dataset
        BY <2>2, <2>3
    <2> HIDE DEF found
    <2> QED
        BY <2>1, <2>2, <2>3, <2>4, ShownRow
<1>4. ASSUME NEW x \in Shown(found, rows.providers) PROVE x \in Atomic!Seen(E, S, ids)
    <2>1. PICK d \in found, p \in rows.providers :
             /\ p.provider = d.provider
             /\ x = [provider |-> d.provider, dataset |-> d.dataset, spelling |-> p.code,
                     creator |-> d.id, writer |-> d.by]
        BY ShownRow
    <2> DEFINE i == <<d.provider, d.dataset>>
               e == [creator |-> d.id, writer |-> d.by]
    <2>2. i \in ids /\ i[1] = d.provider /\ i[2] = d.dataset
        OBVIOUS
    <2>3. e \in E[i]
        BY <1>2, <2>2 DEF EntryOf
    <2>4. p.code \in S[i[1]]
        BY <1>2, <2>1, <2>2 DEF SpellingOf
    <2>5. e.creator = d.id /\ e.writer = d.by
        OBVIOUS
    <2> HIDE DEF i, e
    <2>6. x = [provider |-> i[1], dataset |-> i[2], spelling |-> p.code,
               creator |-> e.creator, writer |-> e.writer]
        BY <2>1, <2>2, <2>5
    <2>7. x \in {[provider |-> i[1], dataset |-> i[2], spelling |-> t,
                  creator |-> f.creator, writer |-> f.writer] :
                      f \in E[i], t \in S[i[1]]}
        BY <2>3, <2>4, <2>6
    <2> QED
        BY <2>2, <2>7 DEF Atomic!Seen
<1> QED
    BY <1>3, <1>4 DEF E, S

\* Two sets of spellings that agree on the providers of the rows show the same.
LEMMA ShownAlike ==
    ASSUME NEW rows, NEW codes, NEW others,
           \A d \in rows : {q \in codes : q.provider = d.provider}
                             = {q \in others : q.provider = d.provider}
    PROVE  Shown(rows, codes) = Shown(rows, others)
BY DEF Shown

\* Rows that all have a provider are shown, and no others.
LEMMA ShownSome ==
    ASSUME NEW rows, NEW codes, \A d \in rows : \E p \in codes : p.provider = d.provider
    PROVE  /\ Shown(rows, codes) = {} <=> rows = {}
           /\ {s.writer : s \in Shown(rows, codes)} = {d.by : d \in rows}
<1>1. ASSUME NEW d \in rows PROVE \E s \in Shown(rows, codes) : s.writer = d.by
    <2>1. PICK p \in codes : p.provider = d.provider
        OBVIOUS
    <2> DEFINE s == [provider |-> d.provider, dataset |-> d.dataset, spelling |-> p.code,
                     creator |-> d.id, writer |-> d.by]
    <2>2. s \in Shown(rows, codes)
        BY <2>1, ShownRow
    <2>3. s.writer = d.by
        OBVIOUS
    <2> QED
        BY <2>2, <2>3
<1>2. ASSUME NEW s \in Shown(rows, codes) PROVE \E d \in rows : s.writer = d.by
    BY ShownRow
<1> QED
    BY <1>1, <1>2

\* What the abstract map shows of some identities.
LEMMA SeenNow ==
    ASSUME Safe, NEW ids \in SUBSET Identity
    PROVE  Atomic!Seen(entryView, spellingView, ids)
              = Shown({d \in db.datasets : <<d.provider, d.dataset>> \in ids}, db.providers)
BY Views, SeenRows DEF Safe, TypeOK

LEMMA SeenTarget ==
    ASSUME Safe, NEW r \in Request
    PROVE  /\ Atomic!Target(r) = IdentityOf(call[r]) /\ Atomic!Target(r) \in Identity
           /\ Atomic!Seen(entryView, spellingView, {Atomic!Target(r)})
                 = Shown(DatasetRows(db, call[r]), db.providers)
<1>1. Atomic!Target(r) = IdentityOf(call[r]) /\ IdentityOf(call[r]) \in Identity
    BY DEF Atomic!Target, IdentityOf, Identity, Safe, TypeOK, AnyCall
<1>2. {d \in db.datasets : <<d.provider, d.dataset>> \in {Atomic!Target(r)}}
         = DatasetRows(db, call[r])
    BY <1>1 DEF DatasetRows, IdentityOf
<1>3. {Atomic!Target(r)} \in SUBSET Identity
    BY <1>1
<1> QED
    BY <1>1, <1>2, <1>3, SeenNow

\* What the statement of an autocommit read finds is what the map shows.
Listing(found, codes, empty) ==
    IF found = {} THEN [Blank EXCEPT !.status = empty]
    ELSE Reply("ok", found, codes, {}, {})

LEMMA ReadingStatement ==
    ASSUME Safe, NEW r \in Request
    PROVE  /\ call[r].kind = "summary" =>
                 Atomic!Reading(r) = Listing(DatasetRows(db, call[r]), db.providers, "not_found")
           /\ call[r].kind = "datasets" =>
                 Atomic!Reading(r) =
                    Listing({d \in db.datasets : d.provider = call[r].provider},
                            db.providers, "not_found")
           /\ call[r].kind = "providers" =>
                 Atomic!Reading(r) = Listing(db.datasets, db.providers, "ok")
<1> DEFINE List(ids, empty) ==
              LET seen == Atomic!Seen(entryView, spellingView, ids)
              IN  IF seen = {} THEN Atomic!Status(empty)
                  ELSE [Atomic!Status("ok") EXCEPT !.seen = seen]
<1>1. ASSUME NEW ids \in SUBSET Identity, NEW found \in SUBSET db.datasets, NEW empty,
             found = {d \in db.datasets : <<d.provider, d.dataset>> \in ids}
      PROVE  List(ids, empty) = Listing(found, db.providers, empty)
    <2>1. Atomic!Seen(entryView, spellingView, ids) = Shown(found, db.providers)
        BY <1>1, SeenNow
    <2>2. Shown(found, db.providers) = {} <=> found = {}
        BY ShownSome DEF Safe, ProvidersPresent
    <2>3. Reply("ok", found, db.providers, {}, {})
             = [status |-> "ok", seen |-> Shown(found, db.providers),
                structures |-> {}, cells |-> {}]
        BY DEF Reply, Shown
    <2>4. /\ Atomic!Status(empty) = [Blank EXCEPT !.status = empty]
          /\ \A seen : [Atomic!Status("ok") EXCEPT !.seen = seen]
                          = [status |-> "ok", seen |-> seen, structures |-> {}, cells |-> {}]
        <3>1. \A s : Atomic!Status(s) = [Blank EXCEPT !.status = s]
            BY DEF Atomic!Status, Atomic!NoAnswer, Blank
        <3>2. Atomic!Status("ok") = [status |-> "ok", seen |-> {}, structures |-> {}, cells |-> {}]
            BY <3>1 DEF Blank
        <3> QED
            BY <3>1, <3>2
    <2> HIDE DEF Shown
    <2> QED
        BY <2>1, <2>2, <2>3, <2>4 DEF Listing
<1> HIDE DEF List
<1>2. /\ call[r].kind = "summary" => Atomic!Reading(r) = List({Atomic!Target(r)}, "not_found")
      /\ call[r].kind = "datasets" =>
            Atomic!Reading(r) =
               List({i \in Atomic!Identity : i[1] = call[r].provider}, "not_found")
      /\ call[r].kind = "providers" => Atomic!Reading(r) = List(Atomic!Identity, "ok")
    BY DEF List, Atomic!Reading
<1>3. Atomic!Identity = Identity
    BY DEF Atomic!Identity, Identity
<1>4. \A d \in db.datasets : <<d.provider, d.dataset>> \in Identity
    BY DEF Safe, TypeOK, Rows, DatasetRow, Identity
<1>5. List({Atomic!Target(r)}, "not_found")
         = Listing(DatasetRows(db, call[r]), db.providers, "not_found")
    <2>1. Atomic!Target(r) = IdentityOf(call[r]) /\ Atomic!Target(r) \in Identity
        BY SeenTarget
    <2>2. DatasetRows(db, call[r])
             = {d \in db.datasets : <<d.provider, d.dataset>> \in {Atomic!Target(r)}}
        BY <2>1 DEF DatasetRows, IdentityOf
    <2>3. DatasetRows(db, call[r]) \in SUBSET db.datasets
        BY DEF DatasetRows
    <2> QED
        BY <1>1, <2>1, <2>2, <2>3
<1>6. List({i \in Identity : i[1] = call[r].provider}, "not_found")
         = Listing({d \in db.datasets : d.provider = call[r].provider}, db.providers, "not_found")
    <2> DEFINE ids == {i \in Identity : i[1] = call[r].provider}
               found == {d \in db.datasets : d.provider = call[r].provider}
    <2>1. found = {d \in db.datasets : <<d.provider, d.dataset>> \in ids}
        BY <1>4
    <2>2. ids \in SUBSET Identity /\ found \in SUBSET db.datasets
        OBVIOUS
    <2> HIDE DEF ids, found
    <2>3. List(ids, "not_found") = Listing(found, db.providers, "not_found")
        BY <1>1, <2>1, <2>2
    <2> QED
        BY <2>3 DEF ids, found
<1>7. List(Identity, "ok") = Listing(db.datasets, db.providers, "ok")
    <2>1. db.datasets = {d \in db.datasets : <<d.provider, d.dataset>> \in Identity}
        BY <1>4
    <2> QED
        BY <1>1, <2>1
<1> QED
    BY <1>2, <1>3, <1>5, <1>6, <1>7

\* What a transactional read of call c answers from the rows of its snapshot.
Foretelling(c, rows) ==
    LET found == DatasetRows(rows, c)
        dims == DimensionRows(rows, Ids(found))
        cells == {o \in ObservationRows(rows, Ids(found)) :
                    c.kind # "structure" /\ (c.kind = "query" => o.cell \in c.cells)}
    IN  IF found = {} THEN [Blank EXCEPT !.status = "not_found"]
        ELSE IF c.kind = "query" /\ \E m \in dims : m.structure # c.structure
        THEN [Blank EXCEPT !.status = "invalid_selection"]
        ELSE Reply("ok", found, ProviderRows(rows, c), dims, cells)

LEMMA ForetoldFrom ==
    ASSUME NEW r \in Request
    PROVE  /\ Foretold(r) = Foretelling(call[r], snap[r])
           /\ Foretold(r)' = Foretelling(call'[r], snap'[r])
BY DEF Foretold, Foretelling

\* One dataset, the structure and the cells of its last writer.
LEMMA OneDataset ==
    ASSUME NEW calls, NEW rows \in Rows, AllSound(calls, rows), NEW c,
           NEW d \in DatasetRows(rows, c)
    PROVE  /\ DatasetRows(rows, c) = {d}
           /\ DimensionRows(rows, Ids({d})) = Dims(calls, d, d.by)
           /\ ObservationRows(rows, Ids({d})) = Obs(calls, d, d.by)
<1>1. d \in rows.datasets /\ <<d.provider, d.dataset>> = IdentityOf(c)
    BY DEF DatasetRows, IdentityOf
<1>2. /\ Part(calls, rows, <<d.provider, d.dataset>>) = Filled(calls, d, d.by)
      /\ DimensionRows(rows, Ids({d})) = Dims(calls, d, d.by)
      /\ ObservationRows(rows, Ids({d})) = Obs(calls, d, d.by)
    BY <1>1, WholePart
<1>3. Filled(calls, d, d.by).datasets = {d}
    BY DEF Filled
<1>4. DatasetRows(rows, c) = Part(calls, rows, IdentityOf(c)).datasets
    BY SelectPart
<1> QED
    BY <1>1, <1>2, <1>3, <1>4

LEMMA SameSpellings ==
    ASSUME NEW rows, NEW c, NEW found \in SUBSET DatasetRow,
           \A d \in found : d.provider = c.provider
    PROVE  Shown(found, ProviderRows(rows, c)) = Shown(found, rows.providers)
<1>1. ASSUME NEW d \in found
      PROVE  {q \in ProviderRows(rows, c) : q.provider = d.provider}
                = {q \in rows.providers : q.provider = d.provider}
    BY DEF ProviderRows
<1> QED
    BY <1>1, ShownAlike

LEMMA ReadingTransaction ==
    ASSUME Safe, NEW r \in Request, call[r].kind \in Transactional
    PROVE  Atomic!Reading(r) = Foretelling(call[r], db)
<1> DEFINE c == call[r]
           found == DatasetRows(db, c)
           here == Shown(found, db.providers)
<1>1. Atomic!Seen(entryView, spellingView, {Atomic!Target(r)}) = here
    BY SeenTarget
<1>2. /\ here = {} <=> found = {}
      /\ {s.writer : s \in here} = {d.by : d \in found}
    <2>1. \A d \in found : \E p \in db.providers : p.provider = d.provider
        BY DEF Safe, ProvidersPresent, DatasetRows
    <2> HIDE DEF found
    <2> QED
        BY <2>1, ShownSome
<1>3. db \in Rows /\ AllSound(call, db) /\ found \in SUBSET DatasetRow
    BY SelectType DEF Safe, TypeOK, ContentsStaged
<1>4. CASE found = {}
    <2>1. Atomic!Reading(r) = Atomic!Status("not_found")
        BY <1>1, <1>2, <1>4 DEF Atomic!Reading, Transactional
    <2>2. Atomic!Status("not_found") = [Blank EXCEPT !.status = "not_found"]
        BY DEF Atomic!Status, Atomic!NoAnswer, Blank
    <2> QED
        BY <1>4, <2>1, <2>2 DEF Foretelling
<1>5. CASE found # {}
    <2>0. PICK d : d \in found
        BY <1>5
    <2>1. /\ found = {d}
          /\ DimensionRows(db, Ids(found)) = Dims(call, d, d.by)
          /\ ObservationRows(db, Ids(found)) = Obs(call, d, d.by)
        <3>1. /\ found = {d}
              /\ DimensionRows(db, Ids({d})) = Dims(call, d, d.by)
              /\ ObservationRows(db, Ids({d})) = Obs(call, d, d.by)
            BY <1>3, <2>0, OneDataset
        <3> QED
            BY <3>1
    <2>2. {s.writer : s \in here} = {d.by}
        BY <1>2, <2>1
    <2> DEFINE w == call[d.by]
               stale == \E s \in here : call[s.writer].structure # c.structure
               wanted == IF c.kind = "query" THEN w.cells \cap c.cells ELSE w.cells
    <2> HIDE DEF here
    <2>3. stale <=> w.structure # c.structure
        BY <2>2
    <2>4. Atomic!Content(r, here)
             = [status |-> "ok", seen |-> here, structures |-> {w.structure},
                cells |-> {<<x, d.by>> : x \in wanted}]
        <3> DEFINE writers == {s.writer : s \in here}
                   own(v) == IF c.kind = "query" THEN call[v].cells \cap c.cells
                             ELSE call[v].cells
        <3>1. Atomic!Content(r, here)
                 = [status |-> "ok", seen |-> here,
                    structures |-> {call[v].structure : v \in writers},
                    cells |-> UNION {{<<x, v>> : x \in own(v)} : v \in writers}]
            BY DEF Atomic!Content
        <3>2. writers = {d.by} /\ own(d.by) = wanted
            BY <2>2
        <3> HIDE DEF writers, own, wanted
        <3>3. {call[v].structure : v \in writers} = {w.structure}
            BY <3>2
        <3>4. UNION {{<<x, v>> : x \in own(v)} : v \in writers} = {<<x, d.by>> : x \in wanted}
            BY <3>2
        <3> QED
            BY <3>1, <3>3, <3>4
    <2> DEFINE cells == {o \in Obs(call, d, d.by) :
                            c.kind # "structure" /\ (c.kind = "query" => o.cell \in c.cells)}
    <2>5. /\ {m.structure : m \in Dims(call, d, d.by)} = {w.structure}
          /\ (\E m \in Dims(call, d, d.by) : m.structure # c.structure) <=>
                w.structure # c.structure
        BY DEF Dims
    <2>6. {<<o.cell, o.by>> : o \in cells}
             = IF c.kind = "structure" THEN {} ELSE {<<x, d.by>> : x \in wanted}
        <3>1. CASE c.kind = "structure"
            BY <3>1
        <3>2. CASE c.kind # "structure"
            <4>1. \A o \in Obs(call, d, d.by) : o.by = d.by /\ o.cell \in w.cells
                BY DEF Obs
            <4>2. \A x \in w.cells : [dataset |-> d.id, cell |-> x, by |-> d.by]
                                         \in Obs(call, d, d.by)
                BY DEF Obs
            <4>3. ASSUME NEW x \in wanted
                  PROVE  \E o \in cells : o.cell = x /\ o.by = d.by
                <5> DEFINE o == [dataset |-> d.id, cell |-> x, by |-> d.by]
                <5>1. o.cell = x /\ o.by = d.by /\ o \in Obs(call, d, d.by)
                    BY <4>2
                <5> QED
                    BY <3>2, <5>1
            <4>4. \A o \in cells : o.cell \in wanted /\ o.by = d.by
                BY <3>2, <4>1
            <4> HIDE DEF cells, wanted
            <4> QED
                BY <3>2, <4>3, <4>4
        <3> QED
            BY <3>1, <3>2
    <2>7. Shown(found, ProviderRows(db, c)) = here
        <3>1. \A e \in found : e.provider = c.provider
            BY DEF DatasetRows
        <3> HIDE DEF found, c
        <3> QED
            BY <1>3, <3>1, SameSpellings DEF here
    <2>8. Reply("ok", found, ProviderRows(db, c), Dims(call, d, d.by), cells)
             = [status |-> "ok", seen |-> here, structures |-> {w.structure},
                cells |-> IF c.kind = "structure" THEN {} ELSE {<<x, d.by>> : x \in wanted}]
        BY <2>5, <2>6, <2>7 DEF Reply, Shown
    <2>9. Foretelling(c, db) =
             IF c.kind = "query" /\ w.structure # c.structure
             THEN [Blank EXCEPT !.status = "invalid_selection"]
             ELSE Reply("ok", found, ProviderRows(db, c), Dims(call, d, d.by), cells)
        BY <1>5, <2>1, <2>5 DEF Foretelling
    <2>10. Atomic!Reading(r) =
              IF c.kind = "query" /\ stale THEN Atomic!Status("invalid_selection")
              ELSE IF c.kind = "structure" THEN [Atomic!Content(r, here) EXCEPT !.cells = {}]
              ELSE Atomic!Content(r, here)
        BY <1>1, <1>2, <1>5 DEF Atomic!Reading, Transactional
    <2>11. Atomic!Status("invalid_selection") = [Blank EXCEPT !.status = "invalid_selection"]
        BY DEF Atomic!Status, Atomic!NoAnswer, Blank
    <2>12. [Atomic!Content(r, here) EXCEPT !.cells = {}]
              = [status |-> "ok", seen |-> here, structures |-> {w.structure}, cells |-> {}]
        BY <2>4
    <2> DEFINE all == Reply("ok", found, ProviderRows(db, c), Dims(call, d, d.by), cells)
               content == Atomic!Content(r, here)
    <2>13. all = IF c.kind = "structure" THEN [content EXCEPT !.cells = {}] ELSE content
        <3>1. CASE c.kind = "structure"
            BY <2>8, <2>12, <3>1
        <3>2. CASE c.kind # "structure"
            BY <2>4, <2>8, <3>2
        <3> QED
            BY <3>1, <3>2
    <2> HIDE DEF all, content, stale
    <2>14. Foretelling(c, db) = IF c.kind = "query" /\ w.structure # c.structure
                               THEN [Blank EXCEPT !.status = "invalid_selection"] ELSE all
        BY <2>9 DEF all
    <2>15. Atomic!Reading(r) =
              IF c.kind = "query" /\ stale THEN Atomic!Status("invalid_selection")
              ELSE IF c.kind = "structure" THEN [content EXCEPT !.cells = {}] ELSE content
        BY <2>10 DEF content
    <2> QED
        BY <2>3, <2>11, <2>13, <2>14, <2>15
<1> QED
    BY <1>4, <1>5

-----------------------------------------------------------------------------
(***************************************************************************)
(* Answers.                                                                *)
(***************************************************************************)

\* A finished read returns what its snapshot foretold.
LEMMA FinishAnswer ==
    ASSUME Safe, NEW r \in Request, Told(r), Finish(r)
    PROVE  Returned(r)' = Foretold(r)
<1> DEFINE c == call[r]
           found == DatasetRows(snap[r], c)
           dims == DimensionRows(snap[r], Ids(found))
           seen == ObservationRows(snap[r], Ids(found))
           cells == {o \in seen : c.kind # "structure" /\ (c.kind = "query" => o.cell \in c.cells)}
<1>1. pc[r] = "finish" /\ result'[r] = "ok" /\ got' = got
    BY DEF Finish, Go, Safe, TypeOK
<1>2. Loaded(c, "finish", snap[r], got[r])
    BY <1>1 DEF Safe, ReadersStaged, ReaderStaged, Loading
<1>3. /\ found # {} /\ got[r].codes = ProviderRows(snap[r], c)
      /\ c.kind = "query" => \A m \in got[r].dims : m.structure = c.structure
    BY <1>1 DEF Told, ReaderTold, Loading
<1>4. got[r].rows = found /\ got[r].dims = dims /\ c.kind \in {"structure", "data", "query"}
    BY <1>2 DEF Loaded
<1>5. got[r].cells = cells
    <2>1. got[r].cells = CASE c.kind = "structure" -> {}
                           [] c.kind = "data" -> seen
                           [] c.kind = "query" -> {o \in seen : o.cell \in c.cells}
        BY <1>2, <1>4 DEF Loaded
    <2> HIDE DEF seen
    <2>2. CASE c.kind = "structure"
        BY <2>1, <2>2
    <2>3. CASE c.kind = "data"
        BY <2>1, <2>3
    <2>4. CASE c.kind = "query"
        BY <2>1, <2>4
    <2> QED
        BY <1>4, <2>2, <2>3, <2>4
<1>6. Foretold(r) = Reply("ok", found, ProviderRows(snap[r], c), dims, cells)
    <2>1. ~(c.kind = "query" /\ \E m \in dims : m.structure # c.structure)
        BY <1>3, <1>4
    <2> QED
        BY <1>3, <2>1 DEF Foretold
<1>7. Returned(r)' = Reply("ok", got[r].rows, got[r].codes, got[r].dims, got[r].cells)
    BY <1>1 DEF Returned
<1> QED
    BY <1>3, <1>4, <1>5, <1>6, <1>7

\* So does one that rolls back.
LEMMA RefusedAnswer ==
    ASSUME NEW r \in Request, Told(r), pc[r] = "rollback", ~Writes(r)
    PROVE  Returned(r) = Foretold(r)
BY DEF Told, ReaderTold, Returned, Foretold

\* An autocommit read returns what the abstract map holds.
LEMMA StatementAnswer ==
    ASSUME Safe, NEW r \in Request, Told(r), GetSummary(r) \/ ListDatasets(r) \/ ListProviders(r)
    PROVE  /\ Returned(r)' = Atomic!Reading(r)
           /\ call[r].kind \in {"summary", "datasets", "providers"}
           /\ pc[r] = "statement" /\ pc'[r] = "done" /\ db' = db
<1> DEFINE c == call[r]
<1>1. c.kind \in {"summary", "datasets", "providers"} /\ pc[r] = "statement" /\ db' = db
      /\ pc'[r] = "done"
    BY DEF GetSummary, ListDatasets, ListProviders, Answer, Go, Safe, TypeOK
<1>2. got'[r].dims = {} /\ got'[r].cells = {}
    <2>1. got[r].dims = {} /\ got[r].cells = {}
        BY <1>1 DEF Told, KindsFit, Transactional
    <2>2. ~ReadDimensions(r) /\ ~ReadCells(r) /\ ~ReadBatch(r) /\ Step(r)
        BY <1>1 DEF ReadDimensions, ReadCells, ReadBatch, Go, Step, ClientStep, ReaderStep
    <2> QED
        BY <2>1, <2>2, Recall DEF Safe
<1>3. ASSUME NEW kinds, NEW found, NEW codes, NEW empty \in {"ok", "not_found"},
             Answer(r, kinds, found, codes, empty),
             Shown(found, codes) = Shown(found, db.providers)
      PROVE  Returned(r)' = Listing(found, db.providers, empty)
    <2>1. /\ got'[r].rows = found /\ got'[r].codes = codes
          /\ result'[r] = IF found = {} THEN empty ELSE "ok"
        BY <1>3 DEF Answer, Safe, TypeOK, Got
    <2>2. \A status, some : Reply(status, found, some, {}, {})
             = [status |-> status, seen |-> Shown(found, some), structures |-> {}, cells |-> {}]
        BY DEF Reply, Shown
    <2>3. found = {} => \A some : Shown(found, some) = {}
        BY DEF Shown
    <2>4. Returned(r)' = IF result'[r] \in {"created", "replaced", "ok"}
                         THEN Reply(result'[r], found, codes, {}, {})
                         ELSE [Blank EXCEPT !.status = result'[r]]
        BY <1>2, <2>1 DEF Returned
    <2>5. CASE found # {}
        BY <1>3, <2>1, <2>2, <2>4, <2>5 DEF Listing
    <2>6. CASE found = {} /\ empty = "not_found"
        BY <2>1, <2>4, <2>6 DEF Listing
    <2>7. CASE found = {} /\ empty = "ok"
        <3>1. Returned(r)' = [status |-> "ok", seen |-> {}, structures |-> {}, cells |-> {}]
            BY <2>1, <2>2, <2>3, <2>4, <2>7
        <3>2. Listing(found, db.providers, empty) = [Blank EXCEPT !.status = "ok"]
            BY <2>7 DEF Listing
        <3> QED
            BY <3>1, <3>2 DEF Blank
    <2> QED
        BY <2>5, <2>6, <2>7
<1>4. db.datasets \subseteq DatasetRow
    BY DEF Safe, TypeOK, Rows
<1>5. CASE GetSummary(r)
    <2> DEFINE found == DatasetRows(db, c)
    <2>1. Answer(r, {"summary"}, found, ProviderRows(db, c), "not_found") /\ c.kind = "summary"
        BY <1>5 DEF GetSummary, Answer
    <2>2. found \in SUBSET DatasetRow /\ \A d \in found : d.provider = c.provider
        BY <1>4 DEF DatasetRows
    <2> HIDE DEF found
    <2>3. Returned(r)' = Listing(found, db.providers, "not_found")
        BY <1>3, <2>1, <2>2, SameSpellings
    <2> QED
        BY <1>1, <2>1, <2>3, ReadingStatement DEF found
<1>6. CASE ListDatasets(r)
    <2> DEFINE found == {d \in db.datasets : d.provider = c.provider}
    <2>1. Answer(r, {"datasets"}, found, ProviderRows(db, c), "not_found") /\ c.kind = "datasets"
        BY <1>6 DEF ListDatasets, Answer
    <2>2. found \in SUBSET DatasetRow /\ \A d \in found : d.provider = c.provider
        BY <1>4
    <2> HIDE DEF found
    <2>3. Returned(r)' = Listing(found, db.providers, "not_found")
        BY <1>3, <2>1, <2>2, SameSpellings
    <2> QED
        BY <1>1, <2>1, <2>3, ReadingStatement DEF found
<1>7. CASE ListProviders(r)
    <2> DEFINE codes == {p \in db.providers : \E d \in db.datasets : d.provider = p.provider}
    <2>1. Answer(r, {"providers"}, db.datasets, codes, "ok") /\ c.kind = "providers"
        BY <1>7 DEF ListProviders, Answer
    <2>2. Shown(db.datasets, codes) = Shown(db.datasets, db.providers)
        <3>1. ASSUME NEW d \in db.datasets
              PROVE  {q \in codes : q.provider = d.provider}
                        = {q \in db.providers : q.provider = d.provider}
            OBVIOUS
        <3> HIDE DEF codes
        <3> QED
            BY <3>1, ShownAlike
    <2> HIDE DEF codes
    <2>3. Returned(r)' = Listing(db.datasets, db.providers, "ok")
        BY <1>3, <2>1, <2>2
    <2> QED
        BY <1>1, <2>1, <2>3, ReadingStatement
<1> QED
    BY <1>1, <1>5, <1>6, <1>7

-----------------------------------------------------------------------------
(***************************************************************************)
(* The effect of a commit.                                                 *)
(***************************************************************************)

\* It changes the entry of one identity.
LEMMA CommitEntries ==
    ASSUME Safe, NEW r \in Request, ServerCommit(r), NEW i, i = IdentityOf(call[r])
    PROVE  /\ i \in Identity
           /\ entryView[i] = EntryOf(db, i)
           /\ entryView' = [entryView EXCEPT ![i] = EntryOf(db', i)]
<1>1. i \in Identity
    BY DEF IdentityOf, Identity, Safe, TypeOK, AnyCall
<1>2. ASSUME NEW j \in Identity, j # i PROVE EntryOf(db', j) = EntryOf(db, j)
    <2>1. Part(call, db', j).datasets = Part(call, db, j).datasets
        BY <1>2, CommitElsewhere DEF Safe
    <2> QED
        BY <2>1 DEF Part, EntryOf
<1> QED
    BY <1>1, <1>2, Views

\* The dataset a replacement commits is its own, under the id of the one that
\* was committed or, when there was none, under its own.
LEMMA CommitsDataset ==
    ASSUME Safe, NEW r \in Request, Told(r), ServerCommit(r), call[r].kind = "replace",
           NEW i, i = IdentityOf(call[r])
    PROVE  \E d \in DatasetRow :
              /\ {e \in db'.datasets : <<e.provider, e.dataset>> = i} = {d}
              /\ <<d.provider, d.dataset>> = i
              /\ got[r].rows = {d} /\ d.by = r
              /\ LET old == {e \in db.datasets : <<e.provider, e.dataset>> = i}
                 IN  \/ result[r] = "created" /\ old = {} /\ d.id = r
                     \/ /\ result[r] = "replaced" /\ old # {} /\ call[r].overwrite
                        /\ \A e \in old : e.id = d.id
<1> DEFINE now == Seen(r, i)
           old == Part(call, db, i)
<1>0. Prepared(r) /\ tx[r] = "committing" /\ db' = View(r)
    BY DEF ServerCommit, Prepared
<1>1. /\ now.datasets # {} /\ got[r].rows = now.datasets
      /\ \A d \in now.datasets : d.by = r
    BY <1>0 DEF Told, RowsTold
<1>2. \/ result[r] = "created" /\ old.datasets = {} /\ \A d \in got[r].rows : d.id = r
      \/ result[r] = "replaced" /\ old.datasets # {} /\ call[r].overwrite
    BY <1>0 DEF Told, OutcomeTold
<1>3. Final(call, i, clock, old, now)
    BY <1>0, StagedAt DEF Safe, Staged
<1>4. PICK d \in now.datasets : At(call, d, i) /\ SameDataset(d, old) /\ now = Filled(call, d, d.by)
    <2>1. now # NoRows
        BY <1>1 DEF NoRows
    <2> HIDE DEF now, old
    <2> QED
        BY <1>3, <2>1 DEF Final
<1>5. now.datasets = {d}
    BY <1>4 DEF Filled
<1>6. now.datasets = {e \in db'.datasets : <<e.provider, e.dataset>> = i}
    BY <1>0 DEF Seen, View, Part
<1>7. old.datasets = {e \in db.datasets : <<e.provider, e.dataset>> = i}
    BY DEF Part
<1>8. d \in DatasetRow
    BY <1>0, <1>5, <1>6, ViewType DEF Safe, Rows
<1>9. <<d.provider, d.dataset>> = i /\ \A e \in old.datasets : e.id = d.id
    BY <1>4 DEF At, SameDataset
<1> HIDE DEF now, old
<1> QED
    BY <1>1, <1>2, <1>5, <1>6, <1>7, <1>8, <1>9

\* A provider's first spelling is that of the request that commits it.
LEMMA CommitsSpelling ==
    ASSUME Safe, NEW r \in Request, Told(r), ServerCommit(r)
    PROVE  LET p == call[r].provider
           IN  /\ call[r].kind # "replace" => spellingView' = spellingView
               /\ call[r].kind = "replace" =>
                     /\ spellingView' = [spellingView EXCEPT ![p] = IF @ = {} THEN {r} ELSE @]
                     /\ \E v \in db'.providers :
                           /\ v.provider = p /\ got[r].codes = {v}
                           /\ \A q \in db'.providers : q.provider = p => q = v
<1> DEFINE p == call[r].provider
<1>0. Prepared(r) /\ db' = Merge(db, del[r], ins[r]) /\ p \in Provider
    BY DEF ServerCommit, View, Prepared, Safe, TypeOK, AnyCall
<1>1. db'.providers = db.providers \cup ins[r].providers
    BY <1>0 DEF Merge, Safe, ProvidersKept
<1>2. \A v \in ins[r].providers : v.provider = p /\ v.code = r /\ call[r].kind = "replace"
    BY DEF Told, OwnProvider
<1>3. \A u, v \in db'.providers : u.provider = v.provider => u = v
    BY <1>1 DEF Safe, ProvidersKept
<1>4. CASE call[r].kind # "replace"
    <2>1. db'.providers = db.providers
        BY <1>1, <1>2, <1>4
    <2> QED
        BY <1>4, <2>1 DEF spellingView
<1>5. CASE call[r].kind = "replace"
    <2>1. PICK v \in db'.providers : v.provider = p /\ got[r].codes = {v}
        BY <1>0, <1>1, <1>5 DEF Told, CodeKnown
    <2>2. \A q \in db'.providers : q.provider = p => q = v
        BY <1>3, <2>1
    <2>3. ASSUME NEW s \in Provider, s # p PROVE SpellingOf(db', s) = SpellingOf(db, s)
        BY <1>1, <1>2, <2>3 DEF SpellingOf
    <2>4. SpellingOf(db', p) = IF SpellingOf(db, p) = {} THEN {r} ELSE SpellingOf(db, p)
        <3>1. SpellingOf(db', p) = {v.code}
            BY <2>1, <2>2 DEF SpellingOf
        <3>2. CASE v \in db.providers
            <4>1. SpellingOf(db, p) = {v.code}
                BY <1>1, <2>1, <2>2, <3>2 DEF SpellingOf
            <4> QED
                BY <3>1, <4>1
        <3>3. CASE v \notin db.providers
            <4>1. v.code = r
                BY <1>1, <1>2, <3>3
            <4>2. SpellingOf(db, p) = {}
                BY <1>1, <2>2, <3>3 DEF SpellingOf
            <4> QED
                BY <3>1, <4>1, <4>2
        <3> QED
            BY <3>2, <3>3
    <2>5. spellingView' = [spellingView EXCEPT ![p] = IF @ = {} THEN {r} ELSE @]
        BY <1>0, <2>3, <2>4, Views
    <2> QED
        BY <1>5, <2>1, <2>2, <2>5
<1> QED
    BY <1>4, <1>5

\* The commit is the effect of a request that still waits, and of one that
\* was told it failed.
LEMMA CommitEffect ==
    ASSUME Safe, NEW r \in Request, Told(r), ServerCommit(r)
    PROVE  Atomic!Effect(r, Returned(r), "effected")
<1>1. /\ tx[r] = "committing" /\ tx'[r] = "committed" /\ pc' = pc
      /\ got' = got /\ result' = result /\ call' = call
      /\ pc[r] \in {"commit", "failed"} /\ Writes(r)
    BY DEF ServerCommit, EndSession, Safe, TypeOK, LockHeld, Told, KindsFit, Prepared
<1>2. /\ stateView' = [stateView EXCEPT ![r] = StateOf(pc'[r], tx'[r])]
      /\ answerView' = [answerView EXCEPT ![r] = AnswerOf(r)']
      /\ stateView[r] = StateOf(pc[r], tx[r]) /\ answerView[r] = AnswerOf(r)
      /\ stateView'[r] = StateOf(pc'[r], tx'[r])
    BY ViewsStep DEF Step, ServerStep
<1>3. Returned(r)' = Returned(r) /\ Writes(r)'
    BY <1>1 DEF Returned, Writes
<1>4. CASE pc[r] = "commit"
    <2>1. StateOf(pc[r], tx[r]) = "pending" /\ StateOf(pc'[r], tx'[r]) = "effected"
        BY <1>1, <1>4 DEF StateOf, Loading
    <2>2. AnswerOf(r)' = Returned(r)
        BY <1>2, <1>3, <2>1 DEF AnswerOf
    <2> QED
        BY <1>2, <2>1, <2>2 DEF Atomic!Effect
<1>5. CASE pc[r] = "failed"
    <2>1. StateOf(pc[r], tx[r]) = "abandoned" /\ StateOf(pc'[r], tx'[r]) = "ended"
        BY <1>1, <1>5 DEF StateOf, Loading
    <2>2. AnswerOf(r)' = Blank /\ AnswerOf(r) = Blank
        BY <1>2, <2>1 DEF AnswerOf
    <2>3. answerView' = answerView
        BY <1>2, <2>2, Views
    <2> QED
        BY <1>2, <2>1, <2>3 DEF Atomic!Effect
<1> QED
    BY <1>1, <1>4, <1>5

LEMMA WrittenAnswer ==
    ASSUME NEW s, NEW t
    PROVE  [Atomic!NoAnswer EXCEPT !.status = s, !.seen = t]
              = [status |-> s, seen |-> t, structures |-> {}, cells |-> {}]
<1> DEFINE none == Atomic!NoAnswer
<1>1. /\ none = [x \in DOMAIN none |-> none[x]]
      /\ DOMAIN none = {"status", "seen", "structures", "cells"}
      /\ none["structures"] = {} /\ none["cells"] = {}
    BY DEF Atomic!NoAnswer
<1> HIDE DEF none
<1> DEFINE half == [none EXCEPT !.status = s]
<1>2. half = [x \in DOMAIN none |-> IF x = "status" THEN s ELSE none[x]]
    BY <1>1
<1>3. [none EXCEPT !.status = s, !.seen = t] = [half EXCEPT !.seen = t]
    BY <1>1
<1> HIDE DEF half
<1>4. [half EXCEPT !.seen = t] = [x \in DOMAIN half |-> IF x = "seen" THEN t ELSE half[x]]
    BY <1>2
<1>5. [half EXCEPT !.seen = t] = [status |-> s, seen |-> t, structures |-> {}, cells |-> {}]
    BY <1>1, <1>2, <1>4
<1> QED
    BY <1>3, <1>5 DEF none

LEMMA SubmitStep ==
    ASSUME Safe, Safe', NEW r \in Request, Told(r), ServerCommit(r), call[r].kind = "replace"
    PROVE  Atomic!Submit(r)
<1> DEFINE i == IdentityOf(call[r])
           p == call[r].provider
           old == {e \in db.datasets : <<e.provider, e.dataset>> = i}
<1>1. /\ i \in Identity /\ entryView[i] = EntryOf(db, i)
      /\ entryView' = [entryView EXCEPT ![i] = EntryOf(db', i)]
    BY CommitEntries
<1>2. PICK d \in DatasetRow :
         /\ {e \in db'.datasets : <<e.provider, e.dataset>> = i} = {d}
         /\ <<d.provider, d.dataset>> = i
         /\ got[r].rows = {d} /\ d.by = r
         /\ \/ result[r] = "created" /\ old = {} /\ d.id = r
            \/ /\ result[r] = "replaced" /\ old # {} /\ call[r].overwrite
               /\ \A e \in old : e.id = d.id
    BY CommitsDataset
<1>3. PICK v \in db'.providers :
         /\ v.provider = p /\ got[r].codes = {v}
         /\ \A q \in db'.providers : q.provider = p => q = v
    BY CommitsSpelling
<1>4. spellingView' = [spellingView EXCEPT ![p] = IF @ = {} THEN {r} ELSE @]
    BY CommitsSpelling
<1>5. d.provider = p
    BY <1>2 DEF IdentityOf
<1>6. EntryOf(db', i) = {[creator |-> d.id, writer |-> r]}
    BY <1>2 DEF EntryOf
<1>7. EntryOf(db, i) = {[creator |-> e.id, writer |-> e.by] : e \in old}
    BY DEF EntryOf
<1>8. EntryOf(db, i) = {} <=> old = {}
    BY <1>7
<1>9. EntryOf(db', i) = IF EntryOf(db, i) = {} THEN {[creator |-> r, writer |-> r]}
                        ELSE {[e EXCEPT !.writer = r] : e \in EntryOf(db, i)}
    <2>1. CASE old = {}
        BY <1>2, <1>6, <1>8, <2>1
    <2>2. CASE old # {}
        <3>1. \A e \in EntryOf(db, i) :
                 [e EXCEPT !.writer = r] = [creator |-> d.id, writer |-> r]
            BY <1>2, <1>7, <2>2
        <3>2. EntryOf(db, i) # {}
            BY <1>8, <2>2
        <3>3. {[e EXCEPT !.writer = r] : e \in EntryOf(db, i)} = {[creator |-> d.id, writer |-> r]}
            BY <3>1, <3>2
        <3> QED
            BY <1>6, <3>2, <3>3
    <2> QED
        BY <2>1, <2>2
<1>10. Returned(r) = [Atomic!NoAnswer EXCEPT
                         !.status = IF entryView[i] = {} THEN "created" ELSE "replaced",
                         !.seen = Atomic!Seen(entryView', spellingView', {i})]
    <2>1. result[r] = IF entryView[i] = {} THEN "created" ELSE "replaced"
        BY <1>1, <1>2, <1>8
    <2>2. Atomic!Seen(entryView', spellingView', {i}) = Shown({d}, db'.providers)
        <3>1. /\ entryView' = [j \in Identity |-> EntryOf(db', j)]
              /\ spellingView' = [s \in Provider |-> SpellingOf(db', s)]
            BY Views
        <3>2. {e \in db'.datasets : <<e.provider, e.dataset>> \in {i}} = {d}
            BY <1>2
        <3>3. db' \in Rows /\ {i} \in SUBSET Identity
            BY <1>1 DEF Safe, TypeOK
        <3> HIDE DEF i
        <3>4. Atomic!Seen([j \in Identity |-> EntryOf(db', j)],
                          [s \in Provider |-> SpellingOf(db', s)], {i})
                 = Shown({e \in db'.datasets : <<e.provider, e.dataset>> \in {i}}, db'.providers)
            BY <3>3, SeenRows
        <3> QED
            BY <3>1, <3>2, <3>4
    <2>3. Shown({d}, db'.providers) = Shown({d}, {v})
        <3>1. {q \in {v} : q.provider = d.provider} = {q \in db'.providers : q.provider = d.provider}
            BY <1>3, <1>5
        <3> QED
            BY <3>1, ShownAlike
    <2>4. got[r].dims = {} /\ got[r].cells = {}
        BY DEF Told, KindsFit, Transactional
    <2>5. Returned(r) = [status |-> result[r], seen |-> Shown({d}, {v}),
                         structures |-> {}, cells |-> {}]
        <3>1. Returned(r) = Reply(result[r], {d}, {v}, {}, {})
            BY <1>2, <1>3, <2>4 DEF Returned
        <3> QED
            BY <3>1 DEF Reply, Shown
    <2> DEFINE status == IF entryView[i] = {} THEN "created" ELSE "replaced"
    <2>6. ASSUME NEW seen
          PROVE  [Atomic!NoAnswer EXCEPT !.status = status, !.seen = seen]
                    = [status |-> status, seen |-> seen, structures |-> {}, cells |-> {}]
        BY WrittenAnswer
    <2> HIDE DEF i, status
    <2>7. [status |-> result[r], seen |-> Shown({d}, {v}), structures |-> {}, cells |-> {}]
             = [Atomic!NoAnswer EXCEPT !.status = status,
                                       !.seen = Atomic!Seen(entryView', spellingView', {i})]
        BY <2>1, <2>2, <2>3, <2>6 DEF status
    <2> QED
        BY <2>5, <2>7 DEF status
<1>11. entryView[i] = {} \/ call[r].overwrite
    BY <1>1, <1>2, <1>8
<1>12. Atomic!Target(r) = i
    BY DEF Atomic!Target, IdentityOf
<1>13. Atomic!Effect(r, Returned(r), "effected")
    BY CommitEffect
<1> HIDE DEF i, old
<1> QED
    BY <1>1, <1>4, <1>9, <1>10, <1>11, <1>12, <1>13 DEF Atomic!Submit

LEMMA RemoveStep ==
    ASSUME Safe, NEW r \in Request, Told(r), ServerCommit(r), call[r].kind = "delete"
    PROVE  Atomic!Remove(r)
<1> DEFINE i == IdentityOf(call[r])
<1>0. Prepared(r) /\ db' = View(r)
    BY DEF ServerCommit, Prepared
<1>1. entryView' = [entryView EXCEPT ![i] = EntryOf(db', i)]
    BY CommitEntries
<1>2. EntryOf(db', i) = {}
    <2>1. Seen(r, i).datasets = {}
        BY <1>0 DEF Told, RowsTold
    <2> QED
        BY <1>0, <2>1 DEF Seen, Part, View, EntryOf
<1>3. Returned(r) = Atomic!Status("deleted")
    BY <1>0 DEF Told, RowsTold, Returned, Atomic!Status, Atomic!NoAnswer, Blank
<1>4. spellingView' = spellingView
    BY CommitsSpelling
<1>5. Atomic!Target(r) = i
    BY DEF Atomic!Target, IdentityOf
<1>6. Atomic!Effect(r, Returned(r), "effected")
    BY CommitEffect
<1> HIDE DEF i
<1> QED
    BY <1>1, <1>2, <1>3, <1>4, <1>5, <1>6 DEF Atomic!Remove

-----------------------------------------------------------------------------
(***************************************************************************)
(* Every other step is an observation, a refusal, an answer, a request     *)
(* given up, or nothing.                                                   *)
(***************************************************************************)
Abstract == <<entryView, spellingView, call, stateView, answerView>>

LEMMA PendingState ==
    ASSUME NEW p, NEW t, p \notin Loading \cup {"rollback", "done", "failed"},
           ~(p = "commit" /\ t = "committed")
    PROVE  StateOf(p, t) = "pending"
BY DEF StateOf, Loading

LEMMA EffectedState ==
    ASSUME NEW p \in Loading \cup {"rollback"}, NEW t
    PROVE  StateOf(p, t) = "effected"
BY DEF StateOf, Loading

\* A request that is still pending shows nothing.
LEMMA PendingStep ==
    ASSUME Safe, NEW r \in Request, Step(r), db' = db,
           StateOf(pc[r], tx[r]) = "pending", StateOf(pc'[r], tx'[r]) = "pending"
    PROVE  UNCHANGED Abstract
<1>1. /\ stateView' = [stateView EXCEPT ![r] = StateOf(pc'[r], tx'[r])]
      /\ answerView' = [answerView EXCEPT ![r] = AnswerOf(r)']
      /\ stateView[r] = StateOf(pc[r], tx[r]) /\ answerView[r] = AnswerOf(r)
      /\ stateView'[r] = StateOf(pc'[r], tx'[r])
      /\ entryView' = entryView /\ spellingView' = spellingView
    BY ViewsStep
<1>2. AnswerOf(r) = Blank /\ AnswerOf(r)' = Blank
    BY <1>1 DEF AnswerOf
<1>3. stateView' = stateView /\ answerView' = answerView
    BY <1>1, <1>2, Views
<1>4. call' = call
    BY Frame DEF Safe
<1> QED
    BY <1>1, <1>3, <1>4 DEF Abstract

\* A writer's statements, up to COMMIT, unless it finds what it may not
\* replace.
LEMMA WriterSimulated ==
    ASSUME Safe, Safe', NoInternalError', NEW r \in Request, Told(r), WriterStep(r),
           ~Ack(r), ~(SelectDataset(r) /\ pc'[r] = "rollback")
    PROVE  UNCHANGED Abstract
<1>s. Step(r)
    BY DEF Step, ClientStep
<1>t. pc \in [Request -> Pc] /\ result \in [Request -> Result]
      /\ tx \in [Request -> {"none", "active", "committing", "committed", "aborted"}]
      /\ result'[r] # "error"
    BY DEF Safe, TypeOK, NoInternalError
<1>0. db' = db
    BY <1>t DEF WriterStep, AdvisoryLock, InsertProvider, SelectProvider, SelectDataset,
       InsertDataset, ClearObservations, ClearDimensions, InsertStructure, CopyObservations,
       UpdateDataset, DeleteObservations, DeleteDataset, Commit, Write, ReadOnly
<1>1. pc[r] \in {"lock", "wipe", "remove", "ready"} \cup Replacing
    BY DEF WriterStep, AdvisoryLock, InsertProvider, SelectProvider, SelectDataset,
       InsertDataset, ClearObservations, ClearDimensions, InsertStructure, CopyObservations,
       UpdateDataset, DeleteObservations, DeleteDataset, Commit, Go, Fail, Replacing
<1>2. \/ pc'[r] \in {"wipe", "remove", "ready"} \cup Replacing
      \/ pc'[r] = "commit" /\ tx'[r] = "committing"
    <2> USE <1>t DEF Go, Fail, Replacing
    <2>1. CASE AdvisoryLock(r) \/ InsertProvider(r) \/ SelectProvider(r)
        BY <2>1 DEF AdvisoryLock, InsertProvider, SelectProvider
    <2>2. CASE SelectDataset(r)
        BY <2>2 DEF SelectDataset
    <2>3. CASE InsertDataset(r) \/ ClearObservations(r) \/ ClearDimensions(r)
        BY <2>3 DEF InsertDataset, ClearObservations, ClearDimensions
    <2>4. CASE InsertStructure(r) \/ CopyObservations(r) \/ UpdateDataset(r)
        BY <2>4 DEF InsertStructure, CopyObservations, UpdateDataset
    <2>5. CASE DeleteObservations(r) \/ DeleteDataset(r) \/ Commit(r)
        BY <2>5 DEF DeleteObservations, DeleteDataset, Commit
    <2> QED
        BY <2>1, <2>2, <2>3, <2>4, <2>5 DEF WriterStep
<1>3. StateOf(pc[r], tx[r]) = "pending"
    BY <1>1, PendingState DEF Loading, Replacing
<1>4. StateOf(pc'[r], tx'[r]) = "pending"
    BY <1>2, PendingState DEF Loading, Replacing
<1> QED
    BY <1>s, <1>0, <1>3, <1>4, PendingStep

LEMMA RefuseSimulated ==
    ASSUME Safe, NEW r \in Request, Told(r), SelectDataset(r), pc'[r] = "rollback"
    PROVE  Atomic!Refuse(r) /\ call' = call
<1> DEFINE i == IdentityOf(call[r])
           found == DatasetRows(View(r), call[r])
<1>s. Step(r)
    BY DEF Step, ClientStep, WriterStep
<1>1. /\ found # {} /\ ~call[r].overwrite /\ pc[r] = "dataset"
      /\ result'[r] = "dataset_exists" /\ db' = db /\ call' = call
    BY DEF SelectDataset, Go, Fail, ReadOnly, Safe, TypeOK
<1>2. call[r].kind = "replace"
    BY <1>1 DEF Told, KindsFit, Replacing
<1>3. entryView[i] # {}
    <2>1. Seen(r, i) = Part(call, db, i)
        BY <1>1, StagedAt DEF Safe, Staged
    <2>2. found = Part(call, db, i).datasets
        BY <2>1, ViewType, SelectPart DEF Safe, Seen, View
    <2>3. i \in Identity
        BY DEF IdentityOf, Identity, Safe, TypeOK, AnyCall
    <2>4. EntryOf(db, i) = {[creator |-> d.id, writer |-> d.by] : d \in Part(call, db, i).datasets}
        BY DEF EntryOf, Part
    <2> HIDE DEF i, found
    <2>5. EntryOf(db, i) # {}
        BY <1>1, <2>2, <2>4
    <2> QED
        BY <2>3, <2>5, Views
<1>4. /\ stateView' = [stateView EXCEPT ![r] = "effected"] /\ stateView[r] = "pending"
      /\ answerView' = [answerView EXCEPT ![r] = AnswerOf(r)']
      /\ stateView'[r] = "effected"
      /\ entryView' = entryView /\ spellingView' = spellingView
    <2>1. StateOf(pc[r], tx[r]) = "pending" /\ StateOf(pc'[r], tx'[r]) = "effected"
        BY <1>1, PendingState, EffectedState DEF Loading
    <2> QED
        BY <1>s, <1>1, <2>1, ViewsStep
<1>5. AnswerOf(r)' = Atomic!Status("dataset_exists")
    <2>1. Writes(r)'
        BY <1>1, <1>2 DEF Writes
    <2> QED
        BY <1>1, <1>4, <2>1 DEF AnswerOf, Returned, Blank, Atomic!Status, Atomic!NoAnswer
<1>6. Atomic!Target(r) = i
    BY DEF Atomic!Target, IdentityOf
<1> QED
    BY <1>1, <1>2, <1>3, <1>4, <1>5, <1>6 DEF Atomic!Refuse, Atomic!Effect

\* A read's first statement is its effect; the others are not seen, and the
\* last is its answer.
LEMMA ReaderSimulated ==
    ASSUME Safe, NEW r \in Request, Told(r), ReaderStep(r)
    PROVE  \/ Atomic!Observe(r) /\ call' = call
           \/ Atomic!Respond(r) /\ call' = call
           \/ UNCHANGED Abstract
<1>s. Step(r) /\ call' = call
    <2>1. Step(r)
        BY DEF Step, ClientStep
    <2> QED
        BY <2>1, Frame DEF Safe
<1>t. pc \in [Request -> Pc] /\ snap \in [Request -> Rows]
    BY DEF Safe, TypeOK
<1>w. pc[r] \in Loading \cup {"summary", "statement"} /\ ~Writes(r)
    <2>1. pc[r] \in Loading \cup {"summary", "statement"}
        BY DEF ReaderStep, ReadSummary, ReadDimensions, ReadCategories, ReadCells, ReadBatch,
           Finish, GetSummary, ListDatasets, ListProviders, Answer, Go, Fail, Loading
    <2> QED
        BY <2>1 DEF Told, KindsFit, Writes, Transactional
<1>v. /\ stateView' = [stateView EXCEPT ![r] = StateOf(pc'[r], tx'[r])]
      /\ answerView' = [answerView EXCEPT ![r] = AnswerOf(r)']
      /\ stateView[r] = StateOf(pc[r], tx[r]) /\ answerView[r] = AnswerOf(r)
      /\ stateView'[r] = StateOf(pc'[r], tx'[r])
      /\ db' = db => entryView' = entryView /\ spellingView' = spellingView
    BY <1>s, ViewsStep
<1>e. Writes(r)' <=> Writes(r)
    BY <1>s DEF Writes
<1>1. CASE ReadSummary(r)
    <2>1. /\ pc[r] = "summary" /\ pc'[r] \in {"dimensions", "rollback"}
          /\ db' = db /\ snap'[r] = db
        BY <1>1, <1>t DEF ReadSummary, Go, Fail
    <2>2. call[r].kind \in Transactional
        BY <2>1 DEF Told, KindsFit
    <2>3. StateOf(pc[r], tx[r]) = "pending" /\ StateOf(pc'[r], tx'[r]) = "effected"
        BY <2>1, PendingState, EffectedState DEF Loading
    <2>4. AnswerOf(r)' = Foretold(r)'
        BY <1>v, <1>w, <1>e, <2>3 DEF AnswerOf
    <2>5. Foretold(r)' = Atomic!Reading(r)
        BY <1>s, <2>1, <2>2, ForetoldFrom, ReadingTransaction
    <2>6. call[r].kind \notin {"replace", "delete"}
        BY <2>2 DEF Transactional
    <2> QED
        BY <1>s, <1>v, <2>1, <2>3, <2>4, <2>5, <2>6 DEF Atomic!Observe, Atomic!Effect
<1>2. CASE GetSummary(r) \/ ListDatasets(r) \/ ListProviders(r)
    <2>1. /\ Returned(r)' = Atomic!Reading(r)
          /\ call[r].kind \in {"summary", "datasets", "providers"}
          /\ pc[r] = "statement" /\ pc'[r] = "done" /\ db' = db
        BY <1>2, StatementAnswer
    <2>2. StateOf(pc[r], tx[r]) = "pending" /\ StateOf(pc'[r], tx'[r]) = "answered"
        <3>1. StateOf(pc[r], tx[r]) = "pending"
            BY <2>1, PendingState DEF Loading
        <3> QED
            BY <2>1, <3>1 DEF StateOf, Loading
    <2>3. AnswerOf(r)' = Returned(r)'
        BY <1>v, <2>2 DEF AnswerOf
    <2> QED
        BY <1>s, <1>v, <2>1, <2>2, <2>3 DEF Atomic!Observe, Atomic!Effect
<1>3. CASE Finish(r)
    <2>1. pc[r] = "finish" /\ pc'[r] = "done" /\ db' = db
        BY <1>3, <1>t DEF Finish, Go
    <2>2. StateOf(pc[r], tx[r]) = "effected" /\ StateOf(pc'[r], tx'[r]) = "answered"
        <3>1. StateOf(pc[r], tx[r]) = "effected"
            BY <2>1, EffectedState DEF Loading
        <3> QED
            BY <2>1, <3>1 DEF StateOf, Loading
    <2>3. AnswerOf(r)' = Returned(r)' /\ AnswerOf(r) = Foretold(r)
        BY <1>v, <1>w, <2>2 DEF AnswerOf
    <2>4. answerView' = answerView
        BY <1>3, <1>v, <2>3, FinishAnswer, Views
    <2> QED
        BY <1>s, <1>v, <2>1, <2>2, <2>4 DEF Atomic!Respond
<1>4. CASE ReadDimensions(r) \/ ReadCategories(r) \/ ReadCells(r) \/ ReadBatch(r)
    <2>1. /\ pc[r] \in Loading /\ pc'[r] \in Loading \cup {"rollback"} /\ db' = db
          /\ ~ReadSummary(r)
        <3>1. ReadDimensions(r) =>
                 pc[r] = "dimensions" /\ pc'[r] = "categories" /\ db' = db
            BY <1>t DEF ReadDimensions, Go, ReadOnly
        <3>2. ReadCategories(r) => /\ pc[r] = "categories" /\ db' = db
                                   /\ pc'[r] \in {"finish", "cells", "batch", "rollback"}
            BY <1>t DEF ReadCategories, Go, Fail, ReadOnly
        <3>3. ReadCells(r) => pc[r] = "cells" /\ pc'[r] = "finish" /\ db' = db
            BY <1>t DEF ReadCells, Go, ReadOnly
        <3>4. ReadBatch(r) => pc[r] = "batch" /\ pc'[r] \in {"finish", "batch"} /\ db' = db
            BY <1>t DEF ReadBatch, Go, ReadOnly
        <3>5. ReadSummary(r) => pc[r] = "summary"
            BY DEF ReadSummary, Go, Fail
        <3> QED
            BY <1>4, <3>1, <3>2, <3>3, <3>4, <3>5 DEF Loading
    <2>2. snap'[r] = snap[r]
        BY <1>s, <1>w, <2>1, LoadingSteps DEF Told
    <2>3. StateOf(pc[r], tx[r]) = "effected" /\ StateOf(pc'[r], tx'[r]) = "effected"
        BY <2>1, EffectedState
    <2>4. AnswerOf(r)' = Foretold(r)' /\ AnswerOf(r) = Foretold(r)
        BY <1>v, <1>w, <1>e, <2>3 DEF AnswerOf
    <2>5. Foretold(r)' = Foretold(r)
        BY <1>s, <2>2, ForetoldFrom
    <2>6. stateView' = stateView /\ answerView' = answerView
        <3>1. AnswerOf(r)' = AnswerOf(r)
            BY <2>4, <2>5
        <3>2. stateView' = stateView
            BY <1>v, <2>3, Views
        <3> QED
            BY <1>v, <3>1, <3>2, Views
    <2> QED
        BY <1>s, <1>v, <2>1, <2>6 DEF Abstract
<1> QED
    BY <1>1, <1>2, <1>3, <1>4 DEF ReaderStep

\* The other endings.
LEMMA EndingSimulated ==
    ASSUME Safe, NEW r \in Request, Told(r),
           Begin(r) \/ Ack(r) \/ Rollback(r) \/ GiveUp(r) \/ ServerAbort(r)
    PROVE  \/ Atomic!Respond(r) /\ call' = call
           \/ Atomic!GiveUp(r) /\ call' = call
           \/ UNCHANGED Abstract
<1>s. Step(r) /\ call' = call
    <2>1. Step(r)
        BY DEF Step, ClientStep, WriterStep, ServerStep
    <2> QED
        BY <2>1, Frame DEF Safe
<1>t. /\ pc \in [Request -> Pc]
      /\ tx \in [Request -> {"none", "active", "committing", "committed", "aborted"}]
    BY DEF Safe, TypeOK
<1>0. db' = db
    BY DEF Begin, Ack, Rollback, GiveUp, ServerAbort, server
<1>v. /\ stateView' = [stateView EXCEPT ![r] = StateOf(pc'[r], tx'[r])]
      /\ answerView' = [answerView EXCEPT ![r] = AnswerOf(r)']
      /\ stateView[r] = StateOf(pc[r], tx[r]) /\ answerView[r] = AnswerOf(r)
      /\ stateView'[r] = StateOf(pc'[r], tx'[r])
      /\ entryView' = entryView /\ spellingView' = spellingView
    BY <1>s, <1>0, ViewsStep
<1>1. CASE Begin(r)
    <2>1. pc[r] = "queued" /\ pc'[r] \in {"lock", "summary", "statement"}
        BY <1>1, <1>t DEF Begin, Go, FirstPc
    <2>2. StateOf(pc[r], tx[r]) = "pending" /\ StateOf(pc'[r], tx'[r]) = "pending"
        BY <2>1, PendingState DEF Loading
    <2> QED
        BY <1>s, <1>0, <2>2, PendingStep
<1>2. CASE Ack(r) \/ Rollback(r)
    <2>1. /\ pc[r] \in {"commit", "rollback"} /\ pc'[r] = "done"
          /\ pc[r] = "commit" => tx[r] = "committed" /\ Writes(r)
          /\ got' = got /\ result' = result
        BY <1>2, <1>t DEF Ack, Rollback, Go, Told, KindsFit
    <2>2. StateOf(pc[r], tx[r]) = "effected" /\ StateOf(pc'[r], tx'[r]) = "answered"
        BY <2>1 DEF StateOf, Loading
    <2>3. /\ AnswerOf(r)' = Returned(r)' /\ Returned(r)' = Returned(r)
          /\ AnswerOf(r) = IF Writes(r) THEN Returned(r) ELSE Foretold(r)
        BY <1>v, <2>1, <2>2 DEF AnswerOf, Returned
    <2>4. ~Writes(r) => Returned(r) = Foretold(r)
        BY <2>1, RefusedAnswer
    <2>5. answerView' = answerView
        BY <1>v, <2>3, <2>4, Views
    <2> QED
        BY <1>s, <1>v, <2>2, <2>5 DEF Atomic!Respond
<1>3. CASE GiveUp(r)
    <2>1. /\ pc[r] \notin {"rollback", "done", "failed"} /\ pc'[r] = "failed" /\ tx'[r] = tx[r]
        BY <1>3, <1>t DEF GiveUp, server
    <2>2. /\ StateOf(pc'[r], tx'[r]) = IF tx[r] = "committing" THEN "abandoned" ELSE "ended"
          /\ StateOf(pc[r], tx[r]) \in {"pending", "effected"}
          /\ tx[r] = "committing" => StateOf(pc[r], tx[r]) = "pending"
        <3>1. StateOf(pc'[r], tx'[r]) = IF tx[r] = "committing" THEN "abandoned" ELSE "ended"
            BY <2>1 DEF StateOf, Loading
        <3>2. StateOf(pc[r], tx[r]) \in {"pending", "effected"}
            BY <2>1 DEF StateOf, Loading
        <3>3. tx[r] = "committing" => StateOf(pc[r], tx[r]) = "pending"
            <4> SUFFICES ASSUME tx[r] = "committing" PROVE StateOf(pc[r], tx[r]) = "pending"
                OBVIOUS
            <4>1. pc[r] = "commit"
                BY <2>1 DEF Safe, LockHeld
            <4> QED
                BY <4>1, PendingState DEF Loading
        <3> QED
            BY <3>1, <3>2, <3>3
    <2>3. AnswerOf(r)' = Blank
        BY <1>v, <2>2 DEF AnswerOf
    <2>4. Blank = Atomic!NoAnswer
        BY DEF Blank, Atomic!NoAnswer
    <2> QED
        BY <1>s, <1>v, <2>2, <2>3, <2>4 DEF Atomic!GiveUp
<1>4. CASE ServerAbort(r)
    <2>1. pc[r] = "failed" /\ pc' = pc /\ tx'[r] = "aborted"
        BY <1>4, <1>t DEF ServerAbort, EndSession
    <2>2. /\ StateOf(pc'[r], tx'[r]) = "ended"
          /\ StateOf(pc[r], tx[r]) \in {"ended", "abandoned"}
        BY <2>1 DEF StateOf, Loading
    <2>3. AnswerOf(r) = Blank /\ AnswerOf(r)' = Blank
        BY <1>v, <2>2 DEF AnswerOf
    <2>4. answerView' = [answerView EXCEPT ![r] = Blank] /\ answerView' = answerView
        BY <1>v, <2>3, Views
    <2>5. CASE StateOf(pc[r], tx[r]) = "ended"
        <3>1. stateView' = stateView
            BY <1>v, <2>2, <2>5, Views
        <3> QED
            BY <1>s, <1>v, <2>4, <3>1 DEF Abstract
    <2>6. CASE StateOf(pc[r], tx[r]) = "abandoned"
        BY <1>s, <1>v, <2>2, <2>4, <2>6 DEF Atomic!GiveUp, Atomic!NoAnswer, Blank
    <2> QED
        BY <2>2, <2>5, <2>6
<1> QED
    BY <1>1, <1>2, <1>3, <1>4

-----------------------------------------------------------------------------
\* Every store call is atomic: whatever the interleaving of statements, the
\* deadlines that pass and the sessions they leave behind, some order of
\* whole calls explains every answer.
THEOREM StoreIsAtomic == Spec => ImplementsAtomicStore
<1>1. Init => Atomic!Init
    <2> SUFFICES ASSUME Init PROVE Atomic!Init
        OBVIOUS
    <2>1. entryView = [i \in Atomic!Identity |-> {}]
        BY DEF Init, NoRows, entryView, Identity, Atomic!Identity
    <2>2. spellingView = [p \in Provider |-> {}]
        BY DEF Init, NoRows, spellingView
    <2>3. \A r \in Request : StateOf(pc[r], tx[r]) = "pending"
        BY PendingState DEF Init, Loading
    <2>4. stateView = [r \in Request |-> "pending"]
        BY <2>3, Views
    <2>5. \A r \in Request : AnswerOf(r) = Atomic!NoAnswer
        BY <2>4 DEF AnswerOf, Blank, Atomic!NoAnswer
    <2>6. answerView = [r \in Request |-> Atomic!NoAnswer]
        BY <2>5, Views
    <2> QED
        BY <2>1, <2>2, <2>4, <2>6 DEF Atomic!Init
<1>2. Safe /\ Safe' /\ NoInternalError' /\ AllTold /\ [Next]_vars => [Atomic!Next]_Abstract
    <2> SUFFICES ASSUME Safe, Safe', NoInternalError', AllTold, [Next]_vars
                 PROVE  [Atomic!Next]_Abstract
        OBVIOUS
    <2>1. CASE UNCHANGED vars
        <3>1. UNCHANGED Abstract
            BY <2>1 DEF vars, Abstract, entryView, spellingView, stateView, answerView,
               Returned, Foretold, Writes
        <3> QED
            BY <3>1
    <2>2. ASSUME NEW r \in Request, Step(r) PROVE [Atomic!Next]_Abstract
        <3>0. Told(r)
            BY DEF AllTold
        <3>1. CASE ServerCommit(r)
            <4>1. Atomic!Submit(r) \/ Atomic!Remove(r)
                BY <3>0, <3>1, SubmitStep, RemoveStep
                   DEF ServerCommit, Told, KindsFit, Prepared, Writes
            <4>2. call' = call
                BY <3>1 DEF ServerCommit
            <4> QED
                BY <4>1, <4>2 DEF Atomic!Next
        <3>2. CASE SelectDataset(r) /\ pc'[r] = "rollback"
            BY <3>0, <3>2, RefuseSimulated DEF Atomic!Next
        <3>3. CASE WriterStep(r) /\ ~Ack(r) /\ ~(SelectDataset(r) /\ pc'[r] = "rollback")
            BY <3>0, <3>3, WriterSimulated
        <3>4. CASE ReaderStep(r)
            BY <3>0, <3>4, ReaderSimulated DEF Atomic!Next
        <3>5. CASE Begin(r) \/ Ack(r) \/ Rollback(r) \/ GiveUp(r) \/ ServerAbort(r)
            BY <3>0, <3>5, EndingSimulated DEF Atomic!Next
        <3> QED
            BY <2>2, <3>1, <3>2, <3>3, <3>4, <3>5 DEF Step, ClientStep, ServerStep
    <2> QED
        BY <2>1, <2>2 DEF Next, Terminating, Step
<1>3. Safe /\ Safe' /\ NoInternalError' /\ AllTold /\ [Next]_vars
         => [Atomic!Next]_(Atomic!vars)
    BY <1>2 DEF Abstract, Atomic!vars
<1> QED
    BY <1>1, <1>3, SafeAlways, InternalErrors, TellsItsEffect, PTL
       DEF Spec, ImplementsAtomicStore, Atomic!Spec

=============================================================================
