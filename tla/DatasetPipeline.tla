---------------------------- MODULE DatasetPipeline ----------------------------
(***************************************************************************)
(* The way of a dataset's data through the service: a submission is parsed *)
(* and remapped, stored, selected from by a query, and presented dense or  *)
(* sparse (payload.go, selection.go, presentation.go and the parts of      *)
(* postgres.go between them).  DatasetStore shows that what is stored and  *)
(* loaded is one submission; this module is about what the data means.     *)
(***************************************************************************)
EXTENDS Presentation

CONSTANTS Body,      \* submissions
          Selection, \* bodies of queries
          Format     \* {"dense", "sparse"}

\* Validate bounds MAX_CELLS by SchemaMaxCells (config.go:91), the count up to
\* which the presentation multiplies (presentation.go:136).
ASSUME LimitAssumption ==
    MaxCellCount \in 1..MaxInt /\ MaxCells \in 1..MaxCellCount

\* Bodies have been decoded; they need not be valid.
ASSUME BodyAssumption ==
    /\ \A p \in Body : DecodedDimensions(p) /\ DecodedStatus(p)
    /\ \A q \in Selection : DecodedDimensions(q)

VARIABLES stage,     \* how far the data has come
          body,      \* what was submitted
          stored,    \* what the database holds
          selection, \* what a query asked for, <<>> for the whole dataset
          view,      \* what the store returned
          response,  \* what the client is sent
          error      \* why the last request was refused

vars == <<stage, body, stored, selection, view, response, error>>

NoView == [dimensions |-> <<>>, cells |-> <<>>]

Init ==
    /\ stage = "submitted"
    /\ body \in Body
    /\ stored = NoDataset
    /\ selection = <<>>
    /\ view = NoView
    /\ response = <<>>
    /\ error = "none"

\* POST of a dataset.
Replace ==
    LET parsed == ParseReplacement(body) IN
    /\ stage = "submitted"
    /\ stage' = IF parsed.error = "none" THEN "stored" ELSE "refused"
    /\ stored' = parsed.dataset
    /\ error' = parsed.error
    /\ UNCHANGED <<body, selection, view, response>>

Answer(v, format) ==
    /\ stage' = "answered"
    /\ view' = v
    /\ response' = DataResponse(v, format)
    /\ UNCHANGED error

\* GET of the data.
GetData(format) ==
    /\ stage = "stored"
    /\ Answer([dimensions |-> stored.dimensions, cells |-> stored.cells], format)
    /\ UNCHANGED <<body, stored, selection>>

\* The selected cells that are stored, numbered as the query orders them.
OutputCells(indexes) ==
    [n \in {m \in DOMAIN indexes : indexes[m] \in DOMAIN stored.cells} |->
        stored.cells[indexes[n]]]

\* POST of a query.
Query(q, format) ==
    LET parsed == ParseSelection(q)
        resolved == ResolveSelection(parsed.selection, stored.dimensions, MaxCells)
        refuse(e) == stage' = "refused" /\ error' = e /\ UNCHANGED <<view, response>>
    IN
    /\ stage = "stored"
    /\ selection' = parsed.selection
    /\ \/ parsed.error # "none" /\ refuse(parsed.error)
       \/ /\ parsed.error = "none" /\ resolved.error # "none"
          /\ refuse(resolved.error)
       \/ /\ parsed.error = "none" /\ resolved.error = "none"
          /\ Answer([dimensions |-> resolved.dimensions,
                     cells |-> OutputCells(resolved.indexes)], format)
    /\ UNCHANGED <<body, stored>>

Next ==
    \/ Replace
    \/ \E format \in Format :
          GetData(format) \/ \E q \in Selection : Query(q, format)

Spec == Init /\ [][Next]_vars

-----------------------------------------------------------------------------
(***************************************************************************)
(* What data means, told without strides: the cells of a cube are numbered *)
(* in the lexicographic order of their coordinates, and a cell is named by *)
(* one category of every dimension.                                        *)
(***************************************************************************)
Vectors(sizes) ==
    LET top == CHOOSE m \in {sizes[i] : i \in DOMAIN sizes} :
                  \A i \in DOMAIN sizes : sizes[i] <= m
    IN  {c \in [DOMAIN sizes -> 0..(top - 1)] : \A i \in DOMAIN sizes : c[i] < sizes[i]}
Before(b, c) ==
    \E i \in DOMAIN c : b[i] < c[i] /\ \A j \in 1..(i - 1) : b[j] = c[j]
Rank(c, vectors) == Cardinality({b \in vectors : Before(b, c)})

Name(dimensions, c) ==
    {<<dimensions[i].code.key, dimensions[i].categories[c[i] + 1].key>> :
        i \in DOMAIN dimensions}
Meaning(dimensions, cells) ==
    LET vectors == Vectors(Sizes(dimensions))
        held == {c \in vectors : Rank(c, vectors) \in DOMAIN cells}
    IN  {<<Name(dimensions, c), cells[Rank(c, vectors)]>> : c \in held}

AllCodes(dimensions) ==
    {<<d.code, Codes(d)>> : d \in ToSet(dimensions)}
Ordered(codes) == \A i, j \in DOMAIN codes : i < j => codes[i].key < codes[j].key

\* Every value, text and status is stored under the names it was submitted
\* for, whatever the order in which the submission lists its dimensions and
\* categories, and dimensions and categories are stored in key order with
\* their spellings (remapReplacement, remapCellIndex).
StoredAsSubmitted ==
    stored # NoDataset =>
        LET requested == RequestDimensions(body) IN
        /\ Meaning(stored.dimensions, stored.cells)
             = Meaning(requested, RequestCells(body, stored.cellCount))
        /\ AllCodes(stored.dimensions) = AllCodes(requested)
        /\ Ordered([i \in DOMAIN stored.dimensions |-> stored.dimensions[i].code])
        /\ \A d \in ToSet(stored.dimensions) : Ordered(d.categories)

\* An accepted submission never meets a check constraint of the tables:
\* cells lie in the cube, have content, and have a number or a text but not
\* both; the cached counts are within their ranges.
RowsSatisfyChecks ==
    stored # NoDataset =>
        /\ stored.cellCount = Cardinality(Vectors(Sizes(stored.dimensions)))
        /\ stored.cellCount \in 1..MaxCells
        /\ stored.valuedCount \in 0..stored.cellCount
        /\ \A i \in DOMAIN stored.cells :
              LET c == stored.cells[i] IN
              /\ i \in 0..(stored.cellCount - 1)
              /\ c # Empty
              /\ c.numeric = "none" \/ c.text = "none"

\* A query answers with exactly the stored cells whose names it selected, in
\* a cube of the query's own order, under the spellings that are stored
\* (ResolveSelection, Query).
QueryAnswersSelection ==
    stage = "answered" /\ selection # <<>> =>
        LET names == UNION {{<<d.code.key, c.key>> : c \in Codes(d)} :
                               d \in ToSet(selection)}
            spelled == UNION {{<<d.code, c>> : c \in Codes(d)} :
                                 d \in ToSet(stored.dimensions)}
        IN
        /\ Meaning(view.dimensions, view.cells)
             = {m \in Meaning(stored.dimensions, stored.cells) : m[1] \subseteq names}
        /\ [i \in DOMAIN selection |-> selection[i].code.key]
             = [i \in DOMAIN view.dimensions |-> view.dimensions[i].code.key]
        /\ \A d \in ToSet(view.dimensions) :
              \A c \in Codes(d) : <<d.code, c>> \in spelled

\* What the client is sent, dense or sparse, would be accepted as a
\* submission and would mean what the store returned: no representation
\* loses, invents or moves a value, a text or a status (DataResponse).
ResponseMeansView ==
    stage = "answered" =>
        LET again == ParseReplacement(response) IN
        /\ again.error = "none"
        /\ Meaning(again.dataset.dimensions, again.dataset.cells)
             = Meaning(view.dimensions, view.cells)
=============================================================================
