----------------------------- MODULE Presentation -----------------------------
(***************************************************************************)
(* DataResponse of internal/presentation/presentation.go: a view in the    *)
(* shape in which a replacement is submitted.  A view has dimensions, and  *)
(* cells by index; a cell has content or is missing.                       *)
(***************************************************************************)
EXTENDS Payload

CONSTANT MaxCellCount  \* domainMaxCellCount

Structure(view) ==
    [id |-> [i \in DOMAIN view.dimensions |-> view.dimensions[i].code.spelling],
     dimension |->
        [s \in {d.code.spelling : d \in ToSet(view.dimensions)} |->
            LET d == CHOOSE e \in ToSet(view.dimensions) : e.code.spelling = s
            IN  [c \in {g.spelling : g \in Codes(d)} |->
                    (CHOOSE j \in DOMAIN d.categories :
                        d.categories[j].spelling = c) - 1]]]

\* Mutant of SharedStatus: cells without content are not counted.
SharedByStored(cells, count) ==
    LET statuses == {cells[i].status : i \in DOMAIN cells} IN
    IF cells # <<>> /\ Cardinality(statuses) = 1 /\ "none" \notin statuses
    THEN statuses ELSE {}

\* The status every cell of the cube has, if there is one.
SharedStatus(cells, count) ==
    LET statuses == {cells[i].status : i \in DOMAIN cells} IN
    IF Cardinality(DOMAIN cells) >= count /\ count # 0
         /\ Cardinality(statuses) = 1 /\ "none" \notin statuses
    THEN statuses ELSE {}

\* One field of every cell, dense or sparse.
Channel(cells, count, field, format) ==
    IF format = "dense"
    THEN [form |-> "dense",
          entries |-> [i \in 1..count |->
              IF i - 1 \in DOMAIN cells /\ cells[i - 1][field] # "none"
              THEN cells[i - 1][field] ELSE "null"]]
    ELSE [form |-> "sparse",
          entries |-> [k \in {[n |-> i, canonical |-> TRUE] :
                                i \in {j \in DOMAIN cells : cells[j][field] # "none"}} |->
                          cells[k.n][field]]]

\* The text and status channels are left out when no cell has one.
Optional(cells, count, field, format) ==
    IF \E i \in DOMAIN cells : cells[i][field] # "none"
    THEN Channel(cells, count, field, format) ELSE Absent

DataResponse(view, format) ==
    LET count == CheckedProduct(Sizes(view.dimensions), MaxCellCount).count
        shared == SharedStatus(view.cells, count)
        structure == Structure(view)
    IN  [id |-> structure.id, dimension |-> structure.dimension,
         value |-> Channel(view.cells, count, "numeric", format),
         text |-> Optional(view.cells, count, "text", format),
         status |-> IF shared # {}
                    THEN [form |-> "scalar", entries |-> <<CHOOSE s \in shared : TRUE>>]
                    ELSE Optional(view.cells, count, "status", format)]
=============================================================================
