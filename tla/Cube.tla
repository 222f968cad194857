--------------------------------- MODULE Cube ---------------------------------
(***************************************************************************)
(* The row-major cube arithmetic of internal/domain/index.go,              *)
(* remapCellIndex and ResolveSelection.  Sequences are numbered from 1;    *)
(* coordinates, category positions and cell indexes are numbered from 0,   *)
(* as in the code.                                                         *)
(*                                                                         *)
(* A code is a record of the spelling that was submitted and its           *)
(* normalized key; keys are numbers in their bytewise order.  A dimension  *)
(* is a code and the sequence of its categories' codes by position.        *)
(***************************************************************************)
EXTENDS Integers, Sequences, SequencesExt

CONSTANT MaxInt  \* math.MaxInt64
ASSUME MaxIntAssumption == MaxInt \in Nat \ {0}

Codes(dimension) == ToSet(dimension.categories)
Keys(codes) == {c.key : c \in codes}
Sizes(dimensions) == [i \in DOMAIN dimensions |-> Len(dimensions[i].categories)]

\* Mutant of CheckedProduct: the product is computed, in two's complement,
\* before it is checked.
LateProduct(sizes, limit) ==
    LET wrap(x) == ((x + MaxInt + 1) % (2 * (MaxInt + 1))) - (MaxInt + 1)
        step(p, size) ==
            IF p.error # "none" THEN p
            ELSE IF size < 1 THEN [p EXCEPT !.error = "empty"]
            ELSE IF wrap(p.count * size) > limit THEN [p EXCEPT !.error = "limit"]
            ELSE [p EXCEPT !.count = wrap(@ * size)]
    IN  FoldLeft(step, [error |-> IF sizes = <<>> THEN "empty" ELSE "none",
                        count |-> 1], sizes)

\* The product of sizes, or the error that stops the loop.
CheckedProduct(sizes, limit) ==
    LET step(p, size) ==
            IF p.error # "none" THEN p
            ELSE IF size < 1 THEN [p EXCEPT !.error = "empty"]
            ELSE IF p.count > MaxInt \div size THEN [p EXCEPT !.error = "overflow"]
            ELSE IF p.count * size > limit THEN [p EXCEPT !.error = "limit"]
            ELSE [p EXCEPT !.count = @ * size]
    IN  FoldLeft(step, [error |-> IF sizes = <<>> THEN "empty" ELSE "none",
                        count |-> 1], sizes)

\* How many cells apart two neighbours along each dimension are.
Strides(sizes) ==
    LET stride[i \in DOMAIN sizes] ==
            IF i = Len(sizes) THEN 1 ELSE stride[i + 1] * sizes[i + 1]
    IN  stride

\* "Outside" is the error of Coordinates and CellIndex.
Outside == <<-1>>

\* Mutant of Coordinates: the remainder is not carried on.
WholeCoordinates(index, sizes, strides) ==
    LET coords == [i \in DOMAIN sizes |-> index \div strides[i]]
    IN  IF index < 0 \/ \E i \in DOMAIN sizes : coords[i] >= sizes[i]
        THEN Outside ELSE coords

Coordinates(index, sizes, strides) ==
    LET remaining[i \in DOMAIN sizes] ==
            IF i = 1 THEN index ELSE remaining[i - 1] % strides[i - 1]
        coords == [i \in DOMAIN sizes |-> remaining[i] \div strides[i]]
    IN  IF index < 0 \/ \E i \in DOMAIN sizes : coords[i] >= sizes[i]
        THEN Outside ELSE coords

CellIndex(coords, strides) ==
    LET sum[i \in 0..Len(coords)] ==
            IF i = 0 THEN 0 ELSE sum[i - 1] + coords[i] * strides[i]
    IN  sum[Len(coords)]

PositionOf(dimension, key) ==
    (CHOOSE j \in DOMAIN dimension.categories :
        dimension.categories[j].key = key) - 1
PlaceOf(dimensions, key) ==
    CHOOSE i \in DOMAIN dimensions : dimensions[i].code.key = key

\* Mutant of RemapCellIndex: keeps the request's category positions.
RemapDimensionsOnly(index, requested, stored) ==
    LET strides == Strides(Sizes(requested))
        storedStrides == Strides(Sizes(stored))
        step(p, i) ==
            [remaining |-> p.remaining % strides[i],
             index |-> p.index + (p.remaining \div strides[i])
                         * storedStrides[PlaceOf(stored, requested[i].code.key)]]
    IN  FoldLeftDomain(LAMBDA p, i : step(p, i),
                       [remaining |-> index, index |-> 0], requested).index

\* The fused loop: takes a coordinate off the request's index and adds its
\* share to the stored index at once, with no coordinate slice.
RemapCellIndex(index, requested, stored) ==
    LET strides == Strides(Sizes(requested))
        storedStrides == Strides(Sizes(stored))
        step(p, i) ==
            LET d == requested[i]
                place == PlaceOf(stored, d.code.key)
                category == d.categories[p.remaining \div strides[i] + 1]
            IN  [remaining |-> p.remaining % strides[i],
                 index |-> p.index + PositionOf(stored[place], category.key)
                                       * storedStrides[place]]
    IN  FoldLeftDomain(LAMBDA p, i : step(p, i),
                       [remaining |-> index, index |-> 0], requested).index

(***************************************************************************)
(* ResolveSelection: the selected dimensions in the order of the query,    *)
(* with the spellings that are stored, and the stored index of every       *)
(* selected cell.                                                          *)
(***************************************************************************)
Selectable(selection, stored) ==
    /\ Len(selection) = Len(stored)
    /\ \A i, j \in DOMAIN selection :
          selection[i].code.key = selection[j].code.key => i = j
    /\ \A i \in DOMAIN selection :
          \E d \in ToSet(stored) :
              /\ d.code.key = selection[i].code.key
              /\ Keys(Codes(selection[i])) \subseteq Keys(Codes(d))
              /\ \A j, k \in DOMAIN selection[i].categories :
                    selection[i].categories[j].key
                      = selection[i].categories[k].key => j = k

Selected(selection, stored) ==
    [i \in DOMAIN selection |->
        LET d == stored[PlaceOf(stored, selection[i].code.key)] IN
        [code |-> d.code,
         categories |-> [j \in DOMAIN selection[i].categories |->
             d.categories[PositionOf(d, selection[i].categories[j].key) + 1]]]]

\* Mutant of SelectedIndexes: coordinates stay in the order of the query.
QueryOrderIndexes(output, stored, count) ==
    LET sizes == Sizes(output) IN
    [n \in 0..(count - 1) |->
        LET coords == Coordinates(n, sizes, Strides(sizes)) IN
        CellIndex([i \in DOMAIN output |->
                      PositionOf(stored[PlaceOf(stored, output[i].code.key)],
                                 output[i].categories[coords[i] + 1].key)],
                  Strides(Sizes(stored)))]

SelectedIndexes(output, stored, count) ==
    LET sizes == Sizes(output) IN
    [n \in 0..(count - 1) |->
        LET coords == Coordinates(n, sizes, Strides(sizes))
            from(p) == PlaceOf(output, stored[p].code.key)
        IN  CellIndex([p \in DOMAIN stored |->
                          PositionOf(stored[p],
                             output[from(p)].categories[coords[from(p)] + 1].key)],
                      Strides(Sizes(stored)))]

\* The error of a selection, or what it resolves to.
ResolveSelection(selection, stored, maxCells) ==
    IF ~Selectable(selection, stored)
    THEN [error |-> "invalid_selection", dimensions |-> <<>>, indexes |-> <<>>]
    ELSE LET output == Selected(selection, stored)
             product == CheckedProduct(Sizes(output), maxCells)
         IN  [error |-> CASE product.error = "none" -> "none"
                          [] product.error = "limit" -> "cell_limit_exceeded"
                          [] OTHER -> "invalid_selection",
              dimensions |-> output,
              indexes |-> IF product.error = "none"
                          THEN SelectedIndexes(output, stored, product.count)
                          ELSE <<>>]
=============================================================================
