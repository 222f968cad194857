---------------------------- MODULE AcceptanceProofs ----------------------------
(***************************************************************************)
(* Theorems about Acceptance, for any side from two on and any of the      *)
(* faults: what a gate that passes has shown of its API, and what one that *)
(* fails has found.                                                        *)
(*                                                                         *)
(* CubeProofs is extended for its lemmas on the operators of Cube; nothing *)
(* is said here about the state of MCCube.                                 *)
(***************************************************************************)
EXTENDS Acceptance, CubeProofs

-----------------------------------------------------------------------------
(* The cube of three dimensions that the driver submits.                   *)

\* The index of coordinates in three dimensions.
LEMMA ThreeShares ==
    ASSUME NEW c \in [1..3 -> Nat], NEW st \in [1..3 -> Nat \ {0}]
    PROVE  CellIndex(c, st) = c[1] * st[1] + c[2] * st[2] + c[3] * st[3]
<1> DEFINE sum == Sum(c, st)
<1>1. sum[0] = 0 /\ \A i \in 1..3 : sum[i] = sum[i - 1] + c[i] * st[i]
    <2>1. 3 \in Nat
        OBVIOUS
    <2> QED
        BY <2>1, SumOf
<1>2. Len(c) = 3
    OBVIOUS
<1>3. CellIndex(c, st) = sum[3]
    BY <1>2, Zenon DEF CellIndex, Sum
<1> HIDE DEF sum
<1>4. \A i \in 1..3 : c[i] * st[i] \in Nat
    <2> TAKE i \in 1..3
    <2>1. c[i] \in Nat /\ st[i] \in Nat
        OBVIOUS
    <2> QED
        BY <2>1
<1>5. /\ sum[1] = sum[0] + c[1] * st[1] /\ sum[2] = sum[1] + c[2] * st[2]
      /\ sum[3] = sum[2] + c[3] * st[3]
    BY <1>1
<1> QED
    BY <1>1, <1>3, <1>4, <1>5

\* The strides of three dimensions.
LEMMA ThreeStrides ==
    ASSUME NEW s, DOMAIN s = 1..3, s = [i \in 1..3 |-> s[i]],
           \A i \in 1..3 : s[i] \in Nat \ {0}
    PROVE  /\ s \in Shapes /\ Len(s) = 3 /\ Strides(s) \in [1..3 -> Nat \ {0}]
           /\ Strides(s)[3] = 1 /\ Strides(s)[2] = s[3] /\ Strides(s)[1] = s[3] * s[2]
<1>1. s \in [1..3 -> Nat \ {0}]
    OBVIOUS
<1>2. s \in Seq(Nat \ {0}) /\ Len(s) = 3
    BY <1>1
<1>3. s \in Shapes
    BY <1>2 DEF Shapes
<1>4. /\ Strides(s)[3] = 1 /\ Strides(s)[2] = Strides(s)[3] * s[3]
      /\ Strides(s)[1] = Strides(s)[2] * s[2] /\ Strides(s) \in [1..3 -> Nat \ {0}]
    <2>1. /\ Strides(s) \in [1..Len(s) -> Nat \ {0}] /\ Strides(s)[Len(s)] = 1
          /\ \A i \in 2..Len(s) : Strides(s)[i - 1] = Strides(s)[i] * s[i]
        BY <1>3, StridesOf
    <2>2. 3 \in 2..3 /\ 2 \in 2..3 /\ 3 - 1 = 2 /\ 2 - 1 = 1
        OBVIOUS
    <2> QED
        BY <1>2, <2>1, <2>2
<1> QED
    BY <1>2, <1>3, <1>4

\* A number has one quotient and one remainder.
LEMMA OneQuotient ==
    ASSUME NEW side \in Nat, NEW i \in 0..(side - 1), NEW j \in 0..(side - 1),
           NEW k \in 0..(side - 1), NEW l \in 0..(side - 1),
           i * side + j = k * side + l
    PROVE  i = k /\ j = l
<1>1. i * side \in Nat /\ k * side \in Nat
    OBVIOUS
<1>2. ASSUME i < k PROVE FALSE
    <2>1. (i + 1) * side <= k * side
        BY <1>2, Grows
    <2>2. (i + 1) * side = i * side + side
        OBVIOUS
    <2> QED
        BY <1>1, <2>1, <2>2
<1>3. ASSUME k < i PROVE FALSE
    <2>1. (k + 1) * side <= i * side
        BY <1>3, Grows
    <2>2. (k + 1) * side = k * side + side
        OBVIOUS
    <2> QED
        BY <1>1, <2>1, <2>2
<1>4. i = k
    BY <1>2, <1>3
<1> QED
    BY <1>1, <1>4

\* The cells of the cube, and of its slice that is asked for.
LEMMA CellsAre ==
    /\ Side \in Nat /\ Side >= 2 /\ Side * Side \in Nat
    /\ Cells \in Nat /\ Cells >= 8 /\ Cells \div 2 \in 0..(Cells - 1)
    /\ Cells = (Side * Side) * Side
<1>1. Side \in Nat /\ Side >= 2
    BY AcceptanceAssumption
<1>2. 2 * Side <= Side * Side /\ Side * Side \in Nat
    BY <1>1, Grows
<1>3. 4 * Side <= (Side * Side) * Side /\ (Side * Side) * Side \in Nat
    <2>1. 4 <= Side * Side
        BY <1>1, <1>2
    <2> QED
        BY <1>1, <1>2, <2>1, Grows
<1>4. Cells = (Side * Side) * Side
    BY DEF Cells
<1> QED
    BY <1>1, <1>2, <1>3, <1>4

\* A place in the slice is a cell of it, and the value wanted there is one of
\* the cube's.
LEMMA WantedInside ==
    ASSUME NEW i \in 0..(Side - 1), NEW j \in 0..(Side - 1)
    PROVE  /\ i * Side + j \in 0..(Side * Side - 1)
           /\ i * Side + j + 1 \in 1..(Side * Side)
           /\ Want(i, j) \in 0..(Cells - 1)
<1>1. Side \in Nat /\ Side >= 2 /\ Side * Side \in Nat /\ Cells = (Side * Side) * Side
    BY CellsAre
<1>2. i \in Nat /\ j \in Nat /\ i + 1 <= Side /\ j + 1 <= Side
    BY <1>1
<1>3. (i + 1) * Side <= Side * Side /\ (i + 1) * Side = i * Side + Side /\ i * Side \in Nat
    BY <1>1, <1>2, Grows
<1>4. i * Side + j \in 0..(Side * Side - 1)
    BY <1>1, <1>2, <1>3
<1>5. (Side - 1 - i) * Side + i * Side + Side = Side * Side /\ (Side - 1 - i) * Side \in Nat
    <2>1. Side - 1 - i \in Nat
        BY <1>1, <1>2
    <2>2. (Side - 1 - i) * Side \in Nat
        BY <1>1, <2>1
    <2> QED
        BY <1>1, <1>2, <2>2
<1>6. /\ (j + 1) * (Side * Side) <= Side * (Side * Side)
      /\ (j + 1) * (Side * Side) = j * (Side * Side) + Side * Side
      /\ j * (Side * Side) \in Nat
    BY <1>1, <1>2, Grows
<1>7. Side * (Side * Side) = Cells /\ j * (Side * Side) = j * Side * Side
    BY <1>1, <1>2
<1>8. Want(i, j) = j * (Side * Side) + (Side - 1 - i) * Side
    BY <1>7 DEF Want
<1>9. Want(i, j) \in Nat /\ Want(i, j) < Cells
    BY <1>1, <1>2, <1>3, <1>5, <1>6, <1>7, <1>8
<1> QED
    BY <1>1, <1>4, <1>9

\* The dimensions a query may ask for: c alone, then b in the order of keys,
\* then a.
Asking(keys) == <<Dimension(3, <<0>>), Dimension(2, keys), Dimension(1, InOrder)>>

\* The sizes of what is stored.
LEMMA StructureSizes ==
    LET s == Sizes(Structure) IN
    /\ DOMAIN s = 1..3 /\ s = [k \in 1..3 |-> s[k]] /\ \A k \in 1..3 : s[k] = Side
<1>1. Side \in Nat
    BY CellsAre
<1>2. \A k \in 1..3 : Structure[k].categories = [i \in 1..Side |-> [key |-> i - 1]]
    BY <1>1 DEF Structure, Dimension, InOrder
<1>3. Sizes(Structure) = [k \in 1..3 |-> Len(Structure[k].categories)]
    BY DEF Sizes, Structure
<1>4. \A k \in 1..3 : Len(Structure[k].categories) = Side
    BY <1>1, <1>2
<1> QED
    BY <1>3, <1>4

\* The sizes of what is asked for.
LEMMA AskingSizes ==
    ASSUME NEW keys \in [1..Side -> Nat]
    PROVE  LET s == Sizes(Asking(keys)) IN
           /\ DOMAIN s = 1..3 /\ s = [k \in 1..3 |-> s[k]]
           /\ s[1] = 1 /\ s[2] = Side /\ s[3] = Side
<1>1. Side \in Nat
    BY CellsAre
<1> DEFINE o == Asking(keys)
<1>2. /\ o[1].categories = [i \in 1..1 |-> [key |-> 0]]
      /\ o[2].categories = [i \in 1..Side |-> [key |-> keys[i]]]
      /\ o[3].categories = [i \in 1..Side |-> [key |-> i - 1]]
    BY <1>1 DEF Asking, Dimension, InOrder
<1>3. Sizes(o) = [k \in 1..3 |-> Len(o[k].categories)]
    BY DEF Sizes, Asking
<1>4. Len(o[1].categories) = 1 /\ Len(o[2].categories) = Side /\ Len(o[3].categories) = Side
    BY <1>1, <1>2
<1> QED
    BY <1>3, <1>4

\* A cell of the slice is found by its coordinates.
LEMMA SliceCoordinates ==
    ASSUME NEW keys \in [1..Side -> Nat], NEW i \in 0..(Side - 1), NEW j \in 0..(Side - 1)
    PROVE  LET s == Sizes(Asking(keys))
               c == Coordinates(i * Side + j, s, Strides(s))
           IN  c[1] = 0 /\ c[2] = i /\ c[3] = j
<1> DEFINE s == Sizes(Asking(keys))
           n == i * Side + j
           c == Coordinates(n, s, Strides(s))
<1>1. Side \in Nat /\ Side >= 2 /\ Side * Side \in Nat
    BY CellsAre
<1>2. DOMAIN s = 1..3 /\ s = [k \in 1..3 |-> s[k]] /\ s[1] = 1 /\ s[2] = Side /\ s[3] = Side
    BY AskingSizes
<1> HIDE DEF s
<1>3. \A k \in 1..3 : s[k] \in Nat \ {0}
    BY <1>1, <1>2
<1>4. /\ s \in Shapes /\ Len(s) = 3 /\ Strides(s) \in [1..3 -> Nat \ {0}]
      /\ Strides(s)[3] = 1 /\ Strides(s)[2] = Side /\ Strides(s)[1] = Side * Side
    BY <1>2, <1>3, ThreeStrides
<1>5. Product(s) = Side * Side
    BY <1>1, <1>2, <1>4, SizeOf
<1>6. n \in 0..(Product(s) - 1)
    BY <1>5, WantedInside
<1> HIDE DEF n
<1>7. c \in Coords(s) /\ CellIndex(c, Strides(s)) = n
    BY <1>4, <1>6, CoordsOf
<1> HIDE DEF c
<1>8. c \in [1..3 -> Nat] /\ \A k \in 1..3 : c[k] < s[k]
    BY <1>4, <1>7 DEF Coords
<1>9. c \in [1..3 -> Nat] /\ c[1] = 0 /\ c[2] \in 0..(Side - 1) /\ c[3] \in 0..(Side - 1)
    BY <1>1, <1>2, <1>8
<1>10. CellIndex(c, Strides(s)) = 0 * (Side * Side) + c[2] * Side + c[3] * 1
    BY <1>4, <1>9, ThreeShares
<1>11. c[2] * Side + c[3] = n
    <2>1. c[2] * Side \in Nat /\ c[3] * 1 = c[3] /\ 0 * (Side * Side) = 0
        BY <1>1, <1>9
    <2> QED
        BY <1>7, <1>9, <1>10, <2>1
<1>12. c[2] = i /\ c[3] = j
    <2>1. c[2] * Side + c[3] = i * Side + j
        BY <1>11 DEF n
    <2>2. c[2] \in 0..(Side - 1) /\ c[3] \in 0..(Side - 1)
        BY <1>9
    <2>3. \A k, l \in 0..(Side - 1) : k * Side + l = i * Side + j => k = i /\ l = j
        BY <1>1, OneQuotient
    <2> QED
        BY <2>1, <2>2, <2>3, Zenon
<1> QED
    BY <1>9, <1>12 DEF c, s, n

\* The place of a key in what is stored.
LEMMA StoredPosition ==
    ASSUME NEW p \in 1..3, NEW key \in 0..(Side - 1)
    PROVE  PositionOf(Structure[p], key) = key
<1> DEFINE g == Structure[p].categories
           first == CHOOSE k \in DOMAIN g : g[k].key = key
<1>1. Side \in Nat /\ g = [i \in 1..Side |-> [key |-> i - 1]]
    BY CellsAre DEF Structure, Dimension, InOrder
<1>2. PositionOf(Structure[p], key) = first - 1
    BY DEF PositionOf
<1> HIDE DEF g
<1>3. key + 1 \in DOMAIN g /\ g[key + 1].key = key
    BY <1>1
<1>4. \A k \in DOMAIN g : g[k].key = key => k = key + 1
    BY <1>1
<1>5. first = key + 1
    BY <1>3, <1>4
<1> HIDE DEF first
<1> QED
    BY <1>1, <1>2, <1>5

\* What is read for a cell of the slice: the stored index of its names.
LEMMA SliceIndex ==
    ASSUME NEW keys \in [1..Side -> 0..(Side - 1)],
           NEW i \in 0..(Side - 1), NEW j \in 0..(Side - 1)
    PROVE  SelectedIndexes(Asking(keys), Structure, Side * Side)[i * Side + j]
               = j * Side * Side + keys[i + 1] * Side
<1> DEFINE o == Asking(keys)
           s == Sizes(o)
           t == Strides(Sizes(Structure))
           n == i * Side + j
           c == Coordinates(n, s, Strides(s))
           from(p) == PlaceOf(o, Structure[p].code.key)
           at == [p \in DOMAIN Structure |->
                     PositionOf(Structure[p], o[from(p)].categories[c[from(p)] + 1].key)]
<1>1. Side \in Nat /\ Side >= 2 /\ Side * Side \in Nat
    BY CellsAre
<1>2. n \in 0..(Side * Side - 1)
    BY WantedInside
<1>3. SelectedIndexes(o, Structure, Side * Side)[n] = CellIndex(at, t)
    BY <1>2 DEF SelectedIndexes
<1>4. keys \in [1..Side -> Nat]
    BY <1>1
<1>5. c[1] = 0 /\ c[2] = i /\ c[3] = j
    BY <1>4, SliceCoordinates
<1> HIDE DEF c
<1>6. \A p \in 1..3 : Structure[p].code.key = p
    BY DEF Structure, Dimension
<1>7. DOMAIN o = 1..3 /\ o[1].code.key = 3 /\ o[2].code.key = 2 /\ o[3].code.key = 1
    BY DEF Asking, Dimension
<1>8. from(1) = 3 /\ from(2) = 2 /\ from(3) = 1
    BY <1>6, <1>7 DEF PlaceOf
<1>9. /\ o[1].categories[1].key = 0
      /\ o[2].categories[i + 1].key = keys[i + 1]
      /\ o[3].categories[j + 1].key = j
    BY <1>1, <1>4 DEF Asking, Dimension, InOrder
<1> HIDE DEF from, o
<1>10. /\ at[1] = PositionOf(Structure[1], j) /\ at[2] = PositionOf(Structure[2], keys[i + 1])
       /\ at[3] = PositionOf(Structure[3], 0)
    <2>1. DOMAIN Structure = 1..3
        BY DEF Structure
    <2>2. \A p \in 1..3 : at[p] = PositionOf(Structure[p],
                                             o[from(p)].categories[c[from(p)] + 1].key)
        BY <2>1
    <2>3. /\ at[1] = PositionOf(Structure[1], o[3].categories[c[3] + 1].key)
          /\ at[2] = PositionOf(Structure[2], o[2].categories[c[2] + 1].key)
          /\ at[3] = PositionOf(Structure[3], o[1].categories[c[1] + 1].key)
        BY <1>8, <2>2
    <2>4. c[1] + 1 = 1 /\ c[2] + 1 = i + 1 /\ c[3] + 1 = j + 1
        BY <1>5
    <2> QED
        BY <1>9, <2>3, <2>4, Zenon
<1>11. keys[i + 1] \in 0..(Side - 1) /\ 0 \in 0..(Side - 1)
    BY <1>1
<1>12. at[1] = j /\ at[2] = keys[i + 1] /\ at[3] = 0
    BY <1>10, <1>11, StoredPosition
<1>13. at = [p \in 1..3 |-> at[p]]
    BY DEF Structure
<1> HIDE DEF at
<1>14. at \in [1..3 -> Nat]
    BY <1>1, <1>11, <1>12, <1>13
<1>15. /\ t \in [1..3 -> Nat \ {0}] /\ t[3] = 1 /\ t[2] = Side /\ t[1] = Side * Side
    BY <1>1, StructureSizes, ThreeStrides
<1> HIDE DEF t
<1>16. CellIndex(at, t) = j * (Side * Side) + keys[i + 1] * Side + 0 * 1
    BY <1>12, <1>14, <1>15, ThreeShares
<1>17. j * (Side * Side) = j * Side * Side /\ keys[i + 1] * Side \in Nat
    BY <1>1, <1>11
<1> QED
    BY <1>1, <1>3, <1>16, <1>17 DEF o, n

-----------------------------------------------------------------------------
(* What the API answers, and what the driver accepts.                      *)

\* What the driver submits in its order.
Older == Body("dense", "a")
Newer == Body("sparse", "none")
Abandoned == Body("aborted", "none")

\* A body has a value for every cell.
LEMMA BodyIs ==
    ASSUME NEW generation, NEW status
    PROVE  LET d == Body(generation, status) IN
           /\ d.generation = generation /\ d.status = status
           /\ d.values = [i \in 1..Cells |-> i - 1]
           /\ Len(d.values) = Cells /\ Complete(d)
           /\ generation # "none" => d # Absent
<1> DEFINE d == Body(generation, status)
<1>1. /\ d.generation = generation /\ d.status = status
      /\ d.values = [i \in 1..Cells |-> i - 1]
    BY DEF Body
<1>2. Len(d.values) = Cells
    BY <1>1, CellsAre
<1>3. generation # "none" => d # Absent
    BY <1>1 DEF Absent
<1> QED
    BY <1>1, <1>2, <1>3 DEF Complete

\* The three bodies, and that there is none.
LEMMA BodiesAre ==
    /\ Older.generation = "dense" /\ Older.status = "a"
    /\ Newer.generation = "sparse" /\ Newer.status = "none"
    /\ Abandoned.generation = "aborted" /\ Abandoned.status = "none"
    /\ Complete(Older) /\ Complete(Newer) /\ Complete(Abandoned)
    /\ Absent.generation = "none" /\ Absent # Older /\ Absent # Newer /\ Absent # Abandoned
    /\ \A d \in {Older, Newer, Abandoned} :
          d.values = [i \in 1..Cells |-> i - 1] /\ Len(d.values) = Cells
<1>1. Absent.generation = "none"
    BY DEF Absent
<1> QED
    BY <1>1, BodyIs DEF Older, Newer, Abandoned

\* A replacement keeps what it was sent, unless a status that is not sent is
\* kept from before.
LEMMA ReplacedIs ==
    /\ Replaced(Older) = Older
    /\ fault # "merge" => Replaced(Newer) = Newer /\ Replaced(Abandoned) = Abandoned
    /\ fault = "merge" /\ dataset.status = "a" => Replaced(Newer).status = "a"
    /\ Len(Replaced(Newer).values) = Cells
    /\ Replaced(Newer).generation = "sparse"
<1>1. Replaced(Older) = Older
    BY BodiesAre DEF Replaced
<1>2. fault # "merge" => Replaced(Newer) = Newer /\ Replaced(Abandoned) = Abandoned
    BY DEF Replaced
<1>3. fault = "merge" => Replaced(Newer) = [Newer EXCEPT !.status = dataset.status]
    BY BodiesAre DEF Replaced
<1>4. /\ [Newer EXCEPT !.status = dataset.status].status = dataset.status
      /\ [Newer EXCEPT !.status = dataset.status].values = Newer.values
      /\ [Newer EXCEPT !.status = dataset.status].generation = Newer.generation
    BY DEF Newer, Body
<1> QED
    BY <1>1, <1>2, <1>3, <1>4, BodiesAre

\* A query's answer has the value that is wanted at each place, unless the
\* order of its categories is ignored.
LEMMA QueryAnswer ==
    ASSUME dataset = Older
    PROVE  /\ Len(Output("query")) = Side * Side
           /\ fault # "order" => \A i, j \in 0..(Side - 1) :
                 Output("query")[i * Side + j + 1] = Want(i, j)
           /\ fault = "order" => Output("query")[0 * Side + 0 + 1] = 0
<1> DEFINE keys == IF fault = "order" THEN InOrder ELSE Reverse(InOrder)
           asked == IF fault = "order" THEN [Subset EXCEPT ![2] = Structure[2]] ELSE Subset
           indexes == SelectedIndexes(asked, Structure, Side * Side)
           output == [n \in 1..(Side * Side) |-> dataset.values[indexes[n - 1] + 1]]
<1>1. Side \in Nat /\ Side >= 2 /\ Side * Side \in Nat
    BY CellsAre
<1>2. Output("query") = output
    BY DEF Output
<1>3. InOrder = [i \in 1..Side |-> i - 1] /\ Len(InOrder) = Side
    BY <1>1 DEF InOrder
<1>4. Reverse(InOrder) = [i \in 1..Side |-> InOrder[Side - i + 1]]
    <2>1. Reverse(InOrder) =
              [i \in 1..Len(InOrder) |-> InOrder[(Len(InOrder) - i) + 1]]
        BY Zenon DEF Reverse
    <2> QED
        BY <1>3, <2>1
<1>5. Reverse(InOrder) = [i \in 1..Side |-> Side - i]
    <2>1. \A i \in 1..Side : Side - i + 1 \in 1..Side /\ (Side - i + 1) - 1 = Side - i
        BY <1>1
    <2>2. \A i \in 1..Side : InOrder[Side - i + 1] = Side - i
        BY <1>3, <2>1
    <2> QED
        BY <1>4, <2>2
<1>6. keys \in [1..Side -> 0..(Side - 1)]
    <2>1. InOrder \in [1..Side -> 0..(Side - 1)]
        BY <1>1, <1>3
    <2>2. Reverse(InOrder) \in [1..Side -> 0..(Side - 1)]
        BY <1>1, <1>5
    <2> QED
        BY <2>1, <2>2
<1>7. asked = Asking(keys)
    <2>1. Subset = Asking(Reverse(InOrder))
        BY DEF Subset, Asking
    <2>2. [Asking(Reverse(InOrder)) EXCEPT ![2] = Structure[2]] = Asking(InOrder)
        BY DEF Asking, Structure
    <2> QED
        BY <2>1, <2>2, Zenon
<1> HIDE DEF asked
<1>8. \A i, j \in 0..(Side - 1) :
          indexes[i * Side + j] = j * Side * Side + keys[i + 1] * Side
    BY <1>6, <1>7, SliceIndex
<1> HIDE DEF indexes
<1>9. Len(output) = Side * Side
    BY <1>1
<1>10. \A i, j \in 0..(Side - 1) :
          output[i * Side + j + 1] = dataset.values[indexes[i * Side + j] + 1]
    <2> TAKE i, j \in 0..(Side - 1)
    <2> DEFINE n == i * Side + j
    <2>1. n + 1 \in 1..(Side * Side) /\ n \in 0..(Side * Side - 1)
        BY WantedInside
    <2> HIDE DEF n
    <2>2. (n + 1) - 1 = n
        BY <1>1, <2>1
    <2>3. output[n + 1] = dataset.values[indexes[n] + 1]
        BY <2>1, <2>2
    <2> QED
        BY <2>3 DEF n
<1> HIDE DEF output
<1>11. ASSUME NEW v \in 0..(Cells - 1) PROVE dataset.values[v + 1] = v
    <2>1. v + 1 \in 1..Cells /\ (v + 1) - 1 = v
        BY CellsAre
    <2> QED
        BY <2>1, BodiesAre
<1>12. ASSUME fault # "order", NEW i \in 0..(Side - 1), NEW j \in 0..(Side - 1)
       PROVE  output[i * Side + j + 1] = Want(i, j)
    <2>1. keys[i + 1] = Side - 1 - i
        BY <1>1, <1>5, <1>12
    <2>2. indexes[i * Side + j] = Want(i, j)
        BY <1>8, <2>1 DEF Want
    <2>3. Want(i, j) \in 0..(Cells - 1)
        BY WantedInside
    <2> QED
        BY <1>10, <1>11, <2>2, <2>3
<1>13. ASSUME fault = "order" PROVE output[0 * Side + 0 + 1] = 0
    <2>1. 0 \in 0..(Side - 1) /\ keys[0 + 1] = 0
        BY <1>1, <1>3, <1>13
    <2>2. indexes[0 * Side + 0] = 0 * Side * Side + 0 * Side
        BY <1>8, <2>1
    <2>3. 0 * Side * Side + 0 * Side = 0
        BY <1>1
    <2>4. 0 \in 0..(Cells - 1)
        BY CellsAre
    <2> QED
        BY <1>10, <1>11, <2>1, <2>2, <2>3, <2>4
<1> QED
    BY <1>2, <1>9, <1>12, <1>13

\* The answers to a query that the driver accepts are those in the order it
\* asked for.
LEMMA QueryAccepted ==
    ASSUME dataset = Older, NEW status
    PROVE  Accepts("query", Output("query"), status) <=> fault # "order"
<1> DEFINE output == Output("query")
           wanted(i, j) == output[i * Side + j + 1] = Want(i, j)
           places == {<<0, 0>>, <<0, Side - 1>>, <<Side - 1, 0>>, <<Side \div 2, Side \div 2>>}
<1>1. Side \in Nat /\ Side >= 2 /\ Side \div 2 \in 0..(Side - 1)
    BY CellsAre
<1>2. Accepts("query", output, status) <=>
          Len(output) = Side * Side /\ \A p \in places : wanted(p[1], p[2])
    BY DEF Accepts
<1>3. ASSUME fault # "order" PROVE \A p \in places : wanted(p[1], p[2])
    <2>1. \A i, j \in 0..(Side - 1) : wanted(i, j)
        BY <1>3, QueryAnswer
    <2>2. \A p \in places : p[1] \in 0..(Side - 1) /\ p[2] \in 0..(Side - 1)
        BY <1>1
    <2> HIDE DEF wanted, places
    <2> QED
        BY <2>1, <2>2
<1>4. ASSUME fault = "order" PROVE ~ wanted(0, 0)
    <2>1. output[0 * Side + 0 + 1] = 0
        BY <1>4, QueryAnswer
    <2>2. Want(0, 0) # 0
        <3>1. Want(0, 0) = (Side - 1) * Side
            BY <1>1 DEF Want
        <3>2. 1 * Side <= (Side - 1) * Side
            BY <1>1, Grows
        <3> QED
            BY <1>1, <3>1, <3>2
    <2> QED
        BY <2>1, <2>2
<1>5. <<0, 0>> \in places /\ <<0, 0>>[1] = 0 /\ <<0, 0>>[2] = 0
    OBVIOUS
<1>6. fault = "order" => \E p \in places : ~ wanted(p[1], p[2])
    <2> HIDE DEF wanted, places
    <2> QED
        BY <1>4, <1>5
<1>7. Len(output) = Side * Side
    BY QueryAnswer
<1> HIDE DEF wanted, places
<1> QED
    BY <1>2, <1>3, <1>6, <1>7

\* A dense answer is accepted unless it is cut.
LEMMA DenseAccepted ==
    ASSUME dataset = Older
    PROVE  Accepts("dense", Output("dense"), dataset.status) <=> fault # "truncate"
<1> DEFINE output == Output("dense")
<1>1. dataset.values = [i \in 1..Cells |-> i - 1] /\ Len(dataset.values) = Cells
      /\ dataset.status = "a"
    BY BodiesAre
<1>2. Cells \in Nat /\ Cells >= 8 /\ Cells \div 2 \in 0..(Cells - 1)
    BY CellsAre
<1>3. Accepts("dense", output, dataset.status) <=>
          /\ Len(output) = Cells /\ dataset.status = "a"
          /\ \A i \in {0, 1, Cells \div 2, Cells - 1} : output[i + 1] = i
    BY DEF Accepts
<1>4. fault = "truncate" => output = SubSeq(dataset.values, 1, Cells - 1)
    BY <1>1 DEF Output, Front
<1>5. Len(SubSeq(dataset.values, 1, Cells - 1)) = Cells - 1
    BY <1>1, <1>2
<1>6. fault # "truncate" => output = dataset.values
    BY DEF Output
<1>7. \A i \in {0, 1, Cells \div 2, Cells - 1} : dataset.values[i + 1] = i
    BY <1>1, <1>2
<1>8. Cells - 1 # Cells
    BY <1>2
<1> HIDE DEF output
<1>9. Accepts("dense", output, dataset.status) <=> fault # "truncate"
    BY <1>1, <1>3, <1>4, <1>5, <1>6, <1>7, <1>8
<1> QED
    BY <1>9 DEF output

\* A sparse answer is accepted.
LEMMA SparseAccepted ==
    ASSUME dataset = Older PROVE Accepts("sparse", Output("sparse"), dataset.status)
<1>1. dataset.values = [i \in 1..Cells |-> i - 1] /\ Len(dataset.values) = Cells
    BY BodiesAre
<1>2. Cells \in Nat /\ Cells >= 8
    BY CellsAre
<1>3. Output("sparse") = dataset.values
    BY DEF Output
<1>4. dataset.values[Cells] = Cells - 1
    BY <1>1, <1>2
<1> QED
    BY <1>1, <1>3, <1>4 DEF Accepts

-----------------------------------------------------------------------------
(* The invariant.                                                          *)

\* The abandoned replacement was committed all the same.
Aborted == flight.work = "committed" /\ flight.content.generation = "aborted"

\* The driver has not streamed a replacement yet.
Early == pos < 8 \/ (pos = 8 /\ call = "idle")

\* The streamed replacements, in their order.
FlightFits ==
    /\ flight = [content |-> flight.content, work |-> flight.work, whole |-> flight.whole,
                  open |-> flight.open, saved |-> flight.saved]
    /\ Early => flight.work = "none"
    /\ pos = 8 /\ call # "idle" => flight.content = Older
    /\ pos = 8 /\ call \in {"returned", "waiting"} /\ err = "none" => flight.work = "committed"
    /\ pos = 9 /\ call = "idle" => flight.work = "committed" /\ flight.content = Older
    /\ pos > 9 \/ (pos = 9 /\ call # "idle") => flight.content = Abandoned
    /\ flight.work = "torn" => fault = "tear"

\* What the steps that passed have shown.
Shown ==
    /\ pos > 3 => fault # "truncate"
    /\ pos > 5 => fault # "order"
    /\ pos > 7 => fault # "merge"
    /\ pos > 11 => fault # "keep"

\* The dataset that a driver which is still running meets.
DataFits ==
    /\ pos = 2 /\ fault # "keep" => dataset = Absent
    /\ pos \in 3..6 => dataset = Older
    /\ pos = 7 /\ fault # "merge" => dataset = Newer
    /\ pos = 7 /\ fault = "merge" => dataset # Absent /\ dataset.status = "a"
    /\ fault # "tear" =>
        /\ pos \in 8..9 => dataset \in {Newer, Older, Abandoned}
        /\ pos > 7 /\ dataset.generation = "aborted" => Aborted
        /\ pos = 9 /\ call # "idle" => before \in {Newer, Older}
        /\ pos = 10 \/ (pos = 11 /\ fault = "keep") => dataset # Absent
        /\ pos = 11 /\ fault # "keep" => dataset = Absent \/ Aborted

\* The reading goroutine reports what it sees, and ends with its step.
ReaderFits ==
    /\ Early => reader = "none"
    /\ reader # "done" => readErr = "none"
    /\ partial => readErr = "answer"
    /\ readErr = "answer" => fault = "tear"
    /\ pos > 8 => reader = "done" /\ readErr = "none"

\* Where the driver may be, and how it may have ended.
ExitFits ==
    /\ pos \in 1..12
    /\ exit = "passed" => pos = 12
    /\ err \in {"none", "unavailable"}
    /\ exit = "failed" /\ reason = "answer" => fault # "none" \/ Aborted

\* The inductive invariant: a driver that has ended promises nothing of the
\* dataset, which the API may still change.
IInv ==
    /\ fault \in Faults
    /\ ExitFits /\ FlightFits /\ Shown /\ ReaderFits
    /\ exit = "running" => DataFits

\* The steps of the script.
LEMMA ScriptIs ==
    /\ Len(Script) = 11
    /\ \A p \in 1..11 : Script[p].op = "atomic visibility" <=> p = 8
    /\ \A p \in 1..11 : Script[p].op = "forced rollback" <=> p = 9
    /\ Script[1].op = "delete" /\ Script[1].code = 204
    /\ Script[2].op = "create" /\ Script[2].code = 201
    /\ Script[3].op = "dense" /\ Script[3].code = 200
    /\ Script[4].op = "sparse" /\ Script[4].code = 200
    /\ Script[5].op = "query" /\ Script[5].code = 200
    /\ Script[6].op = "replace" /\ Script[6].code = 200
    /\ Script[7].op = "status" /\ Script[7].code = 200
    /\ Script[10].op = "delete" /\ Script[10].code = 204
    /\ Script[11].op = "gone" /\ Script[11].code = 404
<1>1. Len(Script) = 11
    BY DEF Script
<1>2. /\ Script[1].op = "delete" /\ Script[1].code = 204
      /\ Script[2].op = "create" /\ Script[2].code = 201
      /\ Script[3].op = "dense" /\ Script[3].code = 200
      /\ Script[4].op = "sparse" /\ Script[4].code = 200
      /\ Script[5].op = "query" /\ Script[5].code = 200
    BY DEF Script
<1>3. /\ Script[6].op = "replace" /\ Script[6].code = 200
      /\ Script[7].op = "status" /\ Script[7].code = 200
      /\ Script[8].op = "atomic visibility" /\ Script[9].op = "forced rollback"
      /\ Script[10].op = "delete" /\ Script[10].code = 204
      /\ Script[11].op = "gone" /\ Script[11].code = 404
    BY DEF Script
<1>4. \A p \in 1..11 : p \in {1, 2, 3, 4, 5, 6, 7, 8, 9, 10, 11}
    OBVIOUS
<1> HIDE DEF Script
<1> QED
    BY <1>1, <1>2, <1>3, <1>4

\* The places of the driver: in a step of one request, or in one of two others.
LEMMA PlacesAre ==
    ASSUME pos \in 1..12
    PROVE  /\ Running <=> exit = "running" /\ pos # 12
           /\ Concurrent => pos = 8 /\ exit = "running"
           /\ Rollback => pos = 9 /\ exit = "running"
           /\ Simple => pos \in {1, 2, 3, 4, 5, 6, 7, 10, 11} /\ exit = "running"
<1>1. pos <= 11 <=> pos # 12
    OBVIOUS
<1>2. pos # 12 => pos \in 1..11
    OBVIOUS
<1>3. Running <=> exit = "running" /\ pos # 12
    BY <1>1, ScriptIs, Zenon DEF Running
<1>4. pos # 12 => (Op = "atomic visibility" <=> pos = 8)
    BY <1>2, ScriptIs, Zenon DEF Op
<1>5. pos # 12 => (Op = "forced rollback" <=> pos = 9)
    BY <1>2, ScriptIs, Zenon DEF Op
<1>6. pos # 12 /\ pos # 8 /\ pos # 9 => pos \in {1, 2, 3, 4, 5, 6, 7, 10, 11}
    OBVIOUS
<1>7. Concurrent => pos = 8 /\ exit = "running"
    BY <1>3, <1>4, Zenon DEF Concurrent
<1>8. Rollback => pos = 9 /\ exit = "running"
    BY <1>3, <1>5, Zenon DEF Rollback
<1>9. Simple => pos \in {1, 2, 3, 4, 5, 6, 7, 10, 11} /\ exit = "running"
    <2>1. Simple => Running /\ Op # "atomic visibility" /\ Op # "forced rollback"
        BY DEF Simple
    <2> QED
        BY <1>3, <1>4, <1>5, <1>6, <2>1
<1> QED
    BY <1>3, <1>7, <1>8, <1>9

-----------------------------------------------------------------------------
(* Steps of one request at a time.                                         *)

\* The status and the answer are what the step must have.
Good ==
    /\ Code(Op) = Script[pos].code
    /\ IF Op \in {"create", "replace"}
       THEN Accepts(Op, Effect(Op).values, Effect(Op).status)
       ELSE Accepts(Op, Output(Op), dataset.status)

\* What each request does, and when it is good.
LEMMA Deleting ==
    ASSUME pos \in {1, 10}
    PROVE  Good /\ Effect(Op) = IF fault = "keep" THEN dataset ELSE Absent
<1>1. pos = 1 \/ pos = 10
    OBVIOUS
<1>2. Script[pos].op = "delete" /\ Script[pos].code = 204
    <2>1. /\ Script[1].op = "delete" /\ Script[1].code = 204
          /\ Script[10].op = "delete" /\ Script[10].code = 204
        BY ScriptIs, Zenon
    <2> QED
        BY <1>1, <2>1
<1>3. Op = "delete" /\ Script[pos].code = 204
    BY <1>2, Zenon DEF Op
<1>4. Effect("delete") = IF fault = "keep" THEN dataset ELSE Absent
    BY DEF Effect
<1>5. Code("delete") = 204 /\ \A output, status : Accepts("delete", output, status)
    BY DEF Code, Accepts
<1> QED
    BY <1>3, <1>4, <1>5 DEF Good

\* The creation needs the deletion before it, and stores the older body.
LEMMA Creating ==
    ASSUME pos = 2
    PROVE  (Good <=> dataset = Absent) /\ (Good => Effect(Op) = Older)
<1>1. Op = "create" /\ Script[pos].code = 201
    BY ScriptIs DEF Op
<1>2. dataset = Absent => Effect("create") = Older
    BY ReplacedIs DEF Effect, Older
<1>3. Code("create") = IF dataset = Absent THEN 201 ELSE 409
    BY DEF Code
<1>4. \A output, status : Accepts("create", output, status) <=> Len(output) = Cells
    BY DEF Accepts
<1>5. Len(Older.values) = Cells
    BY BodiesAre
<1> QED
    BY <1>1, <1>2, <1>3, <1>4, <1>5 DEF Good

\* Of the three reads, two can show a fault: a cut response, an ignored order.
LEMMA Reading ==
    ASSUME pos \in 3..5, dataset = Older
    PROVE  /\ Effect(Op) = dataset
           /\ Good <=> ~ (pos = 3 /\ fault = "truncate") /\ ~ (pos = 5 /\ fault = "order")
<1>1. /\ pos = 3 => Op = "dense" /\ Script[pos].code = 200
      /\ pos = 4 => Op = "sparse" /\ Script[pos].code = 200
      /\ pos = 5 => Op = "query" /\ Script[pos].code = 200
    <2>1. /\ Script[3].op = "dense" /\ Script[3].code = 200
          /\ Script[4].op = "sparse" /\ Script[4].code = 200
          /\ Script[5].op = "query" /\ Script[5].code = 200
        BY ScriptIs, Zenon
    <2> QED
        BY <2>1 DEF Op
<1>2. \A op \in {"dense", "sparse", "query"} : Effect(op) = dataset
    BY DEF Effect
<1>3. \A op \in {"dense", "sparse", "query"} : Code(op) = 200
    BY BodiesAre DEF Code
<1>4. pos = 3 \/ pos = 4 \/ pos = 5
    OBVIOUS
<1>5. /\ Accepts("dense", Output("dense"), dataset.status) <=> fault # "truncate"
      /\ Accepts("sparse", Output("sparse"), dataset.status)
      /\ Accepts("query", Output("query"), dataset.status) <=> fault # "order"
    BY DenseAccepted, SparseAccepted, QueryAccepted
<1> QED
    BY <1>1, <1>2, <1>3, <1>4, <1>5 DEF Good

\* The replacement passes and stores the newer body, merged or not.
LEMMA Replacing ==
    ASSUME pos = 6, dataset = Older
    PROVE  Good /\ Effect(Op) = Replaced(Newer)
<1>1. Op = "replace" /\ Script[pos].code = 200
    BY ScriptIs DEF Op
<1>2. Effect("replace") = Replaced(Newer)
    BY DEF Effect, Newer
<1>3. Code("replace") = 200
    BY BodiesAre DEF Code
<1>4. \A output, status : Accepts("replace", output, status) <=> Len(output) = Cells
    BY DEF Accepts
<1> QED
    BY <1>1, <1>2, <1>3, <1>4, ReplacedIs DEF Good

\* The status that was not sent again is looked at by the next step only.
LEMMA ReadingStatus ==
    ASSUME pos = 7, dataset # Absent
    PROVE  Effect(Op) = dataset /\ (Good <=> dataset.status = "none")
<1>1. Op = "status" /\ Script[pos].code = 200
    BY ScriptIs DEF Op
<1>2. Effect("status") = dataset /\ Code("status") = 200
    BY DEF Effect, Code
<1>3. \A output, status : Accepts("status", output, status) <=> status = "none"
    BY DEF Accepts
<1> QED
    BY <1>1, <1>2, <1>3 DEF Good

\* The last request looks whether the deletion deleted.
LEMMA ReadingGone ==
    ASSUME pos = 11
    PROVE  Effect(Op) = dataset /\ (Good <=> dataset = Absent)
<1>1. Op = "gone" /\ Script[pos].code = 404
    BY ScriptIs DEF Op
<1>2. Effect("gone") = dataset /\ Code("gone") = IF dataset = Absent THEN 404 ELSE 200
    BY DEF Effect, Code
<1>3. \A output, status : Accepts("gone", output, status)
    BY DEF Accepts
<1> QED
    BY <1>1, <1>2, <1>3 DEF Good

\* What a request shows and leaves behind.
LEMMA Requests ==
    ASSUME IInv, Simple
    PROVE  /\ fault = "none" => Good \/ Aborted
           /\ Good => /\ pos = 2 => Effect(Op) = Older
                      /\ pos = 1 /\ fault # "keep" => Effect(Op) = Absent
                      /\ pos \in 3..5 => Effect(Op) = Older
                      /\ pos = 6 /\ fault # "merge" => Effect(Op) = Newer
                      /\ pos = 6 /\ fault = "merge" =>
                            Effect(Op) # Absent /\ Effect(Op).status = "a"
                      /\ pos = 7 => Effect(Op) = Newer
                      /\ pos = 10 /\ fault = "keep" => Effect(Op) = dataset
                      /\ pos = 10 /\ fault # "keep" => Effect(Op) = Absent
                      /\ pos = 3 => fault # "truncate"
                      /\ pos = 5 => fault # "order"
                      /\ pos = 7 => fault # "merge"
                      /\ pos = 11 => dataset = Absent /\ Effect(Op) = Absent
<1>1. pos \in {1, 2, 3, 4, 5, 6, 7, 10, 11} /\ exit = "running"
    BY PlacesAre DEF IInv, ExitFits
<1>2. DataFits
    BY <1>1 DEF IInv
<1>3. CASE pos \in {1, 10}
    BY <1>3, Deleting
<1>4. CASE pos = 2
    BY <1>2, <1>4, Creating DEF DataFits
<1>5. CASE pos \in 3..5
    <2>1. dataset = Older
        BY <1>2, <1>5 DEF DataFits
    <2> QED
        BY <1>5, <2>1, Reading
<1>6. CASE pos = 6
    <2>1. dataset = Older
        BY <1>2, <1>6 DEF DataFits
    <2>2. dataset.status = "a"
        BY <2>1, BodiesAre
    <2>3. Good /\ Effect(Op) = Replaced(Newer)
        BY <1>6, <2>1, Replacing
    <2>4. Replaced(Newer) # Absent
        BY ReplacedIs, BodiesAre
    <2> QED
        BY <1>6, <2>2, <2>3, <2>4, ReplacedIs
<1>7. CASE pos = 7
    <2>1. /\ fault # "merge" => dataset = Newer /\ dataset.status = "none"
          /\ fault = "merge" => dataset # Absent /\ dataset.status = "a"
        BY <1>2, <1>7, BodiesAre DEF DataFits
    <2>2. dataset # Absent
        BY <2>1, BodiesAre
    <2>3. Effect(Op) = dataset /\ (Good <=> dataset.status = "none")
        BY <1>7, <2>2, ReadingStatus
    <2> QED
        BY <1>7, <2>1, <2>3
<1>8. CASE pos = 11
    BY <1>2, <1>8, ReadingGone DEF DataFits
<1> QED
    BY <1>1, <1>3, <1>4, <1>5, <1>6, <1>7, <1>8

-----------------------------------------------------------------------------
(* What most steps have in common.                                         *)

\* The bodies do not depend on the state.
LEMMA BodiesStay ==
    Older' = Older /\ Newer' = Newer /\ Abandoned' = Abandoned /\ Absent' = Absent
BY DEF Absent, Older, Newer, Abandoned, Body, Cells

\* A part of the invariant that a step does not touch holds after it.
LEMMA Untouched ==
    /\ Shown /\ UNCHANGED <<fault, pos>> => Shown'
    /\ ReaderFits /\ UNCHANGED <<fault, pos, call, reader, readErr, partial>> => ReaderFits'
    /\ FlightFits /\ UNCHANGED <<fault, pos, call, err, flight>> => FlightFits'
    /\ DataFits /\ UNCHANGED <<fault, dataset, pos, call, before, flight>> => DataFits'
    /\ ExitFits /\ UNCHANGED <<fault, pos, err, flight, exit, reason>> => ExitFits'
<1>1. Shown /\ UNCHANGED <<fault, pos>> => Shown'
    BY DEF Shown
<1>2. ReaderFits /\ UNCHANGED <<fault, pos, call, reader, readErr, partial>> => ReaderFits'
    BY DEF ReaderFits, Early
<1>3. FlightFits /\ UNCHANGED <<fault, pos, call, err, flight>> => FlightFits'
    BY DEF FlightFits, Early, Older, Abandoned, Body, Cells
<1>4. DataFits /\ UNCHANGED <<fault, dataset, pos, call, before, flight>> => DataFits'
    BY DEF DataFits, Aborted, Absent, Older, Newer, Abandoned, Body, Cells
<1>5. ExitFits /\ UNCHANGED <<fault, pos, err, flight, exit, reason>> => ExitFits'
    BY DEF ExitFits, Aborted
<1> QED
    BY <1>1, <1>2, <1>3, <1>4, <1>5

\* A step that ends the driver needs a cause, and nothing else.
LEMMA Failing ==
    ASSUME IInv, NEW why, Fail(why), UNCHANGED <<fault, flight, pos, call, err, readerVars>>,
           why = "answer" => fault # "none" \/ Aborted
    PROVE  IInv'
<1>1. Shown' /\ ReaderFits' /\ FlightFits'
    BY Untouched DEF IInv, readerVars
<1>2. ExitFits'
    BY DEF IInv, ExitFits, Fail, Aborted
<1> QED
    BY <1>1, <1>2 DEF IInv, Fail

\* The API's record of a streamed replacement, after a change.
LEMMA FlightIs ==
    ASSUME FlightFits, NEW value
    PROVE  /\ [flight EXCEPT !.work = value] =
                [content |-> flight.content, work |-> value, whole |-> flight.whole,
                 open |-> flight.open, saved |-> flight.saved]
           /\ [flight EXCEPT !.whole = value] =
                [content |-> flight.content, work |-> flight.work, whole |-> value,
                 open |-> flight.open, saved |-> flight.saved]
           /\ [flight EXCEPT !.open = value] =
                [content |-> flight.content, work |-> flight.work, whole |-> flight.whole,
                 open |-> value, saved |-> flight.saved]
           /\ [flight EXCEPT !.work = "torn", !.saved = value] =
                [content |-> flight.content, work |-> "torn", whole |-> flight.whole,
                 open |-> flight.open, saved |-> value]
<1>1. flight = [content |-> flight.content, work |-> flight.work, whole |-> flight.whole,
                open |-> flight.open, saved |-> flight.saved]
    BY DEF FlightFits
<1>2. [flight EXCEPT !.work = value] =
          [content |-> flight.content, work |-> value, whole |-> flight.whole,
           open |-> flight.open, saved |-> flight.saved]
    BY <1>1
<1>3. [flight EXCEPT !.whole = value] =
          [content |-> flight.content, work |-> flight.work, whole |-> value,
           open |-> flight.open, saved |-> flight.saved]
    BY <1>1
<1>4. [flight EXCEPT !.open = value] =
          [content |-> flight.content, work |-> flight.work, whole |-> flight.whole,
           open |-> value, saved |-> flight.saved]
    BY <1>1
<1>5. [flight EXCEPT !.work = "torn", !.saved = value] =
          [content |-> flight.content, work |-> "torn", whole |-> flight.whole,
           open |-> flight.open, saved |-> value]
    <2> DEFINE torn == [flight EXCEPT !.work = "torn", !.saved = value]
               names == {"content", "work", "whole", "open", "saved"}
               is == [content |-> flight.content, work |-> "torn", whole |-> flight.whole,
                      open |-> flight.open, saved |-> value]
    <2>1. DOMAIN flight = names
        BY <1>1
    <2>2. torn = [n \in names |-> IF n = "saved" THEN value
                                  ELSE IF n = "work" THEN "torn" ELSE flight[n]]
        BY <2>1, Zenon
    <2>3. torn = [n \in names |-> is[n]]
        BY <2>2
    <2> QED
        BY <2>3
<1> QED
    BY <1>2, <1>3, <1>4, <1>5

-----------------------------------------------------------------------------
(* The steps of the driver.                                                *)

\* A request that is answered: the answer is good, or something has a fault.
LEMMA DoStep == ASSUME IInv, Do PROVE IInv'
<1>1. Simple /\ dataset' = Effect(Op) /\ UNCHANGED <<fault, flight, stepVars, readerVars>>
    BY DEF Do
<1>2. pos \in {1, 2, 3, 4, 5, 6, 7, 10, 11} /\ exit = "running"
    BY <1>1, PlacesAre DEF IInv, ExitFits
<1>3. IF Good THEN Pass /\ UNCHANGED exitVars
              ELSE Fail("answer") /\ UNCHANGED <<pos, call>>
    BY DEF Do, Good
<1>4. CASE ~ Good
    <2>1. fault # "none" \/ Aborted
        BY <1>1, <1>4, Requests
    <2> QED
        BY <1>1, <1>3, <1>4, <2>1, Failing DEF stepVars
<1>5. CASE Good
    <2>1. pos' = pos + 1 /\ call' = "idle" /\ UNCHANGED <<exit, reason, fault, flight>>
          /\ UNCHANGED <<before, late, err, stop, reader, readErr, partial>>
        BY <1>1, <1>3, <1>5 DEF Pass, exitVars, stepVars, readerVars
    <2>2. /\ pos = 2 => dataset' = Older
          /\ pos = 1 /\ fault # "keep" => dataset' = Absent
          /\ pos \in 3..5 => dataset' = Older
          /\ pos = 6 /\ fault # "merge" => dataset' = Newer
          /\ pos = 6 /\ fault = "merge" => dataset' # Absent /\ dataset'.status = "a"
          /\ pos = 7 => dataset' = Newer
          /\ pos = 10 /\ fault = "keep" => dataset' = dataset
          /\ pos = 10 /\ fault # "keep" => dataset' = Absent
          /\ pos = 3 => fault # "truncate"
          /\ pos = 5 => fault # "order"
          /\ pos = 7 => fault # "merge"
          /\ pos = 11 => dataset = Absent /\ dataset' = Absent
        BY <1>1, <1>5, Requests
    <2>3. ExitFits'
        BY <1>2, <2>1 DEF IInv, ExitFits, Aborted
    <2>4. FlightFits'
        BY <1>2, <2>1 DEF IInv, FlightFits, Early, Older, Abandoned, Body, Cells
    <2>5. Shown'
        BY <1>2, <2>1, <2>2 DEF IInv, Shown, DataFits
    <2>6. ReaderFits'
        BY <1>2, <2>1 DEF IInv, ReaderFits, Early
    <2>7. DataFits'
        <3>1. Aborted' <=> Aborted
            BY <2>1 DEF Aborted
        <3>2. pos > 7 => fault # "merge"
            BY DEF IInv, Shown
        <3>3. DataFits
            BY <1>2 DEF IInv
        <3>4. /\ pos' = 2 /\ fault # "keep" => dataset' = Absent
              /\ pos' \in 3..6 => dataset' = Older
              /\ pos' = 7 /\ fault # "merge" => dataset' = Newer
              /\ pos' = 7 /\ fault = "merge" => dataset' # Absent /\ dataset'.status = "a"
            BY <1>2, <2>1, <2>2
        <3>5. pos' \in 8..9 => pos' = 8 /\ dataset' = Newer
            BY <1>2, <2>1, <2>2
        <3>6. fault # "tear" /\ pos' > 7 /\ dataset'.generation = "aborted" => Aborted
            BY <1>2, <2>1, <2>2, <3>3, BodiesAre DEF DataFits
        <3>7. fault # "tear" => /\ pos' # 10
                                /\ pos' = 11 /\ fault = "keep" => dataset' # Absent
                                /\ pos' = 11 /\ fault # "keep" => dataset' = Absent
            BY <1>2, <2>1, <2>2, <3>3 DEF DataFits
        <3> QED
            BY <2>1, BodiesStay, <3>1, <3>4, <3>5, <3>6, <3>7 DEF DataFits
    <2> QED
        BY <1>2, <1>5, <2>3, <2>4, <2>5, <2>6, <2>7, <2>1 DEF IInv
<1> QED
    BY <1>4, <1>5

\* A request that is not answered, and the end of the driver.
LEMMA EndSteps == ASSUME IInv, DoFails \/ WriteReport PROVE IInv'
<1>1. CASE DoFails
    BY <1>1, Failing DEF DoFails, stepVars
<1>2. CASE WriteReport
    <2>1. UNCHANGED <<fault, dataset, flight, pos, call, stepVars, readerVars>>
        BY <1>2 DEF WriteReport
    <2>2. exit = "running" /\ pos = 12
        <3>1. exit = "running" /\ pos > 11 /\ pos \in 1..12
            BY <1>2, ScriptIs, Zenon DEF WriteReport, IInv, ExitFits
        <3> QED
            BY <3>1
    <2>3. CASE Fail("report")
        BY <2>1, <2>3, Failing DEF stepVars
    <2>4. CASE exit' = "passed" /\ UNCHANGED reason
        <3>1. Shown' /\ ReaderFits' /\ FlightFits'
            BY <2>1, Untouched DEF IInv, readerVars, stepVars
        <3>2. ExitFits'
            BY <2>1, <2>2, <2>4 DEF IInv, ExitFits, stepVars
        <3> QED
            BY <2>1, <2>4, <3>1, <3>2 DEF IInv
    <2> QED
        BY <1>2, <2>3, <2>4 DEF WriteReport
<1> QED
    BY <1>1, <1>2

\* The replacement that is read meanwhile starts when no other is under way.
LEMMA StartStep == ASSUME IInv, Start PROVE IInv'
<1>1. pos = 8 /\ exit = "running" /\ call = "idle"
    BY PlacesAre DEF Start, IInv, ExitFits
<1>2. /\ reader' = "checking" /\ call' = "sent"
      /\ flight' = [content |-> Older, work |-> "reading", whole |-> FALSE, open |-> TRUE,
                    saved |-> Absent]
      /\ UNCHANGED <<fault, dataset, pos, before, late, err, stop, readErr, partial, exit, reason>>
    BY DEF Start, Launch, stepVars, exitVars, Older
<1>3. flight.work = "none" /\ reader = "none" /\ readErr = "none" /\ ~ partial
    BY <1>1 DEF IInv, FlightFits, ReaderFits, Early
<1>4. ExitFits'
    BY <1>1, <1>2 DEF IInv, ExitFits
<1>5. FlightFits'
    BY <1>1, <1>2, BodiesStay DEF FlightFits, Early
<1>6. Shown'
    BY <1>2, Untouched DEF IInv
<1>7. ReaderFits'
    BY <1>1, <1>2, <1>3 DEF ReaderFits, Early
<1>8. DataFits'
    <2>1. ~ Aborted
        BY <1>3 DEF Aborted
    <2> QED
        BY <1>1, <1>2, BodiesStay, <2>1 DEF DataFits, IInv
<1> QED
    BY <1>2, <1>4, <1>5, <1>6, <1>7, <1>8 DEF IInv

\* What do returns: without an error only when the replacement is committed.
LEMMA AnswerSteps == ASSUME IInv, Answered \/ Unanswered PROVE IInv'
<1>1. pos = 8 /\ exit = "running" /\ call = "sent" /\ flight.content = Older
    BY PlacesAre DEF Answered, Unanswered, IInv, ExitFits, FlightFits
<1>2. /\ call' = "returned" /\ err' \in {"none", "unavailable"}
      /\ UNCHANGED <<fault, dataset, pos, before, late, stop, reader, readErr, partial,
                     exit, reason>>
      /\ err' = "none" => flight.work = "committed"
      /\ \/ flight' = flight
         \/ flight' = [content |-> flight.content, work |-> flight.work, whole |-> flight.whole,
                       open |-> FALSE, saved |-> flight.saved]
    <2>1. CASE Answered
        BY <1>1, <2>1, BodiesAre DEF Answered, readerVars, exitVars
    <2>2. CASE Unanswered
        BY <2>2, FlightIs DEF Unanswered, readerVars, exitVars, IInv
    <2> QED
        BY <2>1, <2>2
<1>3. flight'.content = flight.content /\ flight'.work = flight.work
    BY <1>2
<1>4. ExitFits'
    BY <1>1, <1>2 DEF IInv, ExitFits
<1>5. FlightFits'
    <2>1. flight' = [content |-> flight'.content, work |-> flight'.work,
                     whole |-> flight'.whole, open |-> flight'.open, saved |-> flight'.saved]
        BY <1>2 DEF IInv, FlightFits
    <2>2. Older' = Older
        BY BodiesStay
    <2>3. flight.work = "torn" => fault = "tear"
        BY DEF IInv, FlightFits
    <2> QED
        BY <1>1, <1>2, <1>3, <2>1, <2>2, <2>3 DEF FlightFits, Early
<1>6. Shown'
    BY <1>2, Untouched DEF IInv
<1>7. ReaderFits'
    BY <1>1, <1>2 DEF IInv, ReaderFits, Early
<1>8. DataFits'
    <2>1. Aborted' <=> Aborted
        BY <1>3 DEF Aborted
    <2> QED
        BY <1>1, <1>2, BodiesStay, <2>1 DEF DataFits, IInv
<1> QED
    BY <1>2, <1>4, <1>5, <1>6, <1>7, <1>8 DEF IInv

\* The channel is closed, whether the replacement was answered or not.
LEMMA CloseStopStep == ASSUME IInv, CloseStop PROVE IInv'
<1>1. pos = 8 /\ exit = "running" /\ call = "returned" /\ call' = "waiting"
    BY PlacesAre DEF CloseStop, IInv, ExitFits
<1>2. UNCHANGED <<fault, dataset, flight, pos, before, late, err, reader, readErr, partial,
                  exit, reason>>
    BY DEF CloseStop, readerVars, exitVars
<1>3. ExitFits' /\ Shown'
    BY <1>2, Untouched DEF IInv
<1>4. FlightFits'
    BY <1>1, <1>2, BodiesStay DEF IInv, FlightFits, Early
<1>5. ReaderFits'
    BY <1>1, <1>2 DEF IInv, ReaderFits, Early
<1>6. DataFits'
    <2>1. Aborted' <=> Aborted
        BY <1>2 DEF Aborted
    <2> QED
        BY <1>1, <1>2, BodiesStay, <2>1 DEF DataFits, IInv
<1> QED
    BY <1>2, <1>3, <1>4, <1>5, <1>6 DEF IInv

\* The step ends with its reader: it passes when neither has an error.
LEMMA JoinStep == ASSUME IInv, Join PROVE IInv'
<1>1. pos = 8 /\ exit = "running" /\ call = "waiting" /\ reader = "done" /\ Finish
    BY PlacesAre DEF Join, IInv, ExitFits
<1>2. UNCHANGED <<fault, dataset, flight, before, late, err, stop, reader, readErr, partial>>
    BY <1>1 DEF Finish, stepVars, readerVars
<1>3. CASE err # "none"
    <2>1. Fail(err) /\ UNCHANGED <<pos, call>>
        BY <1>1, <1>3 DEF Finish
    <2>2. err # "answer"
        BY DEF IInv, ExitFits
    <2> QED
        BY <1>2, <2>1, <2>2, Failing DEF readerVars
<1>4. CASE err = "none" /\ readErr # "none"
    <2>1. Fail(readErr) /\ UNCHANGED <<pos, call>>
        BY <1>1, <1>4 DEF Finish
    <2>2. readErr = "answer" => fault = "tear"
        BY DEF IInv, ReaderFits
    <2> QED
        BY <1>2, <2>1, <2>2, Failing DEF readerVars
<1>5. CASE err = "none" /\ readErr = "none"
    <2>1. pos' = 9 /\ call' = "idle" /\ UNCHANGED <<exit, reason>>
        BY <1>1, <1>5 DEF Finish, Pass, exitVars
    <2>2. flight.work = "committed" /\ flight.content = Older
        BY <1>1, <1>5 DEF IInv, FlightFits
    <2>3. ExitFits'
        BY <1>1, <1>2, <2>1 DEF IInv, ExitFits
    <2>4. FlightFits'
        BY <1>1, <1>2, <2>1, <2>2, BodiesStay DEF IInv, FlightFits, Early
    <2>5. Shown'
        BY <1>1, <1>2, <2>1 DEF IInv, Shown
    <2>6. ReaderFits'
        BY <1>1, <1>2, <1>5, <2>1 DEF IInv, ReaderFits, Early
    <2>7. DataFits'
        <3>1. Aborted' <=> Aborted
            BY <1>2 DEF Aborted
        <3> QED
            BY <1>1, <1>2, <2>1, BodiesStay, <3>1 DEF DataFits, IInv
    <2> QED
        BY <1>2, <2>3, <2>4, <2>5, <2>6, <2>7 DEF IInv
<1> QED
    BY <1>3, <1>4, <1>5

\* The replacement that is to be aborted starts from a dataset that is there.
LEMMA BeforeStep == ASSUME IInv, Before PROVE IInv'
<1>1. pos = 9 /\ exit = "running" /\ call = "idle"
    BY PlacesAre DEF Before, IInv, ExitFits
<1>2. DataFits /\ flight.work = "committed" /\ flight.content = Older
    BY <1>1 DEF IInv, FlightFits
<1>3. ~ Aborted
    BY <1>2, BodiesAre DEF Aborted
<1>4. UNCHANGED <<fault, dataset, pos, late, err, stop, reader, readErr, partial>>
    BY DEF Before, readerVars
<1>5. fault # "tear" => dataset \in {Newer, Older}
    BY <1>1, <1>2, <1>3, BodiesAre DEF DataFits
<1>6. CASE dataset = Absent
    <2>1. Fail("answer") /\ UNCHANGED <<call, before, flight>>
        BY <1>6 DEF Before
    <2>2. fault # "none"
        BY <1>5, <1>6, BodiesAre
    <2> QED
        BY <1>4, <2>1, <2>2, Failing DEF readerVars
<1>7. CASE dataset # Absent
    <2>1. /\ before' = dataset /\ call' = "sending" /\ UNCHANGED <<exit, reason>>
          /\ flight' = [content |-> Abandoned, work |-> "reading", whole |-> FALSE,
                        open |-> TRUE, saved |-> Absent]
        BY <1>7 DEF Before, Launch, exitVars, Abandoned
    <2>2. ExitFits'
        BY <1>1, <1>4, <2>1 DEF IInv, ExitFits
    <2>3. FlightFits'
        BY <1>1, <1>4, <2>1, BodiesStay DEF FlightFits, Early
    <2>4. Shown'
        BY <1>4, Untouched DEF IInv
    <2>5. ReaderFits'
        BY <1>1, <1>4, <2>1 DEF IInv, ReaderFits, Early
    <2>6. DataFits'
        BY <1>1, <1>2, <1>3, <1>4, <1>5, <2>1, BodiesStay DEF DataFits
    <2> QED
        BY <1>4, <2>1, <2>2, <2>3, <2>4, <2>5, <2>6 DEF IInv
<1> QED
    BY <1>6, <1>7

\* The client leaves the replacement, whichever of its goroutines notices first.
LEMMA LeaveSteps == ASSUME IInv, Cancel \/ DoErrs PROVE IInv'
<1>1. pos = 9 /\ exit = "running" /\ call # "idle" /\ call' # "idle"
    BY PlacesAre DEF Cancel, DoErrs, IInv, ExitFits
<1>2. /\ UNCHANGED <<fault, dataset, pos, before, late, err, stop, reader, readErr, partial,
                     exit, reason>>
      /\ \/ flight' = flight
         \/ flight' = [content |-> flight.content, work |-> flight.work, whole |-> flight.whole,
                       open |-> FALSE, saved |-> flight.saved]
    BY FlightIs DEF Cancel, DoErrs, stepVars, readerVars, exitVars, IInv
<1>3. flight'.content = flight.content /\ flight'.work = flight.work
    BY <1>2
<1>4. Aborted' <=> Aborted
    BY <1>3 DEF Aborted
<1>5. ExitFits'
    BY <1>1, <1>2 DEF IInv, ExitFits
<1>6. FlightFits'
    <2>1. flight' = [content |-> flight'.content, work |-> flight'.work,
                     whole |-> flight'.whole, open |-> flight'.open, saved |-> flight'.saved]
        BY <1>2 DEF IInv, FlightFits
    <2>2. flight.work = "torn" => fault = "tear"
        BY DEF IInv, FlightFits
    <2>3. flight.content = Abandoned
        BY <1>1 DEF IInv, FlightFits
    <2> QED
        BY <1>1, <1>2, <1>3, <2>1, <2>2, <2>3, BodiesStay DEF FlightFits, Early
<1>7. Shown'
    BY <1>2, Untouched DEF IInv
<1>8. ReaderFits'
    BY <1>1, <1>2 DEF IInv, ReaderFits, Early
<1>9. DataFits'
    BY <1>1, <1>2, <1>4, BodiesStay DEF DataFits, IInv
<1> QED
    BY <1>2, <1>5, <1>6, <1>7, <1>8, <1>9 DEF IInv

\* The steps at which forcedRollback gives up: over an answer only when the
\* abandoned replacement was committed, or the API has a fault.
LEMMA GiveUpSteps == ASSUME IInv, DoReturns \/ PollChanged \/ PollFails PROVE IInv'
<1>1. pos = 9 /\ exit = "running" /\ DataFits
    BY PlacesAre DEF DoReturns, PollChanged, PollFails, IInv, ExitFits
<1>2. CASE DoReturns
    <2>1. flight.content = Abandoned /\ flight.work = "committed"
        BY <1>1, <1>2 DEF DoReturns, IInv, FlightFits
    <2>2. Aborted
        BY <2>1, BodiesAre DEF Aborted
    <2> QED
        BY <1>2, <2>2, Failing DEF DoReturns, stepVars
<1>3. CASE PollChanged
    <2>1. call = "polling" /\ \/ dataset = Absent \/ dataset.generation = "aborted"
                              \/ Len(dataset.values) # Len(before.values)
        BY <1>3 DEF PollChanged
    <2>2. ASSUME fault = "none" PROVE Aborted
        <3>1. /\ dataset \in {Newer, Older, Abandoned} /\ before \in {Newer, Older}
              /\ dataset.generation = "aborted" => Aborted
            BY <1>1, <2>1, <2>2 DEF DataFits
        <3>2. dataset # Absent /\ Len(dataset.values) = Len(before.values)
            BY <3>1, BodiesAre
        <3> QED
            BY <2>1, <3>1, <3>2
    <2> QED
        BY <1>3, <2>2, Failing DEF PollChanged, stepVars
<1>4. CASE PollFails
    BY <1>4, Failing DEF PollFails, stepVars
<1> QED
    BY <1>2, <1>3, <1>4

\* The step passes when the dataset is the one it found.
LEMMA PollIntactStep == ASSUME IInv, PollIntact PROVE IInv'
<1>1. pos = 9 /\ exit = "running" /\ call = "polling" /\ DataFits
    BY PlacesAre DEF PollIntact, IInv, ExitFits
<1>2. /\ pos' = 10 /\ call' = "idle" /\ dataset.generation = before.generation
      /\ UNCHANGED <<fault, dataset, flight, before, late, err, stop, reader, readErr, partial,
                     exit, reason>>
    BY <1>1 DEF PollIntact, Pass, stepVars, readerVars, exitVars
<1>3. Aborted' <=> Aborted
    BY <1>2 DEF Aborted
<1>4. ExitFits'
    BY <1>1, <1>2 DEF IInv, ExitFits
<1>5. FlightFits'
    BY <1>1, <1>2, BodiesStay DEF IInv, FlightFits, Early
<1>6. Shown'
    BY <1>1, <1>2 DEF IInv, Shown
<1>7. ReaderFits'
    BY <1>1, <1>2 DEF IInv, ReaderFits, Early
<1>8. DataFits'
    <2>1. fault # "tear" => dataset # Absent
        BY <1>1, <1>2, BodiesAre DEF DataFits
    <2> QED
        BY <1>1, <1>2, <1>3, <2>1, BodiesStay DEF DataFits
<1> QED
    BY <1>2, <1>4, <1>5, <1>6, <1>7, <1>8 DEF IInv

\* Thirty seconds are over.
LEMMA DeadlineStep == ASSUME IInv, Deadline PROVE IInv'
<1>1. UNCHANGED <<fault, dataset, flight, pos, call, before, err, reader, readErr, partial,
                  exit, reason>>
    BY DEF Deadline, readerVars, exitVars
<1> QED
    BY <1>1, Untouched DEF IInv

-----------------------------------------------------------------------------
(* The steps of the reading goroutine, of the writing one, and of the API. *)

\* What the reader reports: a partial dataset needs an API that shows one.
LEMMA ReaderStep == ASSUME IInv, Reader PROVE IInv'
<1>1. /\ Running /\ reader \in {"checking", "reading"} /\ reader' # "none"
      /\ UNCHANGED <<fault, dataset, flight, pos, call, before, late, err, stop, exit, reason>>
    BY DEF Reader, ReaderChecks, ReaderReads, stepVars, exitVars
<1>2. pos \in 1..12 /\ exit = "running"
    BY <1>1 DEF Running, IInv, ExitFits
<1>3. ~ Early /\ ~ (pos > 8)
    BY <1>1 DEF IInv, ReaderFits
<1>4. pos = 8
    BY <1>2, <1>3 DEF Early
<1>5. ExitFits' /\ FlightFits' /\ Shown' /\ DataFits'
    BY <1>1, <1>2, Untouched DEF IInv
<1>6. fault # "tear" => Complete(dataset)
    BY <1>2, <1>4, BodiesAre DEF IInv, DataFits
<1>7. \/ UNCHANGED <<readErr, partial>>
      \/ reader' = "done" /\ readErr' = "unavailable" /\ partial' = partial
      \/ reader' = "done" /\ readErr' = "answer" /\ partial' = TRUE /\ fault = "tear"
    BY <1>6 DEF Reader, ReaderChecks, ReaderReads
<1>8. readErr = "none" /\ ~ partial
    BY <1>1 DEF IInv, ReaderFits
<1>9. ReaderFits'
    BY <1>1, <1>3, <1>4, <1>7, <1>8 DEF IInv, ReaderFits, Early
<1> QED
    BY <1>1, <1>2, <1>5, <1>9 DEF IInv

\* The body ends: the API may now have all of it.
LEMMA StreamBodyStep == ASSUME IInv, StreamBody PROVE IInv'
<1>1. /\ flight.work = "reading"
      /\ flight' = [content |-> flight.content, work |-> "reading", whole |-> TRUE,
                    open |-> flight.open, saved |-> flight.saved]
      /\ UNCHANGED <<fault, dataset, pos, call, before, late, err, stop, reader, readErr, partial,
                     exit, reason>>
    BY FlightIs DEF StreamBody, stepVars, readerVars, exitVars, IInv
<1>2. Aborted' <=> Aborted
    BY <1>1 DEF Aborted
<1>3. ExitFits'
    BY <1>1, <1>2 DEF IInv, ExitFits
<1>4. FlightFits'
    BY <1>1, BodiesStay DEF IInv, FlightFits, Early
<1>5. Shown' /\ ReaderFits'
    BY <1>1, Untouched DEF IInv
<1>6. exit = "running" => DataFits'
    BY <1>1, <1>2, BodiesStay DEF IInv, DataFits
<1> QED
    BY <1>1, <1>3, <1>4, <1>5, <1>6 DEF IInv

\* While the API works on a replacement, one is under way and not committed.
LEMMA Working ==
    ASSUME IInv, flight.work \in {"reading", "storing", "torn"}
    PROVE  /\ pos \in 8..12 /\ ~ Early /\ ~ Aborted
           /\ ~ (pos = 9 /\ call = "idle")
           /\ ~ (pos = 8 /\ call \in {"returned", "waiting"} /\ err = "none")
           /\ pos = 8 => flight.content = Older
           /\ pos > 8 => flight.content = Abandoned
           /\ fault # "merge"
<1>1. flight.work # "none" /\ flight.work # "committed"
    OBVIOUS
<1>2. ~ Early /\ ~ Aborted /\ ~ (pos = 9 /\ call = "idle")
      /\ ~ (pos = 8 /\ call \in {"returned", "waiting"} /\ err = "none")
    BY <1>1 DEF IInv, FlightFits, Aborted
<1>3. pos \in 1..12
    BY DEF IInv, ExitFits
<1>4. pos \in 8..12 /\ ~ (pos = 8 /\ call = "idle")
    BY <1>2, <1>3 DEF Early
<1>5. pos = 8 => flight.content = Older
    BY <1>4 DEF IInv, FlightFits
<1>6. pos > 8 => flight.content = Abandoned
    BY <1>2, <1>4 DEF IInv, FlightFits
<1>7. fault # "merge"
    BY <1>4 DEF IInv, Shown
<1> QED
    BY <1>2, <1>4, <1>5, <1>6, <1>7

\* Steps of the API that do not change the dataset, unless it tears.
LEMMA WorkSteps == ASSUME IInv, Receive \/ Tear \/ RollBack PROVE IInv'
<1>1. flight.work \in {"reading", "storing", "torn"}
    BY DEF Receive, Tear, RollBack
<1>2. /\ fault # "tear" => dataset' = dataset
      /\ UNCHANGED <<fault, pos, call, before, late, err, stop, reader, readErr, partial,
                     exit, reason>>
    BY DEF Receive, Tear, RollBack, stepVars, readerVars, exitVars, IInv, FlightFits
<1>3. \E work \in {"storing", "torn", "undone"} : \E saved :
         /\ flight' = [content |-> flight.content, work |-> work, whole |-> flight.whole,
                       open |-> flight.open, saved |-> saved]
         /\ work = "torn" => fault = "tear"
    BY FlightIs DEF Receive, Tear, RollBack, IInv
<1>4. PICK work \in {"storing", "torn", "undone"} : \E saved :
         /\ flight' = [content |-> flight.content, work |-> work, whole |-> flight.whole,
                       open |-> flight.open, saved |-> saved]
         /\ work = "torn" => fault = "tear"
    BY <1>3
<1>5. ~ Aborted /\ ~ Aborted'
    BY <1>1, <1>4, Working DEF Aborted
<1>6. ExitFits'
    BY <1>2, <1>5 DEF IInv, ExitFits
<1>7. FlightFits'
    BY <1>1, <1>2, <1>4, Working, BodiesStay DEF FlightFits, Early
<1>8. Shown' /\ ReaderFits'
    BY <1>2, Untouched DEF IInv
<1>9. exit = "running" => DataFits'
    <2>1. pos \in 8..12
        BY <1>1, Working
    <2> QED
        BY <1>2, <1>5, <2>1, BodiesStay DEF IInv, DataFits
<1> QED
    BY <1>2, <1>6, <1>7, <1>8, <1>9 DEF IInv

\* The transaction commits: the driver's step asked for that, or it comes after
\* the driver gave the replacement up.
LEMMA CommitStep == ASSUME IInv, Commit PROVE IInv'
<1>1. /\ flight.work \in {"reading", "storing", "torn"}
      /\ flight' = [content |-> flight.content, work |-> "committed", whole |-> flight.whole,
                    open |-> flight.open, saved |-> flight.saved]
      /\ dataset' = Replaced(flight.content)
      /\ UNCHANGED <<fault, pos, call, before, late, err, stop, reader, readErr, partial,
                     exit, reason>>
    BY FlightIs DEF Commit, stepVars, readerVars, exitVars, IInv
<1>2. /\ pos \in 8..12 /\ ~ Early /\ ~ Aborted /\ ~ (pos = 9 /\ call = "idle")
      /\ pos = 8 => flight.content = Older
      /\ pos > 8 => flight.content = Abandoned
      /\ fault # "merge"
    BY <1>1, Working
<1>3. pos = 8 => dataset' = Older /\ ~ Aborted'
    BY <1>1, <1>2, ReplacedIs, BodiesAre DEF Aborted
<1>4. pos > 8 => dataset' = Abandoned /\ Aborted'
    BY <1>1, <1>2, ReplacedIs, BodiesAre DEF Aborted
<1>5. ExitFits'
    BY <1>1, <1>2 DEF IInv, ExitFits
<1>6. FlightFits'
    BY <1>1, <1>2, BodiesStay DEF FlightFits, Early
<1>7. Shown' /\ ReaderFits'
    BY <1>1, Untouched DEF IInv
<1>8. exit = "running" => DataFits'
    <2>1. dataset' \in {Newer, Older, Abandoned} /\ dataset' # Absent
          /\ (dataset'.generation = "aborted" => Aborted')
        BY <1>2, <1>3, <1>4, BodiesAre
    <2>2. pos = 11 => Aborted'
        BY <1>4
    <2> QED
        BY <1>1, <1>2, <2>1, <2>2, BodiesStay DEF IInv, DataFits
<1> QED
    BY <1>1, <1>5, <1>6, <1>7, <1>8 DEF IInv

-----------------------------------------------------------------------------
(* The theorems.                                                           *)

\* The invariant holds at first: nothing is under way, nothing has been shown.
LEMMA InitFits == Init => IInv
<1> SUFFICES ASSUME Init PROVE IInv
    OBVIOUS
<1>1. ExitFits
    BY DEF Init, ExitFits
<1>2. FlightFits
    BY DEF Init, FlightFits, Early
<1>3. Shown
    BY DEF Init, Shown
<1>4. ReaderFits
    BY DEF Init, ReaderFits
<1>5. DataFits
    BY DEF Init, DataFits
<1> QED
    BY <1>1, <1>2, <1>3, <1>4, <1>5 DEF Init, IInv

\* Every step keeps it.
LEMMA NextFits == IInv /\ [Next]_vars => IInv'
<1> SUFFICES ASSUME IInv, [Next]_vars PROVE IInv'
    OBVIOUS
<1>1. CASE UNCHANGED vars
    BY <1>1, Untouched DEF vars, IInv
<1>2. CASE Exited
    BY <1>1, <1>2 DEF Exited
<1>3. CASE Driver
    <2>1. CASE Do \/ DoFails \/ WriteReport
        BY <2>1, DoStep, EndSteps
    <2>2. CASE Start \/ Answered \/ Unanswered \/ CloseStop \/ Join
        BY <2>2, StartStep, AnswerSteps, CloseStopStep, JoinStep
    <2>3. CASE Before \/ Cancel \/ DoErrs
        BY <2>3, BeforeStep, LeaveSteps
    <2>4. CASE DoReturns \/ PollIntact \/ PollChanged \/ PollFails \/ Deadline
        BY <2>4, GiveUpSteps, PollIntactStep, DeadlineStep
    <2> QED
        BY <1>3, <2>1, <2>2, <2>3, <2>4 DEF Driver
<1>4. CASE Reader
    BY <1>4, ReaderStep
<1>5. CASE StreamBody
    BY <1>5, StreamBodyStep
<1>6. CASE Api
    BY <1>6, WorkSteps, CommitStep DEF Api
<1> QED
    BY <1>1, <1>2, <1>3, <1>4, <1>5, <1>6 DEF Next

\* The invariant holds in every state of the gate.
THEOREM AlwaysFits == Spec => []IInv
<1>1. Init => IInv
    BY InitFits
<1>2. IInv /\ [Next]_vars => IInv'
    BY NextFits
<1> QED
    BY <1>1, <1>2, PTL DEF Spec

\* A gate that passes has seen no partial dataset, and its API has none of the
\* four faults that one answer shows: whatever the side, and however the reader,
\* the writer and the API interleave.
THEOREM PassesForCause == Spec => []TrustedReport
<1>1. IInv => TrustedReport
    <2> SUFFICES ASSUME IInv, exit = "passed" PROVE ~ partial /\ fault \in {"none", "tear"}
        BY DEF TrustedReport
    <2>1. pos = 12
        BY DEF IInv, ExitFits
    <2>2. ~ partial
        BY <2>1 DEF IInv, ReaderFits
    <2>3. fault \notin {"truncate", "order", "merge", "keep"}
        BY <2>1 DEF IInv, Shown
    <2>4. fault \in {"none", "keep", "merge", "truncate", "order", "tear"}
        BY AcceptanceAssumption DEF IInv
    <2> QED
        BY <2>2, <2>3, <2>4
<1> QED
    BY <1>1, AlwaysFits, PTL

\* A gate that fails over an answer has found a fault, or its aborted replacement
\* was committed: no interleaving makes it refuse an API that keeps its promises.
THEOREM RefusesForCause == Spec => []FailsForCause
<1>1. IInv => FailsForCause
    BY DEF IInv, ExitFits, FailsForCause, Aborted
<1> QED
    BY <1>1, AlwaysFits, PTL
=============================================================================
