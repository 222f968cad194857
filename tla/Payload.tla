-------------------------------- MODULE Payload --------------------------------
(***************************************************************************)
(* ParseReplacement and ParseSelection of internal/domain/payload.go, on   *)
(* decoded JSON.                                                           *)
(*                                                                         *)
(* A submission has an id sequence of spellings, a dimension object        *)
(* (spelling -> (category spelling -> position)) and three channels.  A    *)
(* channel has a form and its entries: an array is a sequence, an object a *)
(* function from index keys.  An index key is the number it spells and     *)
(* whether it spells it canonically.  An entry is "null", "bad" (of the    *)
(* wrong JSON type, or not finite) or a value.                             *)
(***************************************************************************)
EXTENDS Cube, FiniteSets

CONSTANTS KeyOf,         \* NormalizeCode: spelling -> key
          MaxDimensions, \* MaxDimensions of model.go
          MaxCells       \* MAX_CELLS, the configured limit

\* Keys are numbers in the order in which the code compares them as strings.
ASSUME CodeAssumption ==
    MaxDimensions \in Nat /\ \A s \in DOMAIN KeyOf : KeyOf[s] \in Int

Code(s) == [spelling |-> s, key |-> KeyOf[s]]
Absent == [form |-> "absent", entries |-> <<>>]
Empty == [numeric |-> "none", text |-> "none", status |-> "none"]

\* The dimensions of a body as dimensionPayload and its owners type them: id
\* is an array of names, a dimension an object of integers.
DecodedDimensions(p) ==
    /\ p.id \in Seq(DOMAIN KeyOf)
    /\ IsFiniteSet(DOMAIN p.dimension) /\ DOMAIN p.dimension \subseteq DOMAIN KeyOf
    /\ \A s \in DOMAIN p.dimension :
          /\ IsFiniteSet(DOMAIN p.dimension[s])
          /\ DOMAIN p.dimension[s] \subseteq DOMAIN KeyOf
          /\ \A c \in DOMAIN p.dimension[s] : p.dimension[s][c] \in Int

\* A status for all cells is what a JSON string decodes to (parseStatusChannel).
DecodedStatus(p) ==
    p.status.form = "scalar" => p.status.entries[1] \notin {"null", "bad"}

-----------------------------------------------------------------------------
\* No two spellings of a set are the same code.
Distinct(spellings) ==
    \A s, t \in spellings : KeyOf[s] = KeyOf[t] => s = t

\* parseCategories: positions are unique, zero-based and contiguous.
ValidCategories(index) ==
    /\ DOMAIN index # {}
    /\ Distinct(DOMAIN index)
    /\ \A s, t \in DOMAIN index : index[s] = index[t] => s = t
    /\ \A s \in DOMAIN index : index[s] \in 0..(Cardinality(DOMAIN index) - 1)

ValidDimensions(p) ==
    /\ Len(p.id) \in 1..MaxDimensions
    /\ Distinct(DOMAIN p.dimension)
    /\ Cardinality(DOMAIN p.dimension) = Len(p.id)
    /\ \A i, j \in DOMAIN p.id : KeyOf[p.id[i]] = KeyOf[p.id[j]] => i = j
    /\ \A i \in DOMAIN p.id :
          \E s \in DOMAIN p.dimension :
              KeyOf[s] = KeyOf[p.id[i]] /\ ValidCategories(p.dimension[s])

\* The spelling of the dimension object is the one that is kept.
RequestDimensions(p) ==
    [i \in DOMAIN p.id |->
        LET s == CHOOSE t \in DOMAIN p.dimension : KeyOf[t] = KeyOf[p.id[i]]
            index == p.dimension[s]
        IN  [code |-> Code(s),
             categories |-> [j \in 1..Cardinality(DOMAIN index) |->
                Code(CHOOSE c \in DOMAIN index : index[c] = j - 1)]]]

-----------------------------------------------------------------------------
\* parseSparseIndex
ValidIndex(k, count) == k.canonical /\ k.n \in 0..(count - 1)

ValidDense(ch, count) ==
    ch.form = "dense" /\ Len(ch.entries) = count /\ "bad" \notin ToSet(ch.entries)
ValidSparse(ch, count) ==
    /\ ch.form = "sparse"
    /\ \A k \in DOMAIN ch.entries :
          ValidIndex(k, count) /\ ch.entries[k] \notin {"null", "bad"}

\* The cells a channel gives a value, by request index.
Given(ch) ==
    CASE ch.form = "dense" ->
            {<<i - 1, ch.entries[i]>> :
                i \in {j \in DOMAIN ch.entries : ch.entries[j] # "null"}}
      [] ch.form = "sparse" ->
            {<<k.n, ch.entries[k]>> : k \in DOMAIN ch.entries}
      [] OTHER -> {}

\* parseStringChannel for text: the form is the one of value.  A JSON null
\* decodes into an empty object, but into an array of the wrong length.
ValidText(p, count) ==
    \/ p.text.form = "absent"
    \/ p.text.form = "null" /\ p.value.form = "sparse"
    \/ p.text.form = p.value.form
         /\ (ValidDense(p.text, count) \/ ValidSparse(p.text, count))

ValidStatus(ch, count) ==
    \/ ch.form \in {"absent", "scalar"}
    \/ ValidDense(ch, count) \/ ValidSparse(ch, count)

\* Mutant of ValidChannels: a numeric and a text value may share a cell.
CollidingChannels(p, count) ==
    /\ ValidDense(p.value, count) \/ ValidSparse(p.value, count)
    /\ ValidText(p, count)
    /\ ValidStatus(p.status, count)

ValidChannels(p, count) ==
    /\ ValidDense(p.value, count) \/ ValidSparse(p.value, count)
    /\ ValidText(p, count)
    /\ \A v \in Given(p.value), t \in Given(p.text) : v[1] # t[1]
    /\ ValidStatus(p.status, count)

\* The cells of the request that have any content.
RequestCells(p, count) ==
    LET at(ch, i) == {g[2] : g \in {h \in Given(ch) : h[1] = i}}
        only(S) == IF S = {} THEN "none" ELSE CHOOSE v \in S : TRUE
        status(i) == IF p.status.form = "scalar" THEN p.status.entries[1]
                     ELSE only(at(p.status, i))
        cell(i) == [numeric |-> only(at(p.value, i)), text |-> only(at(p.text, i)),
                    status |-> status(i)]
    IN  [i \in {j \in 0..(count - 1) : cell(j) # Empty} |-> cell(i)]

\* sort.Slice by key, of keys that differ: the k-th has k - 1 smaller ones.
KeyOrder(keys) ==
    [k \in DOMAIN keys |->
        CHOOSE i \in DOMAIN keys :
            Cardinality({j \in DOMAIN keys : keys[j] < keys[i]}) = k - 1]
SortByKey(s, keys) == [k \in DOMAIN s |-> s[KeyOrder(keys)[k]]]

\* remapReplacement: dimensions and categories in the order of their keys,
\* every cell at the index its names have there.
StoredDimensions(requested) ==
    LET sorted(d) == [d EXCEPT !.categories = SortByKey(@, [j \in DOMAIN @ |-> @[j].key])]
    IN  SortByKey([i \in DOMAIN requested |-> sorted(requested[i])],
                  [i \in DOMAIN requested |-> requested[i].code.key])

Remap(requested, cells) ==
    LET stored == StoredDimensions(requested)
        new == [i \in DOMAIN cells |-> RemapCellIndex(i, requested, stored)]
    IN  [dimensions |-> stored,
         cells |-> [n \in {new[i] : i \in DOMAIN cells} |->
                       cells[CHOOSE i \in DOMAIN cells : new[i] = n]]]

NoDataset == [dimensions |-> <<>>, cells |-> <<>>, cellCount |-> 0, valuedCount |-> 0]

\* The replacement a submission stands for, or the error it is refused with.
ParseReplacement(p) ==
    LET requested == RequestDimensions(p)
        product == CheckedProduct(Sizes(requested), MaxCells)
        cells == RequestCells(p, product.count)
        stored == Remap(requested, cells)
        refuse(e) == [error |-> e, dataset |-> NoDataset]
    IN  CASE ~ValidDimensions(p) -> refuse("validation_failed")
          [] ValidDimensions(p) /\ product.error = "limit" ->
                refuse("cell_limit_exceeded")
          [] ValidDimensions(p) /\ product.error = "none"
               /\ ValidChannels(p, product.count) ->
                [error |-> "none",
                 dataset |-> [dimensions |-> stored.dimensions, cells |-> stored.cells,
                              cellCount |-> product.count,
                              valuedCount |-> Cardinality({i \in DOMAIN cells :
                                 cells[i].numeric # "none" \/ cells[i].text # "none"})]]
          [] OTHER -> refuse("validation_failed")

\* A selection is the dimensions of a body with no channels and no limit.
ParseSelection(p) ==
    IF ValidDimensions(p)
         /\ CheckedProduct(Sizes(RequestDimensions(p)), MaxInt).error = "none"
    THEN [error |-> "none", selection |-> RequestDimensions(p)]
    ELSE [error |-> "validation_failed", selection |-> <<>>]
=============================================================================
