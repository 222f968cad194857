-------------------------- MODULE MCDatasetPipeline --------------------------
(***************************************************************************)
(* Small submissions and queries for DatasetPipeline: one to three         *)
(* dimensions of up to three categories, listed in every order, with       *)
(* content that tells every cell from every other.                         *)
(***************************************************************************)
EXTENDS DatasetPipeline

\* Dimensions x < y < z and categories a < b < c; "A" and "X" are other
\* spellings of a and x.
Keyed == [s \in {"a", "A", "b", "c", "x", "X", "y", "z"} |->
             CASE s \in {"a", "A", "x", "X"} -> 1
               [] s \in {"b", "y"} -> 2
               [] s \in {"c", "z"} -> 3]

Permuted(S) == {f \in [S -> 0..(Cardinality(S) - 1)] :
                   \A s, t \in S : f[s] = f[t] => s = t}
One(s, f) == [t \in {s} |-> f]
Two(s, f, t, g) == [u \in {s, t} |-> IF u = s THEN f ELSE g]
Shape(id, dimension) == [id |-> id, dimension |-> dimension]

\* Three dimensions of 2, 1 and 3 categories: their orders are not all
\* their own inverses.
Three == [d \in {"x", "y", "z"} |->
             CASE d = "x" -> [s \in {"a", "b"} |-> IF s = "a" THEN 0 ELSE 1]
               [] d = "y" -> [s \in {"c"} |-> 0]
               [] d = "z" -> [s \in {"a", "b", "c"} |-> 3 - Keyed[s]]]
Orders3 == {o \in [1..3 -> {"x", "y", "z"}] : \A i, j \in 1..3 : o[i] = o[j] => i = j}

Shapes ==
    {Shape(<<"x">>, One("x", f)) : f \in Permuted({"a", "b", "c"})}
    \cup {Shape(id, Two("x", f, "y", g)) : id \in {<<"x", "y">>, <<"y", "x">>},
             f \in Permuted({"A", "b"}), g \in Permuted({"a", "b", "c"})}
    \cup {Shape(id, Three) : id \in Orders3}
BadShapes ==
    {Shape(<<"x">>, Two("x", One("a", 0), "y", One("a", 0))),  \* y is not listed
     Shape(<<"x", "X">>, Two("x", One("a", 0), "y", One("a", 0))),
     Shape(<<"x", "y">>, Two("x", One("a", 0), "X", One("a", 0))),
     Shape(<<"x">>, One("x", [s \in {"a", "A"} |-> IF s = "a" THEN 0 ELSE 1])),
     Shape(<<"x">>, One("x", [s \in {"a", "b"} |-> 2])),
     Shape(<<"x">>, One("x", [s \in {"a", "b"} |-> IF s = "a" THEN 0 ELSE 2])),
     Shape(<<"x">>, One("x", <<>>)), Shape(<<>>, <<>>),
     Shape(<<"X">>, One("x", [s \in {"a", "b"} |-> IF s = "a" THEN 0 ELSE 1]))}

Token == <<"p", "q", "r", "s", "t", "u", "v">>
Key(n) == [n |-> n, canonical |-> TRUE]
Dense(n, S) == [form |-> "dense",
                entries |-> [i \in 1..n |-> IF i - 1 \in S THEN Token[i] ELSE "null"]]
Sparse(n, S) == [form |-> "sparse",
                 entries |-> [k \in {Key(i) : i \in S} |-> Token[k.n + 1]]]
Scalar == [form |-> "scalar", entries |-> <<"e">>]
Null == [form |-> "null", entries |-> <<>>]
Same(n, S) == [form |-> "sparse", entries |-> [k \in {Key(i) : i \in S} |-> "e"]]

Cells(shape) == IF Len(shape.id) = 1 THEN 3 ELSE 6
With(shape, value, text, status) ==
    [id |-> shape.id, dimension |-> shape.dimension,
     value |-> value, text |-> text, status |-> status]

Good(shape) ==
    LET n == Cells(shape)
        all == 0..(n - 1)
        odd == {i \in all : i % 2 = 1}
    IN  {With(shape, Dense(n, all), Absent, Absent),
         With(shape, Dense(n, all \ {0}), Dense(n, {0}), Scalar),
         With(shape, Sparse(n, odd), Sparse(n, all \ odd), Dense(n, odd)),
         With(shape, Sparse(n, {1}), Null, Sparse(n, {0, 2})),
         With(shape, Sparse(n, {}), Sparse(n, {2}), Same(n, {0, 1})),
         With(shape, Dense(n, {}), Absent, Same(n, all)),
         With(shape, Dense(n, odd), Absent, Dense(n, all))}
Bad(shape) ==
    LET n == Cells(shape) IN
    {With(shape, Dense(n, {0}), Dense(n, {0}), Absent),
     With(shape, Dense(n + 1, {0}), Absent, Absent),
     With(shape, Dense(n, {0}), Sparse(n, {1}), Absent),
     With(shape, Dense(n, {0}), Null, Absent),
     With(shape, Sparse(n, {0, n}), Absent, Absent),
     With(shape, Absent, Absent, Absent),
     With(shape, Sparse(n, {0}), Absent, Null),
     With(shape, [form |-> "sparse", entries |-> [k \in {[Key(1) EXCEPT !.canonical = FALSE], Key(1)} |-> "p"]],
          Absent, Absent),
     With(shape, [form |-> "sparse", entries |-> [k \in {Key(0)} |-> "null"]], Absent, Absent),
     With(shape, [form |-> "dense", entries |-> [i \in 1..n |-> "bad"]], Absent, Absent)}

Bodies ==
    UNION {Good(s) \cup Bad(s) : s \in Shapes}
    \cup {With(s, Dense(1, {}), Absent, Absent) : s \in BadShapes}
    \cup {With(Shape(<<"x", "y">>, Two("x", f, "y", f)), Dense(9, {}), Absent, Absent) :
             f \in Permuted({"a", "b", "c"})}

\* Queries: subsets and other orders, other spellings, and mistakes.
Selections ==
    {Shape(<<"X">>, One("X", f)) :
        f \in UNION {Permuted(S) : S \in {{"a"}, {"c", "a"}, {"b", "c", "A"}}}}
    \cup {Shape(id, Two("x", f, "y", g)) : id \in {<<"x", "y">>, <<"y", "x">>},
             f \in UNION {Permuted(S) : S \in {{"a"}, {"a", "b"}}},
             g \in UNION {Permuted(S) : S \in {{"b"}, {"c", "A"}}}}
    \cup {Shape(id, Three) : id \in Orders3}
    \cup {Shape(<<"y">>, One("y", One("a", 0))),
          Shape(<<"x">>, One("x", [s \in {"a", "b"} |-> 1]))}

Formats == {"dense", "sparse"}
=============================================================================
