---------------------------- MODULE MCDatasetStore ----------------------------
(***************************************************************************)
(* Small instances of DatasetStore for TLC.                                *)
(***************************************************************************)
EXTENDS DatasetStoreRefinement, TLC

CONSTANTS r1, r2, r3, p1, p2, d1, d2, d3, s1, s2, c1, c2, c3

Ask(kind, p, d, over, s, cs) ==
    [kind |-> kind, provider |-> p, dataset |-> d, overwrite |-> over,
     structure |-> s, cells |-> cs]

Create(p, d, s, cs) == Ask("replace", p, d, FALSE, s, cs)
Replace(p, d, s, cs) == Ask("replace", p, d, TRUE, s, cs)
Read(kind, p, d) == Ask(kind, p, d, FALSE, s1, {})
Query(p, d, s, cs) == Ask("query", p, d, FALSE, s, cs)

\* One identity: writers with different structures and cells.
WriterCalls ==
    {Create(p1, d1, s1, {c1, c2}), Replace(p1, d1, s1, {c1}),
     Replace(p1, d1, s2, {c2}), Read("delete", p1, d1)}

\* One identity: two writers against every transactional read.
ReaderCalls ==
    {Replace(p1, d1, s1, {c1, c2, c3}), Replace(p1, d1, s2, {c2}),
     Read("delete", p1, d1), Read("structure", p1, d1), Read("data", p1, d1),
     Query(p1, d1, s1, {c1, c2, c3})}

\* Two datasets of one provider, and one of another.
NeighbourCalls ==
    {Create(p1, d1, s1, {c1}), Replace(p1, d2, s1, {c2}),
     Create(p2, d1, s1, {}), Read("delete", p1, d1),
     Read("summary", p1, d1), Read("datasets", p1, d1),
     Read("providers", p1, d1)}

\* Three datasets of one provider, which all wait for its first insert.
WaitingCalls ==
    {Replace(p1, d1, s1, {c1}), Create(p1, d2, s1, {c2}), Create(p1, d3, s1, {})}

\* Lock keys: distinct ones, and (d1 and d2 of p1) a collision.
OneDataset == [i \in {p1} \X {d1} |-> 0]
NoCollision ==
    [i \in {p1, p2} \X {d1, d2} |->
        (IF i[1] = p1 THEN 0 ELSE 2) + (IF i[2] = d1 THEN 0 ELSE 1)]
Collision == [i \in {p1} \X {d1, d2, d3} |-> IF i[2] = d3 THEN 1 ELSE 0]

Symmetry == Permutations({r1, r2, r3})
=============================================================================
