---------------------------- MODULE PipelineProofs ----------------------------
(***************************************************************************)
(* Proofs about what a dataset's data means, from its submission to the    *)
(* answer of a query, for any submissions, queries, codes and limits.      *)
(*                                                                         *)
(* The properties number the cells of a cube by counting those that come   *)
(* first; the code multiplies by strides.  RankIs says that the two agree. *)
(* A cell is then told by its point, the coordinates at its index, and the *)
(* fused loop of remapCellIndex finds the point of the same name in other  *)
(* dimensions (RemapIs), so that cells keep their meaning when they are    *)
(* stored (MovedMeans), selected (SelectedMeans) and presented             *)
(* (ViewPresented).                                                        *)
(*                                                                         *)
(* CubeProofs is extended for its lemmas on Cube; nothing here is about    *)
(* the constants and variables of MCCube.                                  *)
(***************************************************************************)
EXTENDS DatasetPipeline, CubeProofs, FiniteSetTheorems

-----------------------------------------------------------------------------
(* The lexicographic order of coordinates is the order of indexes.         *)

\* f pairs each of S with one of T.
OneToOne(f, S, T) ==
    /\ f \in [S -> T]
    /\ \A a, b \in S : f[a] = f[b] => a = b
    /\ \A t \in T : \E a \in S : f[a] = t

\* Finite sets that correspond are equally large.
LEMMA Counting ==
    ASSUME NEW S, NEW T, NEW f, OneToOne(f, S, T), IsFiniteSet(S)
    PROVE  IsFiniteSet(T) /\ Cardinality(T) = Cardinality(S)
<1>1. f \in Bijection(S, T)
    BY DEF OneToOne, Bijection, Injection, Surjection, IsInjective
<1> QED
    BY <1>1, FS_Bijection DEF ExistsBijection

\* A sequence of numbers has a largest one.
LEMMA LargestOf ==
    ASSUME NEW n \in Nat \ {0}, NEW f \in [1..n -> Nat]
    PROVE  \E m \in 1..n : \A i \in 1..n : f[i] <= f[m]
<1> DEFINE T == {k \in 0..n : k = 0 \/ \E m \in 1..k : \A i \in 1..k : f[i] <= f[m]}
<1>1. 0 \in T
    OBVIOUS
<1>2. ASSUME NEW k \in 1..n, k - 1 \in T PROVE k \in T
    <2>1. f[k] \in Nat /\ k \in 1..k /\ k \in 0..n
        OBVIOUS
    <2>2. \A i \in 1..k : (i \in 1..(k - 1) \/ i = k) /\ f[i] \in Nat
        OBVIOUS
    <2>3. CASE k = 1
        BY <2>1, <2>2, <2>3
    <2>4. CASE k # 1
        <3>1. PICK m \in 1..(k - 1) : \A i \in 1..(k - 1) : f[i] <= f[m]
            BY <1>2, <2>4
        <3>2. m \in 1..k /\ f[m] \in Nat
            BY <2>2, <3>1
        <3>3. CASE f[m] <= f[k]
            <4>1. \A i \in 1..k : f[i] <= f[k]
                BY <2>1, <2>2, <3>1, <3>2, <3>3
            <4> QED
                BY <2>1, <4>1
        <3>4. CASE ~(f[m] <= f[k])
            <4>1. \A i \in 1..k : f[i] <= f[m]
                BY <2>1, <2>2, <3>1, <3>2, <3>4
            <4> QED
                BY <2>1, <3>2, <4>1
        <3> QED
            BY <3>3, <3>4
    <2> QED
        BY <2>3, <2>4
<1>3. n \in T
    <2> HIDE DEF T
    <2>1. 0..n \subseteq T
        BY <1>1, <1>2, Reaches
    <2> QED
        BY <2>1
<1> QED
    BY <1>3

\* The vectors of the properties are the coordinates of a cube.
LEMMA VectorsAre == ASSUME NEW s \in Shapes PROVE Vectors(s) = Coords(s)
<1> DEFINE n == Len(s)
           S == {s[i] : i \in 1..n}
           top == CHOOSE m \in S : \A i \in 1..n : s[i] <= m
<1>1. n \in Nat \ {0} /\ DOMAIN s = 1..n /\ \A i \in 1..n : s[i] \in Nat \ {0}
    BY ShapeType
<1>2. s \in [1..n -> Nat]
    BY ShapeType, LenProperties
<1>3. top \in S /\ \A i \in 1..n : s[i] <= top
    <2>1. \E m \in S : \A i \in 1..n : s[i] <= m
        <3> HIDE DEF n
        <3> QED
            BY <1>1, <1>2, LargestOf
    <2> HIDE DEF S
    <2> QED
        BY <2>1, Zenon
<1>4. Vectors(s) = {c \in [1..n -> 0..(top - 1)] : \A i \in 1..n : c[i] < s[i]}
    BY <1>1, Zenon DEF Vectors
<1>5. top \in Nat
    BY <1>1, <1>3
<1> HIDE DEF top, S, n
<1>6. ASSUME NEW c \in [1..n -> 0..(top - 1)] PROVE c \in [1..n -> Nat]
    BY <1>5
<1>7. ASSUME NEW c \in [1..n -> Nat], \A i \in 1..n : c[i] < s[i]
      PROVE  c \in [1..n -> 0..(top - 1)]
    <2>1. \A i \in 1..n : c[i] \in 0..(top - 1)
        BY <1>1, <1>3, <1>5, <1>7
    <2> QED
        BY <2>1
<1>8. Coords(s) = {c \in [1..n -> Nat] : \A i \in 1..n : c[i] < s[i]}
    BY DEF Coords, n
<1> QED
    BY <1>4, <1>6, <1>7, <1>8

\* Coordinates that come first have the smaller index.
LEMMA BeforeIsLess ==
    ASSUME NEW s \in Shapes, NEW b \in Coords(s), NEW c \in Coords(s), Before(b, c)
    PROVE  CellIndex(b, Strides(s)) < CellIndex(c, Strides(s))
<1> DEFINE n == Len(s)
           st == Strides(s)
<1>1. n \in Nat \ {0}
    BY ShapeType
<1>2. st \in [1..n -> Nat \ {0}]
    BY StridesOf
<1>3. b \in [1..n -> Nat] /\ c \in [1..n -> Nat]
    BY DEF Coords
<1>4. PICK sb : Sums(s, b, sb)
    BY <1>3, SumsExist
<1>5. PICK sc : Sums(s, c, sc)
    BY <1>3, SumsExist
<1>6. PICK i \in 1..n : b[i] < c[i] /\ \A j \in 1..(i - 1) : b[j] = c[j]
    BY <1>3 DEF Before
<1>7. sb[n] < sb[i] + st[i] /\ sc[i] <= sc[n]
    BY <1>4, <1>5, TailOf
<1>8. /\ \A k \in 0..n : sb[k] \in Nat /\ sc[k] \in Nat
      /\ \A k \in 1..n : sb[k] = sb[k - 1] + b[k] * st[k] /\ sc[k] = sc[k - 1] + c[k] * st[k]
      /\ sb[0] = 0 /\ sc[0] = 0
      /\ CellIndex(b, st) = sb[n] /\ CellIndex(c, st) = sc[n]
    BY <1>4, <1>5 DEF Sums
<1> HIDE DEF n, st
<1> DEFINE T == {k \in 0..n : k < i => sb[k] = sc[k]}
<1>9. 0 \in T
    BY <1>1, <1>8
<1>10. ASSUME NEW k \in 1..n, k - 1 \in T PROVE k \in T
    <2> SUFFICES ASSUME k < i PROVE sb[k] = sc[k]
        BY <1>1
    <2>1. sb[k - 1] = sc[k - 1]
        BY <1>10
    <2>2. b[k] = c[k]
        BY <1>1, <1>6
    <2> QED
        BY <1>8, <2>1, <2>2
<1>11. 0..n \subseteq T
    <2> HIDE DEF T
    <2> QED
        BY <1>1, <1>9, <1>10, Reaches
<1>12. sb[i - 1] = sc[i - 1]
    <2>1. i - 1 \in 0..n /\ i - 1 < i
        BY <1>1
    <2>2. i - 1 \in T
        BY <1>11, <2>1
    <2> QED
        BY <2>1, <2>2
<1> HIDE DEF T
<1>13. b[i] \in Nat /\ c[i] \in Nat /\ st[i] \in Nat
    BY <1>2, <1>3, <1>6
<1>14. /\ b[i] * st[i] \in Nat /\ c[i] * st[i] \in Nat
       /\ b[i] * st[i] + st[i] <= c[i] * st[i]
    BY <1>6, <1>13, NextMultiple
<1>16. sb[i] = sb[i - 1] + b[i] * st[i] /\ sc[i] = sc[i - 1] + c[i] * st[i]
    BY <1>8
<1>17. /\ sb[i] \in Nat /\ sc[i] \in Nat /\ sb[n] \in Nat /\ sc[n] \in Nat
       /\ i - 1 \in 0..n /\ sb[i - 1] \in Nat
    <2>1. i \in 0..n /\ n \in 0..n /\ i - 1 \in 0..n
        BY <1>1
    <2> QED
        BY <1>8, <2>1
<1>18. sb[n] < sc[n]
    BY <1>7, <1>12, <1>13, <1>14, <1>16, <1>17
<1> QED
    BY <1>8, <1>18 DEF st

\* Coordinates that differ, differ first somewhere.
LEMMA Differ ==
    ASSUME NEW s \in Shapes, NEW b \in Coords(s), NEW c \in Coords(s), b # c
    PROVE  Before(b, c) \/ Before(c, b)
<1> DEFINE n == Len(s)
           S == {i \in 1..n : b[i] # c[i]}
<1>1. n \in Nat \ {0}
    BY ShapeType
<1>2. b \in [1..n -> Nat] /\ c \in [1..n -> Nat]
    BY DEF Coords
<1> HIDE DEF n
<1>3. S \in SUBSET Nat /\ S # {}
    <2>1. \E i \in 1..n : b[i] # c[i]
        <3> SUFFICES ASSUME \A i \in 1..n : b[i] = c[i] PROVE FALSE
            OBVIOUS
        <3>1. b = [i \in 1..n |-> b[i]] /\ c = [i \in 1..n |-> c[i]]
            BY <1>2
        <3>2. [i \in 1..n |-> b[i]] = [i \in 1..n |-> c[i]]
            OBVIOUS
        <3> QED
            BY <3>1, <3>2
    <2>2. 1..n \subseteq Nat
        BY <1>1
    <2> QED
        BY <2>1, <2>2
<1>4. PICK i \in S : \A m \in S : i <= m
    <2> HIDE DEF S
    <2> QED
        BY <1>3, Smallest
<1>5. \A j \in 1..(i - 1) : b[j] = c[j]
    BY <1>1, <1>4
<1>6. i \in 1..n /\ (b[i] < c[i] \/ c[i] < b[i])
    BY <1>2
<1> QED
    BY <1>2, <1>5, <1>6 DEF Before

\* Coordinates are found from their index.
LEMMA OneIndex ==
    ASSUME NEW s \in Shapes, NEW b \in Coords(s), NEW c \in Coords(s),
           CellIndex(b, Strides(s)) = CellIndex(c, Strides(s))
    PROVE  b = c
<1>1. CellIndex(b, Strides(s)) \in Nat
    BY IndexInside
<1>2. ~Before(b, c) /\ ~Before(c, b)
    BY <1>1, BeforeIsLess
<1> QED
    BY <1>2, Differ

\* An index is the number of coordinates that come first.
LEMMA RankIs ==
    ASSUME NEW s \in Shapes, NEW c \in Coords(s)
    PROVE  Rank(c, Vectors(s)) = CellIndex(c, Strides(s))
<1> DEFINE st == Strides(s)
           m == CellIndex(c, st)
           B == {b \in Coords(s) : Before(b, c)}
           f == [k \in 0..(m - 1) |-> Coordinates(k, s, st)]
<1>1. m \in 0..(Product(s) - 1) /\ Product(s) \in Nat
    BY IndexInside
<1>2. ASSUME NEW k \in 0..(m - 1)
      PROVE  f[k] \in B /\ CellIndex(f[k], st) = k
    <2>1. k \in 0..(Product(s) - 1) /\ f[k] = Coordinates(k, s, st) /\ k < m /\ k \in Nat
        BY <1>1
    <2>2. f[k] \in Coords(s) /\ CellIndex(f[k], st) = k
        BY <2>1, CoordsOf
    <2>3. f[k] # c
        BY <1>1, <2>1, <2>2
    <2>4. ~Before(c, f[k])
        BY <1>1, <2>1, <2>2, BeforeIsLess
    <2> HIDE DEF f
    <2> QED
        BY <2>2, <2>3, <2>4, Differ
<1>3. ASSUME NEW b \in B PROVE \E k \in 0..(m - 1) : f[k] = b
    <2> DEFINE k == CellIndex(b, st)
    <2>1. k < m /\ k \in 0..(Product(s) - 1)
        BY BeforeIsLess, IndexInside
    <2>2. k \in 0..(m - 1) /\ k \in 0..(Product(s) - 1)
        BY <1>1, <2>1
    <2>3. f[k] = Coordinates(k, s, st)
        BY <2>2
    <2>4. Coordinates(k, s, st) \in Coords(s) /\ CellIndex(Coordinates(k, s, st), st) = k
        BY <2>2, CoordsOf
    <2>5. f[k] = b
        BY <2>3, <2>4, OneIndex
    <2> QED
        BY <2>2, <2>5
<1>4. f \in [0..(m - 1) -> B] /\ \A k, l \in 0..(m - 1) : f[k] = f[l] => k = l
    BY <1>2
<1> HIDE DEF f, m, B
<1>5. IsFiniteSet(0..(m - 1)) /\ Cardinality(0..(m - 1)) = m
    <2>1. 0 \in Int /\ m - 1 \in Int /\ m \in Nat
        BY <1>1
    <2>2. IsFiniteSet(0..(m - 1))
          /\ Cardinality(0..(m - 1)) = IF 0 > m - 1 THEN 0 ELSE m - 1 - 0 + 1
        BY <2>1, FS_Interval
    <2> QED
        BY <2>1, <2>2
<1>6. Cardinality(B) = Cardinality(0..(m - 1))
    <2>1. OneToOne(f, 0..(m - 1), B)
        BY <1>3, <1>4 DEF OneToOne
    <2> QED
        BY <1>5, <2>1, Counting
<1>7. Rank(c, Vectors(s)) = Cardinality(B)
    BY VectorsAre DEF Rank, B
<1> QED
    BY <1>5, <1>6, <1>7 DEF m, st

\* There are as many coordinates as the product of the sizes.
LEMMA CoordsCount ==
    ASSUME NEW s \in Shapes
    PROVE  /\ IsFiniteSet(Coords(s)) /\ Cardinality(Coords(s)) = Product(s)
           /\ Product(s) \in Nat
<1> DEFINE st == Strides(s)
           p == Product(s)
           f == [k \in 0..(p - 1) |-> Coordinates(k, s, st)]
<1>1. p \in Nat
    BY ProductType
<1>2. \A k \in 0..(p - 1) : f[k] \in Coords(s) /\ CellIndex(f[k], st) = k
    BY CoordsOf
<1>3. ASSUME NEW b \in Coords(s) PROVE \E k \in 0..(p - 1) : f[k] = b
    <2>1. CellIndex(b, st) \in 0..(p - 1)
        BY IndexInside
    <2>2. f[CellIndex(b, st)] = b
        BY <1>2, <2>1, OneIndex
    <2> QED
        BY <2>1, <2>2
<1>4. f \in [0..(p - 1) -> Coords(s)] /\ \A k, l \in 0..(p - 1) : f[k] = f[l] => k = l
    BY <1>2
<1> HIDE DEF f, p
<1>5. IsFiniteSet(0..(p - 1)) /\ Cardinality(0..(p - 1)) = p
    <2>1. 0 \in Int /\ p - 1 \in Int
        BY <1>1
    <2>2. IsFiniteSet(0..(p - 1))
          /\ Cardinality(0..(p - 1)) = IF 0 > p - 1 THEN 0 ELSE p - 1 - 0 + 1
        BY <2>1, FS_Interval
    <2> QED
        BY <1>1, <2>2
<1>6. IsFiniteSet(Coords(s)) /\ Cardinality(Coords(s)) = Cardinality(0..(p - 1))
    <2>1. OneToOne(f, 0..(p - 1), Coords(s))
        BY <1>3, <1>4 DEF OneToOne
    <2> QED
        BY <1>5, <2>1, Counting
<1> QED
    BY <1>1, <1>5, <1>6 DEF p

-----------------------------------------------------------------------------
(* Orders.                                                                 *)

\* f lists the numbers from 1 to n, each at most once.
Permutes(f, n) ==
    f \in [1..n -> 1..n] /\ \A i, j \in 1..n : f[i] = f[j] => i = j

\* f leaves none of the numbers from 1 to n out.
Onto(f, n) == \A p \in 1..n : \E i \in 1..n : f[i] = p

\* A permutation leaves nothing out.
LEMMA PermutesOnto == ASSUME NEW n \in Nat, NEW f, Permutes(f, n) PROVE Onto(f, n)
<1>1. f \in Injection(1..n, 1..n)
    BY DEF Permutes, Injection, IsInjective
<1>2. IsFiniteSet(1..n)
    BY FS_Interval
<1>3. f \in Surjection(1..n, 1..n)
    BY <1>1, <1>2, FS_Injection
<1> QED
    BY <1>3 DEF Surjection, Onto

\* The beginnings of a range.
LEMMA Beginnings ==
    ASSUME NEW n \in Nat, NEW k \in 1..n
    PROVE  /\ k \in Nat \ {0} /\ k \in 1..k /\ k \in 0..n /\ k - 1 \in 0..n
           /\ 1..k \in SUBSET (1..n) /\ 1..(k - 1) \in SUBSET (1..n)
           /\ 1..k = (1..(k - 1)) \cup {k} /\ k \notin 1..(k - 1)
OBVIOUS

\* A fold takes the largest number of a set away first.
LEMMA TopIs ==
    ASSUME NEW n \in Nat, NEW S \in SUBSET (1..n), NEW k \in S, \A m \in S : m <= k
    PROVE  Max(S) = k
<1>1. Max(S) \in S /\ Max(S) >= k
    BY Largest
<1>2. Max(S) <= k
    BY <1>1
<1>3. Max(S) \in 1..n /\ k \in 1..n
    BY <1>1
<1> HIDE DEF Max
<1> QED
    BY <1>1, <1>2, <1>3

\* The sum of the shares in a set, whichever is taken away first.
SetSum(n, a, t) ==
    /\ t \in [SUBSET (1..n) -> Nat] /\ t[{}] = 0
    /\ \A S \in SUBSET (1..n) : \A x \in S : t[S] = t[S \ {x}] + a[x]

\* Sets of shares have sums.
LEMMA SetSumExists ==
    ASSUME NEW n \in Nat, NEW a \in [1..n -> Nat] PROVE \E t : SetSum(n, a, t)
<1> DEFINE F == [x \in Nat \X (1..n) |-> x[1] + a[x[2]]]
<1>1. F \in [Nat \X (1..n) -> Nat]
    <2>1. \A x \in Nat \X (1..n) : x[1] \in Nat /\ a[x[2]] \in Nat
        OBVIOUS
    <2>2. \A p, q \in Nat : p + q \in Nat
        OBVIOUS
    <2> QED
        BY <2>1, <2>2
<1>2. PICK t \in [SUBSET (1..n) -> Nat] : Folded(F, n, 0, t)
    <2> HIDE DEF F
    <2> QED
        BY <1>1, FoldExists
<1>3. t[{}] = 0
    BY <1>2 DEF Folded
<1>4. \A S \in SUBSET (1..n) : S # {} => t[S] = t[S \ {Max(S)}] + a[Max(S)]
    <2> SUFFICES ASSUME NEW S \in SUBSET (1..n), S # {}
                 PROVE  t[S] = t[S \ {Max(S)}] + a[Max(S)]
        OBVIOUS
    <2>1. Max(S) \in S
        BY Largest
    <2>2. t[S] = F[<<t[S \ {Max(S)}], Max(S)>>]
        <3> HIDE DEF F
        <3> QED
            BY <1>2 DEF Folded
    <2>3. <<t[S \ {Max(S)}], Max(S)>> \in Nat \X (1..n)
        BY <1>2, <2>1
    <2> QED
        BY <2>1, <2>2, <2>3
<1> HIDE DEF F
<1> DEFINE Good(k) == \A S \in SUBSET (1..k) : \A x \in S : t[S] = t[S \ {x}] + a[x]
           T == {k \in 0..n : Good(k)}
<1>5. 0 \in T
    OBVIOUS
<1>6. ASSUME NEW k \in 1..n, k - 1 \in T PROVE k \in T
    <2>0. Good(k - 1)
        BY <1>6
    <2>1. /\ 1..k \in SUBSET (1..n) /\ 1..(k - 1) \in SUBSET (1..n) /\ k \in 0..n
          /\ 1..k = (1..(k - 1)) \cup {k} /\ \A m \in 1..k : m <= k
        BY Beginnings
    <2> HIDE DEF T
    <2>2. ASSUME NEW S \in SUBSET (1..k), NEW x \in S PROVE t[S] = t[S \ {x}] + a[x]
        <3>1. S \in SUBSET (1..n) /\ S # {} /\ x \in 1..n /\ \A m \in S : m <= k
            BY <2>1
        <3>2. CASE k \notin S
            <4>1. S \in SUBSET (1..(k - 1))
                BY <2>1, <3>2
            <4> QED
                BY <2>0, <4>1
        <3>3. CASE k \in S
            <4> DEFINE U == S \ {k}
                       V == S \ {x}
            <4>1. Max(S) = k
                BY <3>1, <3>3, TopIs
            <4>2. t[S] = t[U] + a[k]
                BY <1>4, <3>1, <4>1
            <4>3. CASE x = k
                BY <4>2, <4>3
            <4>4. CASE x # k
                <5>1. V \in SUBSET (1..n) /\ k \in V /\ V # {} /\ \A m \in V : m <= k
                    BY <3>1, <3>3, <4>4
                <5>2. Max(V) = k
                    <6> HIDE DEF V
                    <6> QED
                        BY <5>1, TopIs
                <5>3. t[V] = t[V \ {k}] + a[k]
                    <6> HIDE DEF V
                    <6> QED
                        BY <1>4, <5>1, <5>2
                <5>4. U \in SUBSET (1..(k - 1)) /\ x \in U
                    BY <2>1, <4>4
                <5>5. t[U] = t[U \ {x}] + a[x]
                    <6> HIDE DEF U
                    <6> QED
                        BY <2>0, <5>4
                <5>6. U \ {x} = V \ {k} /\ V \ {k} \in SUBSET (1..n)
                    BY <5>1
                <5> HIDE DEF U, V
                <5>7. t[V \ {k}] \in Nat /\ a[x] \in Nat /\ a[k] \in Nat
                    BY <1>2, <3>1, <5>6
                <5>8. t[S] = t[V] + a[x]
                    <6> DEFINE w == t[V \ {k}]
                    <6>1. t[S] = (w + a[x]) + a[k] /\ t[V] = w + a[k] /\ w \in Nat
                        BY <4>2, <5>3, <5>5, <5>6, <5>7
                    <6> HIDE DEF w
                    <6> QED
                        BY <5>7, <6>1
                <5> QED
                    BY <5>8 DEF V
            <4> QED
                BY <4>3, <4>4
        <3> QED
            BY <3>2, <3>3
    <2>3. Good(k)
        BY <2>2
    <2> HIDE DEF Good
    <2> QED
        BY <2>1, <2>3 DEF T
<1> HIDE DEF Good
<1>7. n \in T
    <2>1. 0..n \subseteq T
        <3> HIDE DEF T
        <3> QED
            BY <1>5, <1>6, Reaches
    <2> QED
        BY <2>1
<1> QED
    BY <1>2, <1>3, <1>7 DEF SetSum, Good

\* g are the sums of the loop that visits position f[k] at its k-th turn.
Adds(n, a, f, g) ==
    /\ g \in [0..n -> Nat] /\ g[0] = 0
    /\ \A k \in 1..n : g[k] = g[k - 1] + a[f[k]]

\* A loop over all positions, in any order, adds up the same sum.
LEMMA Summed ==
    ASSUME NEW n \in Nat, NEW a \in [1..n -> Nat], NEW t, SetSum(n, a, t),
           NEW f, Permutes(f, n),
           NEW g, Adds(n, a, f, g)
    PROVE  g[n] = t[1..n]
<1> DEFINE I(m) == {f[i] : i \in 1..m}
           G == {k \in 0..n : g[k] = t[I(k)]}
<1>0. /\ g \in [0..n -> Nat] /\ g[0] = 0
      /\ \A k \in 1..n : g[k] = g[k - 1] + a[f[k]]
    BY DEF Adds
<1>1. 0 \in G
    <2>1. I(0) = {}
        OBVIOUS
    <2>2. t[{}] = 0
        BY DEF SetSum
    <2>3. 0 \in 0..n
        OBVIOUS
    <2> HIDE DEF I
    <2> QED
        BY <1>0, <2>1, <2>2, <2>3
<1>2. ASSUME NEW k \in 1..n, k - 1 \in G PROVE k \in G
    <2>1. /\ 1..k \in SUBSET (1..n) /\ 1..k = (1..(k - 1)) \cup {k} /\ k \notin 1..(k - 1)
          /\ k \in 1..k /\ k \in 0..n
        BY Beginnings
    <2>2. /\ \A i \in 1..k : f[i] \in 1..n
          /\ \A i \in 1..(k - 1) : f[i] # f[k]
        BY <2>1 DEF Permutes
    <2>3. I(k) \in SUBSET (1..n) /\ f[k] \in I(k)
        BY <2>1, <2>2
    <2>4. I(k) \ {f[k]} = I(k - 1)
        <3>1. I(k) = I(k - 1) \cup {f[k]}
            BY <2>1
        <3>2. f[k] \notin I(k - 1)
            BY <2>2
        <3> HIDE DEF I
        <3> QED
            BY <3>1, <3>2
    <2>5. g[k - 1] = t[I(k - 1)] /\ g[k] = g[k - 1] + a[f[k]]
        <3> HIDE DEF I
        <3> QED
            BY <1>0, <1>2
    <2> HIDE DEF I
    <2>6. t[I(k)] = t[I(k) \ {f[k]}] + a[f[k]]
        BY <2>3 DEF SetSum
    <2> QED
        BY <2>1, <2>4, <2>5, <2>6
<1>3. n \in G
    <2>1. 0..n \subseteq G
        <3> HIDE DEF G
        <3> QED
            BY <1>1, <1>2, Reaches
    <2>2. n \in 0..n
        OBVIOUS
    <2> HIDE DEF G
    <2> QED
        BY <2>1, <2>2
<1>4. I(n) = 1..n
    <2>1. \A i \in 1..n : f[i] \in 1..n
        BY DEF Permutes
    <2>2. Onto(f, n)
        BY PermutesOnto
    <2>3. I(n) \subseteq 1..n
        BY <2>1
    <2>4. ASSUME NEW p \in 1..n PROVE p \in I(n)
        <3>1. PICK i \in 1..n : f[i] = p
            BY <2>2 DEF Onto
        <3> QED
            BY <3>1
    <2> HIDE DEF I
    <2> QED
        BY <2>3, <2>4
<1> HIDE DEF I
<1> QED
    BY <1>3, <1>4

\* KeyOrder lists distinct keys in increasing order.
LEMMA KeyOrderIs ==
    ASSUME NEW n \in Nat, NEW keys \in [1..n -> Int],
           \A i, j \in 1..n : keys[i] = keys[j] => i = j
    PROVE  /\ Permutes(KeyOrder(keys), n)
           /\ \A k, l \in 1..n : k < l => keys[KeyOrder(keys)[k]] < keys[KeyOrder(keys)[l]]
<1> DEFINE L(i) == {j \in DOMAIN keys : keys[j] < keys[i]}
           r(i) == Cardinality(L(i))
           f == [i \in 1..n |-> r(i) + 1]
           o == KeyOrder(keys)
<1>1. IsFiniteSet(1..n) /\ Cardinality(1..n) = n
    BY FS_Interval
<1>2. \A i \in 1..n : L(i) \in SUBSET (1..n) /\ L(i) # 1..n
    <2> SUFFICES ASSUME NEW i \in 1..n PROVE L(i) \in SUBSET (1..n) /\ i \notin L(i)
        OBVIOUS
    <2> QED
        OBVIOUS
<1>3. \A i \in 1..n : IsFiniteSet(L(i)) /\ r(i) \in Nat /\ r(i) < n
    <2> SUFFICES ASSUME NEW i \in 1..n
                 PROVE  IsFiniteSet(L(i)) /\ Cardinality(L(i)) \in Nat /\ Cardinality(L(i)) < n
        OBVIOUS
    <2> HIDE DEF L
    <2>1. IsFiniteSet(L(i)) /\ Cardinality(L(i)) <= n /\ Cardinality(L(i)) # n
        BY <1>1, <1>2, FS_Subset
    <2> QED
        BY <2>1, FS_CardinalityType
<1>4. \A i, j \in 1..n : keys[i] < keys[j] => r(i) < r(j)
    <2> SUFFICES ASSUME NEW i \in 1..n, NEW j \in 1..n, keys[i] < keys[j] PROVE r(i) < r(j)
        OBVIOUS
    <2>1. L(i) \in SUBSET L(j) /\ i \in L(j) /\ i \notin L(i)
        OBVIOUS
    <2>2. L(i) \in SUBSET L(j) /\ L(i) # L(j)
        BY <2>1
    <2>3. r(i) = Cardinality(L(i)) /\ r(j) = Cardinality(L(j))
        OBVIOUS
    <2> HIDE DEF L, r
    <2>4. Cardinality(L(i)) <= Cardinality(L(j)) /\ Cardinality(L(i)) # Cardinality(L(j))
        BY <1>3, <2>2, FS_Subset
    <2> QED
        BY <1>3, <2>3, <2>4
<1>5. \A i, j \in 1..n : keys[i] \in Int /\ (keys[i] < keys[j] \/ keys[j] < keys[i] \/ i = j)
    OBVIOUS
<1>6. o = [k \in DOMAIN keys |-> CHOOSE i \in DOMAIN keys : r(i) = k - 1]
    BY Zenon DEF KeyOrder
<1> HIDE DEF L, r
<1>7. Permutes(f, n)
    <2>1. \A i \in 1..n : f[i] \in 1..n
        BY <1>3
    <2>2. ASSUME NEW i \in 1..n, NEW j \in 1..n, f[i] = f[j] PROVE i = j
        <3>1. r(i) \in Nat /\ r(j) \in Nat /\ r(i) + 1 = r(j) + 1
            BY <1>3, <2>2
        <3>2. r(i) = r(j)
            BY <3>1
        <3>3. ~(keys[i] < keys[j]) /\ ~(keys[j] < keys[i])
            BY <1>4, <3>1, <3>2
        <3> QED
            BY <1>5, <3>3
    <2> QED
        BY <2>1, <2>2 DEF Permutes
<1>8. \A k \in 1..n : \E i \in 1..n : r(i) = k - 1
    <2> SUFFICES ASSUME NEW k \in 1..n PROVE \E i \in 1..n : r(i) = k - 1
        OBVIOUS
    <2> HIDE DEF f
    <2>1. PICK i \in 1..n : f[i] = k
        <3>1. Onto(f, n)
            BY <1>7, PermutesOnto
        <3> QED
            BY <3>1 DEF Onto
    <2> USE DEF f
    <2> QED
        BY <1>3, <2>1
<1>9. \A k \in 1..n : o[k] \in 1..n /\ r(o[k]) = k - 1
    BY <1>6, <1>8
<1>10. \A k, l \in 1..n : o[k] = o[l] => k = l
    BY <1>9
<1>11. o \in [1..n -> 1..n]
    BY <1>6, <1>9
<1> HIDE DEF o, f
<1>12. ASSUME NEW k \in 1..n, NEW l \in 1..n, k < l PROVE keys[o[k]] < keys[o[l]]
    <2>1. r(o[k]) < r(o[l]) /\ r(o[k]) \in Nat /\ r(o[l]) \in Nat
        BY <1>3, <1>9, <1>12
    <2>2. o[k] \in 1..n /\ o[l] \in 1..n
        BY <1>9
    <2>3. keys[o[l]] < keys[o[k]] => r(o[l]) < r(o[k])
        BY <1>4, <2>2
    <2>4. ~(keys[o[l]] < keys[o[k]]) /\ o[k] # o[l]
        BY <2>1, <2>3
    <2> QED
        BY <1>5, <2>2, <2>4
<1>13. Permutes(o, n)
    BY <1>10, <1>11 DEF Permutes
<1> QED
    BY <1>12, <1>13 DEF o

-----------------------------------------------------------------------------
(* Dimensions and the names of their cells.                                *)

\* Dimensions are told apart by their keys, and so are their categories.
WellFormed(dims) ==
    /\ Len(dims) \in Nat \ {0} /\ DOMAIN dims = 1..Len(dims)
    /\ \A i, j \in 1..Len(dims) : dims[i].code.key = dims[j].code.key => i = j
    /\ \A i \in 1..Len(dims) :
          LET g == dims[i].categories IN
          /\ Len(g) \in Nat \ {0} /\ DOMAIN g = 1..Len(g)
          /\ \A j, k \in 1..Len(g) : g[j].key = g[k].key => j = k

\* Every name of a's is one of b's.
Inside(a, b) ==
    /\ Len(a) = Len(b)
    /\ \A i \in 1..Len(a) : \E p \in 1..Len(b) :
          /\ a[i].code.key = b[p].code.key
          /\ \A j \in 1..Len(a[i].categories) : \E k \in 1..Len(b[p].categories) :
                a[i].categories[j].key = b[p].categories[k].key

\* The cells of a cube, their indexes, how many there are, and the cell at an
\* index.
Points(dims) == Coords(Sizes(dims))
Index(dims, c) == CellIndex(c, Strides(Sizes(dims)))
Count(dims) == Product(Sizes(dims))
PointOf(dims, index) == Coordinates(index, Sizes(dims), Strides(Sizes(dims)))

\* Sizes of dimensions are a shape.
LEMMA SizesShape ==
    ASSUME NEW dims, WellFormed(dims)
    PROVE  /\ Sizes(dims) \in Shapes /\ Len(Sizes(dims)) = Len(dims)
           /\ \A i \in 1..Len(dims) : Sizes(dims)[i] = Len(dims[i].categories)
<1> DEFINE n == Len(dims)
           s == Sizes(dims)
<1>1. n \in Nat \ {0} /\ DOMAIN dims = 1..n /\ \A i \in 1..n : Len(dims[i].categories) \in Nat \ {0}
    BY DEF WellFormed
<1>2. s = [i \in 1..n |-> Len(dims[i].categories)]
    BY <1>1 DEF Sizes
<1>3. s \in [1..n -> Nat \ {0}]
    BY <1>1, <1>2
<1> HIDE DEF s, n
<1>4. s \in Seq(Nat \ {0})
    BY <1>1, <1>3, SeqDef
<1>5. Len(s) = n
    BY <1>1, <1>3, <1>4, LenProperties
<1>6. s # <<>>
    BY <1>1, <1>5
<1> QED
    BY <1>2, <1>4, <1>5, <1>6 DEF Shapes, s, n

\* What the points of dimensions are.
LEMMA PointsAre ==
    ASSUME NEW dims, WellFormed(dims)
    PROVE  Points(dims) = {c \in [1..Len(dims) -> Nat] :
                              \A i \in 1..Len(dims) : c[i] < Len(dims[i].categories)}
BY SizesShape DEF Points, Coords

\* A point names a category of each dimension.
LEMMA PointCategory ==
    ASSUME NEW dims, WellFormed(dims), NEW c \in Points(dims), NEW i \in 1..Len(dims)
    PROVE  c[i] \in Nat /\ c[i] + 1 \in 1..Len(dims[i].categories)
<1>1. c[i] \in Nat /\ c[i] < Len(dims[i].categories)
    BY PointsAre
<1>2. Len(dims[i].categories) \in Nat
    BY DEF WellFormed
<1> QED
    BY <1>1, <1>2

\* Points have indexes and indexes have points.
LEMMA PointIndex ==
    ASSUME NEW dims, WellFormed(dims)
    PROVE  /\ Count(dims) \in Nat
           /\ \A c \in Points(dims) : /\ Index(dims, c) \in 0..(Count(dims) - 1)
                                      /\ PointOf(dims, Index(dims, c)) = c
           /\ \A k \in 0..(Count(dims) - 1) : /\ PointOf(dims, k) \in Points(dims)
                                              /\ Index(dims, PointOf(dims, k)) = k
<1> DEFINE s == Sizes(dims)
<1>1. s \in Shapes
    BY SizesShape
<1> HIDE DEF s
<1>2. \A c \in Coords(s) : CellIndex(c, Strides(s)) \in 0..(Product(s) - 1)
    BY <1>1, IndexInside
<1>3. \A k \in 0..(Product(s) - 1) :
          /\ Coordinates(k, s, Strides(s)) \in Coords(s)
          /\ CellIndex(Coordinates(k, s, Strides(s)), Strides(s)) = k
    BY <1>1, CoordsOf
<1>4. ASSUME NEW c \in Coords(s)
      PROVE  Coordinates(CellIndex(c, Strides(s)), s, Strides(s)) = c
    <2> DEFINE k == CellIndex(c, Strides(s))
               b == Coordinates(k, s, Strides(s))
    <2>1. b \in Coords(s) /\ CellIndex(b, Strides(s)) = CellIndex(c, Strides(s))
        BY <1>2, <1>3
    <2> HIDE DEF b
    <2>2. b = c
        BY <1>1, <2>1, OneIndex
    <2> QED
        BY <2>2 DEF b
<1>5. Product(s) \in Nat
    BY <1>1, ProductType
<1> QED
    BY <1>2, <1>3, <1>4, <1>5 DEF Points, Index, Count, PointOf, s

\* A key finds its dimension, and its category.
LEMMA PlaceFound ==
    ASSUME NEW dims, WellFormed(dims), NEW i \in 1..Len(dims)
    PROVE  PlaceOf(dims, dims[i].code.key) = i
<1>1. DOMAIN dims = 1..Len(dims)
      /\ \A j \in 1..Len(dims) : dims[j].code.key = dims[i].code.key => j = i
    BY DEF WellFormed
<1> QED
    BY <1>1 DEF PlaceOf

\* A key finds its category.
LEMMA PositionFound ==
    ASSUME NEW dims, WellFormed(dims), NEW i \in 1..Len(dims),
           NEW j \in 1..Len(dims[i].categories)
    PROVE  PositionOf(dims[i], dims[i].categories[j].key) = j - 1
<1> DEFINE g == dims[i].categories
<1>1. DOMAIN g = 1..Len(g) /\ \A k \in 1..Len(g) : g[k].key = g[j].key => k = j
    BY DEF WellFormed
<1>2. (CHOOSE k \in DOMAIN g : g[k].key = g[j].key) = j
    BY <1>1
<1> QED
    BY <1>2 DEF PositionOf

\* Different points have different names.
LEMMA NameTells ==
    ASSUME NEW dims, WellFormed(dims), NEW b \in Points(dims), NEW c \in Points(dims),
           Name(dims, b) \subseteq Name(dims, c)
    PROVE  b = c
<1> DEFINE n == Len(dims)
           key(x, i) == dims[i].categories[x[i] + 1].key
<1>1. DOMAIN dims = 1..n
    BY DEF WellFormed
<1>2. b \in [1..n -> Nat] /\ c \in [1..n -> Nat]
    BY PointsAre
<1>3. ASSUME NEW i \in 1..n PROVE b[i] = c[i]
    <2>1. <<dims[i].code.key, key(b, i)>> \in Name(dims, b)
        BY <1>1 DEF Name
    <2>2. <<dims[i].code.key, key(b, i)>> \in Name(dims, c)
        BY <2>1
    <2>3. PICK j \in 1..n : dims[i].code.key = dims[j].code.key /\ key(b, i) = key(c, j)
        BY <1>1, <2>2 DEF Name
    <2>4. i = j
        BY <2>3 DEF WellFormed
    <2>5. b[i] + 1 \in 1..Len(dims[i].categories) /\ c[i] + 1 \in 1..Len(dims[i].categories)
        BY PointCategory
    <2>6. b[i] + 1 = c[i] + 1
        BY <2>3, <2>4, <2>5 DEF WellFormed
    <2> QED
        BY <1>2, <2>6
<1>4. b = [i \in 1..n |-> b[i]] /\ c = [i \in 1..n |-> c[i]]
    BY <1>2
<1>5. [i \in 1..n |-> b[i]] = [i \in 1..n |-> c[i]]
    BY <1>3
<1> QED
    BY <1>4, <1>5

-----------------------------------------------------------------------------
(* Meaning, told from indexes.                                             *)

\* The name of the cell at an index.
NameAt(dims, k) == Name(dims, PointOf(dims, k))

\* The meaning of cells, told from their indexes in place of their ranks.
LEMMA MeaningIs ==
    ASSUME NEW dims, WellFormed(dims), NEW cells, DOMAIN cells \subseteq 0..(Count(dims) - 1)
    PROVE  Meaning(dims, cells) = {<<NameAt(dims, k), cells[k]>> : k \in DOMAIN cells}
<1> DEFINE s == Sizes(dims)
           vectors == Vectors(s)
           held == {c \in vectors : Rank(c, vectors) \in DOMAIN cells}
<1>1. s \in Shapes
    BY SizesShape
<1>2. vectors = Points(dims)
    BY <1>1, VectorsAre DEF Points
<1>3. \A c \in Points(dims) : Rank(c, vectors) = Index(dims, c)
    BY <1>1, RankIs DEF Points, Index
<1>4. Meaning(dims, cells) = {<<Name(dims, c), cells[Rank(c, vectors)]>> : c \in held}
    BY Zenon DEF Meaning
<1> HIDE DEF vectors, s
<1>5. held = {c \in Points(dims) : Index(dims, c) \in DOMAIN cells}
    BY <1>2, <1>3
<1> HIDE DEF held
<1>6. ASSUME NEW c \in held
      PROVE  /\ Index(dims, c) \in DOMAIN cells /\ Rank(c, vectors) = Index(dims, c)
             /\ Name(dims, c) = NameAt(dims, Index(dims, c))
    BY <1>3, <1>5, PointIndex DEF NameAt
<1>7. ASSUME NEW k \in DOMAIN cells
      PROVE  PointOf(dims, k) \in held /\ Index(dims, PointOf(dims, k)) = k
    BY <1>5, PointIndex
<1>8. ASSUME NEW m \in Meaning(dims, cells)
      PROVE  m \in {<<NameAt(dims, k), cells[k]>> : k \in DOMAIN cells}
    <2>1. PICK c \in held : m = <<Name(dims, c), cells[Rank(c, vectors)]>>
        BY <1>4
    <2> QED
        BY <1>6, <2>1
<1>9. ASSUME NEW k \in DOMAIN cells PROVE <<NameAt(dims, k), cells[k]>> \in Meaning(dims, cells)
    <2> DEFINE c == PointOf(dims, k)
    <2>1. c \in held /\ Rank(c, vectors) = k
        BY <1>6, <1>7
    <2> HIDE DEF c
    <2>2. <<Name(dims, c), cells[k]>> \in Meaning(dims, cells)
        BY <1>4, <2>1
    <2> QED
        BY <2>2 DEF NameAt, c
<1> QED
    BY <1>8, <1>9

-----------------------------------------------------------------------------
(* The same cell in other dimensions.                                      *)

\* Where the dimensions of a are in b.
Place(a, b) == [i \in 1..Len(a) |-> PlaceOf(b, a[i].code.key)]

\* a's i-th dimension is b's p-th, with categories that b has.
Fits(a, b, i, p) ==
    /\ a[i].code.key = b[p].code.key
    /\ \A j \in 1..Len(a[i].categories) : \E k \in 1..Len(b[p].categories) :
          a[i].categories[j].key = b[p].categories[k].key

\* A dimension has its place, and a category its position.
LEMMA PlaceFits ==
    ASSUME NEW a, NEW b, WellFormed(a), WellFormed(b), Inside(a, b), NEW i \in 1..Len(a)
    PROVE  Place(a, b)[i] \in 1..Len(b) /\ Fits(a, b, i, Place(a, b)[i])
<1>1. PICK p \in 1..Len(b) : Fits(a, b, i, p)
    BY DEF Inside, Fits
<1>2. PlaceOf(b, b[p].code.key) = p
    BY PlaceFound
<1>3. Place(a, b)[i] = p
    BY <1>1, <1>2 DEF Place, Fits
<1> QED
    BY <1>1, <1>3

\* Places are a permutation, and that of the way back is its inverse.
LEMMA PlacePermutes ==
    ASSUME NEW a, NEW b, WellFormed(a), WellFormed(b), Inside(a, b)
    PROVE  /\ Permutes(Place(a, b), Len(a))
           /\ \A p \in 1..Len(b) : /\ PlaceOf(a, b[p].code.key) \in 1..Len(a)
                                   /\ Place(a, b)[PlaceOf(a, b[p].code.key)] = p
           /\ \A i \in 1..Len(a) : PlaceOf(a, b[Place(a, b)[i]].code.key) = i
<1> DEFINE n == Len(a)
           f == Place(a, b)
<1>1. n \in Nat /\ Len(b) = n
    BY DEF WellFormed, Inside
<1>2. \A i \in 1..n : f[i] \in 1..n /\ a[i].code.key = b[f[i]].code.key
    BY <1>1, PlaceFits DEF Fits
<1>3. \A i, j \in 1..n : a[i].code.key = a[j].code.key => i = j
    BY DEF WellFormed
<1>4. f = [i \in 1..n |-> f[i]]
    BY DEF Place
<1>5. \A i \in 1..n : PlaceOf(a, a[i].code.key) = i
    BY PlaceFound
<1> HIDE DEF f, n
<1>6. f \in [1..n -> 1..n]
    BY <1>2, <1>4
<1>7. \A i, j \in 1..n : f[i] = f[j] => i = j
    BY <1>2, <1>3
<1>8. Permutes(f, n)
    BY <1>6, <1>7 DEF Permutes
<1>9. Onto(f, n)
    BY <1>1, <1>8, PermutesOnto
<1>10. ASSUME NEW p \in 1..n
       PROVE  PlaceOf(a, b[p].code.key) \in 1..n /\ f[PlaceOf(a, b[p].code.key)] = p
    <2>1. PICK i \in 1..n : f[i] = p
        BY <1>9 DEF Onto
    <2>2. a[i].code.key = b[p].code.key
        BY <1>2, <2>1
    <2>3. PlaceOf(a, b[p].code.key) = i
        BY <1>5, <2>2
    <2> QED
        BY <2>1, <2>3
<1>11. \A i \in 1..n : PlaceOf(a, b[f[i]].code.key) = i
    BY <1>2, <1>5
<1> QED
    BY <1>1, <1>8, <1>10, <1>11 DEF f, n

\* The point of b with the name of a's point c, as remapReplacement and
\* ResolveSelection find it.
Translated(a, b, c) ==
    [p \in DOMAIN b |->
        PositionOf(b[p], a[PlaceOf(a, b[p].code.key)].categories
                            [c[PlaceOf(a, b[p].code.key)] + 1].key)]

\* The translation of a's point has the keys that the point has.
LEMMA TranslatedAt ==
    ASSUME NEW a, NEW b, WellFormed(a), WellFormed(b), Inside(a, b), NEW c \in Points(a),
           NEW i \in 1..Len(a)
    PROVE  LET p == Place(a, b)[i]
               key == a[i].categories[c[i] + 1].key
           IN  /\ p \in 1..Len(b) /\ b[p].code.key = a[i].code.key
               /\ Translated(a, b, c)[p] = PositionOf(b[p], key)
               /\ Translated(a, b, c)[p] \in Nat
               /\ Translated(a, b, c)[p] < Len(b[p].categories)
               /\ b[p].categories[Translated(a, b, c)[p] + 1].key = key
<1> DEFINE p == Place(a, b)[i]
           key == a[i].categories[c[i] + 1].key
           t == Translated(a, b, c)[p]
<1>1. p \in 1..Len(b) /\ Fits(a, b, i, p) /\ DOMAIN b = 1..Len(b)
    BY PlaceFits DEF WellFormed
<1>2. PlaceOf(a, b[p].code.key) = i
    BY PlacePermutes
<1> HIDE DEF p
<1>3. t = PositionOf(b[p], key)
    BY <1>1, <1>2 DEF Translated
<1>4. c[i] + 1 \in 1..Len(a[i].categories)
    BY PointCategory
<1>5. PICK k \in 1..Len(b[p].categories) : key = b[p].categories[k].key
    BY <1>1, <1>4 DEF Fits
<1>6. t = k - 1 /\ Len(b[p].categories) \in Nat
    <2>1. PositionOf(b[p], b[p].categories[k].key) = k - 1
        BY <1>1, PositionFound
    <2>2. PositionOf(b[p], key) = k - 1
        BY <1>5, <2>1
    <2>3. Len(b[p].categories) \in Nat
        BY <1>1 DEF WellFormed
    <2> QED
        BY <1>3, <2>2, <2>3
<1>7. t \in Nat /\ t < Len(b[p].categories) /\ t + 1 = k
    BY <1>6
<1> HIDE DEF t, key
<1> QED
    BY <1>1, <1>3, <1>5, <1>7 DEF Fits, p, t, key

\* It is a point of b, and its name is that of c.
LEMMA TranslatedIs ==
    ASSUME NEW a, NEW b, WellFormed(a), WellFormed(b), Inside(a, b), NEW c \in Points(a)
    PROVE  Translated(a, b, c) \in Points(b) /\ Name(b, Translated(a, b, c)) = Name(a, c)
<1> DEFINE n == Len(a)
           t == Translated(a, b, c)
           f == Place(a, b)
           key(i) == a[i].categories[c[i] + 1].key
<1>1. n \in Nat /\ Len(b) = n /\ DOMAIN b = 1..n /\ DOMAIN a = 1..n
    BY DEF WellFormed, Inside
<1>2. \A i \in 1..n : /\ f[i] \in 1..n /\ b[f[i]].code.key = a[i].code.key
                      /\ t[f[i]] \in Nat /\ t[f[i]] < Len(b[f[i]].categories)
                      /\ b[f[i]].categories[t[f[i]] + 1].key = key(i)
    BY <1>1, TranslatedAt
<1>3. \A p \in 1..n : \E i \in 1..n : f[i] = p
    BY <1>1, PlacePermutes
<1>4. t = [p \in 1..n |-> t[p]]
    BY <1>1 DEF Translated
<1> HIDE DEF t, f, key
<1>5. \A p \in 1..n : t[p] \in Nat /\ t[p] < Len(b[p].categories)
    BY <1>2, <1>3
<1>6. t \in Points(b)
    BY <1>1, <1>4, <1>5, PointsAre
<1>7. Name(a, c) = {<<a[i].code.key, key(i)>> : i \in 1..n}
    BY <1>1 DEF Name, key
<1>8. Name(b, t) = {<<b[p].code.key, b[p].categories[t[p] + 1].key>> : p \in 1..n}
    BY <1>1 DEF Name
<1>9. Name(b, t) = Name(a, c)
    <2>1. ASSUME NEW i \in 1..n PROVE <<a[i].code.key, key(i)>> \in Name(b, t)
        BY <1>2, <1>8
    <2>2. ASSUME NEW p \in 1..n
          PROVE  <<b[p].code.key, b[p].categories[t[p] + 1].key>> \in Name(a, c)
        <3>1. PICK i \in 1..n : f[i] = p
            BY <1>3
        <3>2. <<b[p].code.key, b[p].categories[t[p] + 1].key>> = <<a[i].code.key, key(i)>>
            BY <1>2, <3>1
        <3> QED
            BY <1>7, <3>2
    <2> QED
        BY <1>7, <1>8, <2>1, <2>2
<1> QED
    BY <1>6, <1>9 DEF t

-----------------------------------------------------------------------------
(* The loop of remapCellIndex.                                             *)

\* A turn of the loop of remapCellIndex.
RemapStep(a, b, p, i) ==
    [remaining |-> p.remaining % Strides(Sizes(a))[i],
     index |-> p.index
        + PositionOf(b[PlaceOf(b, a[i].code.key)],
                     a[i].categories[p.remaining \div Strides(Sizes(a))[i] + 1].key)
          * Strides(Sizes(b))[PlaceOf(b, a[i].code.key)]]

\* fold is the recursive function by which a fold over 1..n is defined.
RemapFolded(a, b, base, n, fold) ==
    fold = [S \in SUBSET (1..n) |->
               IF S = {} THEN base ELSE RemapStep(a, b, fold[S \ {Max(S)}], Max(S))]

\* The fold has a solution.
LEMMA RemapFoldExists ==
    ASSUME NEW n \in Nat, NEW a, NEW b, NEW base
    PROVE  \E fold : RemapFolded(a, b, base, n, fold)
<1> DEFINE Good == {k \in 0..n : \E fold : RemapFolded(a, b, base, k, fold)}
<1>1. 0 \in Good
    <2> DEFINE fold == [S \in SUBSET (1..0) |-> base]
    <2>1. \A S \in SUBSET (1..0) : S = {}
        OBVIOUS
    <2>2. RemapFolded(a, b, base, 0, fold)
        BY <2>1 DEF RemapFolded
    <2>3. 0 \in 0..n
        OBVIOUS
    <2> QED
        BY <2>2, <2>3
<1>2. ASSUME NEW k \in 1..n, k - 1 \in Good PROVE k \in Good
    <2>1. PICK g : RemapFolded(a, b, base, k - 1, g)
        BY <1>2
    <2> DEFINE fold == [S \in SUBSET (1..k) |->
                           IF k \in S THEN RemapStep(a, b, g[S \ {k}], k) ELSE g[S]]
               Step(S) == IF S = {} THEN base ELSE RemapStep(a, b, fold[S \ {Max(S)}], Max(S))
    <2>0. /\ 1..k \in SUBSET (1..n) /\ 1..(k - 1) \in SUBSET (1..n) /\ k \in 0..n
          /\ 1..k = (1..(k - 1)) \cup {k} /\ k \notin 1..(k - 1)
          /\ \A m \in 1..k : m <= k
        BY Beginnings
    <2>2. \A S \in SUBSET (1..(k - 1)) :
              g[S] = IF S = {} THEN base ELSE RemapStep(a, b, g[S \ {Max(S)}], Max(S))
        BY <2>1 DEF RemapFolded
    <2>3. ASSUME NEW S \in SUBSET (1..(k - 1)) PROVE fold[S] = g[S]
        BY <2>0
    <2>4. ASSUME NEW S \in SUBSET (1..k) PROVE fold[S] = Step(S)
        <3>1. CASE k \in S
            <4>1. S \ {k} \in SUBSET (1..(k - 1))
                BY <2>0
            <4>2. fold[S \ {k}] = g[S \ {k}]
                BY <2>3, <4>1
            <4>3. Max(S) = k /\ S # {}
                <5> HIDE DEF Good, fold
                <5>1. S \in SUBSET (1..n) /\ \A m \in S : m <= k
                    BY <2>0
                <5> QED
                    BY <3>1, <5>1, TopIs
            <4>4. fold[S] = RemapStep(a, b, g[S \ {k}], k)
                BY <3>1
            <4> HIDE DEF fold
            <4> QED
                BY <4>2, <4>3, <4>4
        <3>2. CASE k \notin S
            <4>1. S \in SUBSET (1..(k - 1))
                BY <2>0, <3>2
            <4>2. S # {} => S \ {Max(S)} \in SUBSET (1..(k - 1))
                BY <4>1
            <4>3. fold[S] = g[S] /\ (S # {} => fold[S \ {Max(S)}] = g[S \ {Max(S)}])
                BY <2>3, <4>1, <4>2
            <4> HIDE DEF fold
            <4> QED
                BY <2>2, <4>1, <4>3
        <3> QED
            BY <3>1, <3>2
    <2>5. fold = [S \in SUBSET (1..k) |-> fold[S]]
        OBVIOUS
    <2> HIDE DEF fold
    <2>6. RemapFolded(a, b, base, k, fold)
        BY <2>4, <2>5 DEF RemapFolded
    <2> QED
        BY <2>0, <2>6
<1>3. n \in Good
    <2>1. 0..n \subseteq Good
        <3> HIDE DEF Good
        <3> QED
            BY <1>1, <1>2, Reaches
    <2>2. n \in 0..n
        OBVIOUS
    <2> HIDE DEF Good
    <2> QED
        BY <2>1, <2>2
<1> QED
    BY <1>3

\* The states of the loop.
RemapLoop(index, a, b, p) ==
    /\ p[0] = [remaining |-> index, index |-> 0]
    /\ \A k \in 1..Len(a) : p[k] = RemapStep(a, b, p[k - 1], k)
    /\ RemapCellIndex(index, a, b) = p[Len(a)].index

\* RemapCellIndex is the end of such a loop.
LEMMA RemapLoopExists ==
    ASSUME NEW index, NEW a, NEW b, WellFormed(a)
    PROVE  \E p : RemapLoop(index, a, b, p)
<1> DEFINE n == Len(a)
           base == [remaining |-> index, index |-> 0]
           id == [i \in DOMAIN a |-> i]
           Is(fold) == fold = [S \in SUBSET DOMAIN id |->
                                  IF S = {} THEN base
                                  ELSE RemapStep(a, b, fold[S \ {Max(S)}], id[Max(S)])]
<1>1. n \in Nat /\ DOMAIN a = 1..n /\ DOMAIN id = 1..n
    BY DEF WellFormed
<1>2. RemapCellIndex(index, a, b) = (CHOOSE fold : Is(fold))[DOMAIN id].index
    BY DEF RemapCellIndex, FoldLeftDomain, FoldLeft, MapThenFoldSet, RemapStep
<1>3. PICK h : RemapFolded(a, b, base, n, h)
    BY <1>1, RemapFoldExists
<1>4. \A S \in SUBSET (1..n) : S # {} => id[Max(S)] = Max(S)
    <2> SUFFICES ASSUME NEW S \in SUBSET (1..n), S # {} PROVE id[Max(S)] = Max(S)
        OBVIOUS
    <2>1. Max(S) \in S
        BY <1>1, Largest
    <2>2. Max(S) \in DOMAIN a
        BY <1>1, <2>1
    <2> QED
        BY <2>2
<1>5. Is(h)
    <2> HIDE DEF id
    <2> QED
        BY <1>1, <1>3, <1>4 DEF RemapFolded
<1> DEFINE f == CHOOSE fold : Is(fold)
           p == [k \in 0..n |-> f[1..k]]
<1>6. Is(f)
    BY <1>5, Zenon
<1> HIDE DEF f
<1>7. f[{}] = base
    BY <1>6
<1>8. ASSUME NEW k \in 1..n PROVE f[1..k] = RemapStep(a, b, f[1..(k - 1)], k)
    <2>1. /\ 1..k \in SUBSET (1..n) /\ 1..k # {} /\ Max(1..k) = k
          /\ (1..k) \ {k} = 1..(k - 1)
        BY <1>1, FoldedPrefixes
    <2>2. f[1..k] = RemapStep(a, b, f[(1..k) \ {k}], id[k])
        <3> HIDE DEF id
        <3> QED
            BY <1>1, <1>6, <2>1
    <2>3. id[k] = k
        BY <1>1
    <2> QED
        BY <2>1, <2>2, <2>3
<1>9. p[0] = base /\ p[n].index = RemapCellIndex(index, a, b)
    <2>1. 1..0 = {} /\ 0 \in 0..n /\ n \in 0..n
        BY <1>1
    <2>2. p[0] = f[1..0] /\ p[n] = f[1..n]
        BY <2>1
    <2> HIDE DEF p, id
    <2> QED
        BY <1>1, <1>2, <1>7, <2>1, <2>2 DEF f
<1>10. ASSUME NEW k \in 1..n PROVE p[k] = RemapStep(a, b, p[k - 1], k)
    <2>1. k \in 0..n /\ k - 1 \in 0..n
        BY <1>1
    <2> QED
        BY <1>8, <2>1
<1> HIDE DEF p
<1> QED
    BY <1>9, <1>10 DEF RemapLoop

\* A coordinate is what remains divided by its stride.
LEMMA CoordAt ==
    ASSUME NEW s \in Shapes, NEW index \in 0..(Product(s) - 1), NEW i \in 1..Len(s)
    PROVE  Coordinates(index, s, Strides(s))[i]
               = Remaining(index, s, Strides(s))[i] \div Strides(s)[i]
<1> DEFINE st == Strides(s)
           c == Coordinates(index, s, st)
           r == Remaining(index, s, st)
<1>1. \/ c = Outside
      \/ c = [k \in DOMAIN s |-> r[k] \div st[k]]
    BY Zenon DEF Coordinates, Remaining
<1>2. c \in Coords(s)
    BY CoordsOf
<1>3. DOMAIN s = 1..Len(s) /\ 1 \in 1..Len(s)
    BY ShapeType
<1> HIDE DEF c, r, st
<1>4. c[1] \in Nat
    BY <1>2, <1>3 DEF Coords
<1>5. c # Outside
    BY <1>4 DEF Outside
<1>6. c[i] = r[i] \div st[i]
    BY <1>1, <1>3, <1>5
<1> QED
    BY <1>6 DEF c, r, st

\* What the loop has left is what Coordinates has left.
LEMMA LoopRemaining ==
    ASSUME NEW a, NEW b, WellFormed(a), NEW index \in Nat, NEW p, RemapLoop(index, a, b, p)
    PROVE  \A k \in 1..Len(a) :
              p[k - 1].remaining = Remaining(index, Sizes(a), Strides(Sizes(a)))[k]
<1> DEFINE n == Len(a)
           s == Sizes(a)
           st == Strides(s)
           r == Remaining(index, s, st)
           G == {j \in 0..(n - 1) : p[j].remaining = r[j + 1]}
<1>1. n \in Nat \ {0} /\ s \in Shapes /\ Len(s) = n
    BY SizesShape DEF WellFormed
<1>2. st \in [1..Len(s) -> Nat \ {0}]
    BY <1>1, StridesOf
<1>3. r[1] = index /\ \A i \in 2..n : r[i] = r[i - 1] % st[i - 1]
    <2> HIDE DEF s, st
    <2> QED
        BY <1>1, <1>2, RemainingOf
<1>4. p[0].remaining = index /\ \A k \in 1..n : p[k].remaining = p[k - 1].remaining % st[k]
    <2>1. \A k \in 1..n : p[k] = RemapStep(a, b, p[k - 1], k)
        BY DEF RemapLoop
    <2>2. p[0] = [remaining |-> index, index |-> 0]
        BY DEF RemapLoop
    <2>3. \A k \in 1..n : p[k].remaining = p[k - 1].remaining % st[k]
        <3> SUFFICES ASSUME NEW k \in 1..n PROVE p[k].remaining = p[k - 1].remaining % st[k]
            OBVIOUS
        <3>1. p[k] = RemapStep(a, b, p[k - 1], k)
            BY <2>1
        <3> QED
            BY <3>1 DEF RemapStep
    <2> QED
        BY <2>2, <2>3
<1> HIDE DEF s, st, r, n
<1>5. 0 \in G
    BY <1>1, <1>3, <1>4
<1>6. ASSUME NEW k \in 1..(n - 1), k - 1 \in G PROVE k \in G
    <2>1. k \in 1..n /\ k + 1 \in 2..n /\ (k + 1) - 1 = k /\ (k - 1) + 1 = k /\ k \in 0..(n - 1)
        BY <1>1
    <2>2. p[k - 1].remaining = r[(k - 1) + 1]
        BY <1>6
    <2>3. p[k - 1].remaining = r[k]
        BY <2>1, <2>2
    <2>4. r[k + 1] = r[k] % st[k]
        BY <1>3, <2>1
    <2>5. p[k].remaining = r[k + 1]
        BY <1>4, <2>1, <2>3, <2>4
    <2> QED
        BY <2>1, <2>5
<1>7. 0..(n - 1) \subseteq G
    <2>1. n - 1 \in Nat
        BY <1>1
    <2> HIDE DEF G
    <2> QED
        BY <1>5, <1>6, <2>1, Reaches
<1>8. ASSUME NEW k \in 1..n PROVE p[k - 1].remaining = r[k]
    <2>1. k - 1 \in 0..(n - 1) /\ (k - 1) + 1 = k
        BY <1>1
    <2>2. k - 1 \in G
        BY <1>7, <2>1
    <2> QED
        BY <2>1, <2>2
<1> QED
    BY <1>8 DEF n, s, st, r

\* The fused loop finds the index of the cell with the same name.
LEMMA RemapIs ==
    ASSUME NEW a, NEW b, WellFormed(a), WellFormed(b), Inside(a, b),
           NEW index \in 0..(Count(a) - 1)
    PROVE  RemapCellIndex(index, a, b) = Index(b, Translated(a, b, PointOf(a, index)))
<1> DEFINE n == Len(a)
           c == PointOf(a, index)
           t == Translated(a, b, c)
           f == Place(a, b)
           sa == Strides(Sizes(a))
           sb == Strides(Sizes(b))
           share == [q \in 1..n |-> t[q] * sb[q]]
<1>1. n \in Nat \ {0} /\ Len(b) = n /\ DOMAIN a = 1..n
    BY DEF WellFormed, Inside
<1>2. c \in Points(a) /\ index \in Nat
    BY PointIndex
<1>3. t \in Points(b) /\ Permutes(f, n)
    <2> HIDE DEF c
    <2> QED
        BY <1>2, TranslatedIs, PlacePermutes
<1>4. /\ Sizes(a) \in Shapes /\ Len(Sizes(a)) = n /\ Sizes(b) \in Shapes /\ Len(Sizes(b)) = n
      /\ sb \in [1..n -> Nat \ {0}]
    <2>1. Sizes(a) \in Shapes /\ Len(Sizes(a)) = n /\ Sizes(b) \in Shapes /\ Len(Sizes(b)) = n
        BY <1>1, SizesShape
    <2> QED
        BY <2>1, StridesOf
<1>5. t \in [1..n -> Nat]
    BY <1>1, <1>3, PointsAre
<1>6. share \in [1..n -> Nat]
    <2> SUFFICES ASSUME NEW q \in 1..n PROVE t[q] * sb[q] \in Nat
        OBVIOUS
    <2> HIDE DEF t, sb
    <2>1. t[q] \in Nat /\ sb[q] \in Nat
        BY <1>4, <1>5
    <2> QED
        BY <2>1
<1>7. PICK p : RemapLoop(index, a, b, p)
    BY RemapLoopExists
<1>8. ASSUME NEW k \in 1..n PROVE p[k].index = p[k - 1].index + share[f[k]]
    <2>1. p[k - 1].remaining = Remaining(index, Sizes(a), sa)[k]
        BY <1>2, <1>7, LoopRemaining
    <2>2. c[k] = Remaining(index, Sizes(a), sa)[k] \div sa[k]
        BY <1>4, CoordAt DEF PointOf, Count
    <2>3. p[k] = RemapStep(a, b, p[k - 1], k)
        BY <1>7 DEF RemapLoop
    <2>4. p[k].index = p[k - 1].index
              + PositionOf(b[PlaceOf(b, a[k].code.key)],
                           a[k].categories[p[k - 1].remaining \div sa[k] + 1].key)
                * sb[PlaceOf(b, a[k].code.key)]
        BY <2>3 DEF RemapStep
    <2>5. f[k] = PlaceOf(b, a[k].code.key)
        BY DEF Place
    <2> HIDE DEF c
    <2>6. t[f[k]] = PositionOf(b[f[k]], a[k].categories[c[k] + 1].key)
        BY <1>2, TranslatedAt
    <2>7. f[k] \in 1..n
        BY <1>3 DEF Permutes
    <2> HIDE DEF t, f, sa, sb
    <2>8. share[f[k]] = t[f[k]] * sb[f[k]]
        BY <2>7
    <2> QED
        BY <2>1, <2>2, <2>4, <2>5, <2>6, <2>8
<1>9. PICK u : SetSum(n, share, u)
    <2> HIDE DEF share
    <2> QED
        BY <1>1, <1>6, SetSumExists
<1> DEFINE g == [k \in 0..n |-> p[k].index]
           G == {k \in 0..n : p[k].index \in Nat}
<1>10. p[0].index = 0 /\ p[n].index = RemapCellIndex(index, a, b)
    BY <1>7 DEF RemapLoop
<1>11. 0..n \subseteq G
    <2> HIDE DEF share, f
    <2>1. 0 \in G
        BY <1>1, <1>10
    <2>2. ASSUME NEW k \in 1..n, k - 1 \in G PROVE k \in G
        <3>1. share[f[k]] \in Nat
            BY <1>3, <1>6 DEF Permutes
        <3>2. p[k].index \in Nat
            BY <1>8, <2>2, <3>1
        <3>3. k \in 0..n
            BY <1>1
        <3> QED
            BY <3>2, <3>3
    <2> HIDE DEF G
    <2> QED
        BY <1>1, <2>1, <2>2, Reaches
<1>12. g \in [0..n -> Nat] /\ g[0] = 0 /\ g[n] = RemapCellIndex(index, a, b)
    <2>1. 0 \in 0..n /\ n \in 0..n
        BY <1>1
    <2> QED
        BY <1>10, <1>11, <2>1
<1>13. \A k \in 1..n : g[k] = g[k - 1] + share[f[k]]
    <2> SUFFICES ASSUME NEW k \in 1..n PROVE g[k] = g[k - 1] + share[f[k]]
        OBVIOUS
    <2> HIDE DEF share, f
    <2>1. k \in 0..n /\ k - 1 \in 0..n
        BY <1>1
    <2> QED
        BY <1>8, <2>1
<1>14. g[n] = u[1..n]
    <2> HIDE DEF g, share, f
    <2>1. Adds(n, share, f, g)
        BY <1>12, <1>13 DEF Adds
    <2>2. n \in Nat
        BY <1>1
    <2> HIDE DEF n
    <2> QED
        BY <1>3, <1>6, <1>9, <2>1, <2>2, Summed
<1>15. PICK sum : Sums(Sizes(b), t, sum)
    <2> HIDE DEF t
    <2> QED
        BY <1>4, <1>5, SumsExist
<1> DEFINE id == [k \in 1..n |-> k]
<1>16. Permutes(id, n)
    BY DEF Permutes
<1>17. /\ sum \in [0..n -> Nat] /\ sum[0] = 0 /\ sum[n] = Index(b, t)
       /\ \A k \in 1..n : sum[k] = sum[k - 1] + share[id[k]]
    <2> HIDE DEF t
    <2>1. /\ sum \in [0..n -> Nat] /\ sum[0] = 0 /\ sum[n] = Index(b, t)
          /\ \A k \in 1..n : sum[k] = sum[k - 1] + t[k] * sb[k]
        BY <1>4, <1>15 DEF Sums, Index
    <2> QED
        BY <2>1
<1>18. sum[n] = u[1..n]
    <2> HIDE DEF t, share, id
    <2>1. Adds(n, share, id, sum)
        BY <1>17 DEF Adds
    <2>2. n \in Nat
        BY <1>1
    <2> HIDE DEF n
    <2> QED
        BY <1>6, <1>9, <1>16, <2>1, <2>2, Summed
<1> HIDE DEF g, t
<1> QED
    BY <1>12, <1>14, <1>17, <1>18 DEF t

-----------------------------------------------------------------------------
(* Dimensions in the order of their keys.                                  *)

\* Lists numbered from 1 have their numbers as their length.
LEMMA LengthOf ==
    ASSUME NEW n \in Nat, NEW g, NEW f, f = [k \in 1..n |-> g[k]]
    PROVE  Len(f) = n /\ DOMAIN f = 1..n
<1> DEFINE S == {g[k] : k \in 1..n}
<1>1. f \in [1..n -> S]
    OBVIOUS
<1>2. f \in Seq(S)
    BY <1>1, SeqDef
<1> QED
    BY <1>1, <1>2, LenProperties

\* Keys are numbers and tell the items of a list apart.
OwnKeys(keys, n) ==
    /\ keys \in [1..n -> Int]
    /\ \A i, j \in 1..n : keys[i] = keys[j] => i = j

\* h lists g in the order of its keys, g's f[k] at k.
Sorts(g, keys, h, f, n) ==
    /\ Permutes(f, n) /\ h = [k \in 1..n |-> g[f[k]]]
    /\ \A k, l \in 1..n : k < l => keys[f[k]] < keys[f[l]]

\* Sorting by distinct keys is a permutation, in their order.
LEMMA SortingIs ==
    ASSUME NEW n \in Nat, NEW g, DOMAIN g = 1..n, NEW keys, OwnKeys(keys, n)
    PROVE  /\ Sorts(g, keys, SortByKey(g, keys), KeyOrder(keys), n)
           /\ Len(SortByKey(g, keys)) = n /\ DOMAIN SortByKey(g, keys) = 1..n
<1> DEFINE o == KeyOrder(keys)
           h == SortByKey(g, keys)
           s == [k \in 1..n |-> g[o[k]]]
<1>1. /\ keys \in [1..n -> Int]
      /\ \A i, j \in 1..n : keys[i] = keys[j] => i = j
    BY DEF OwnKeys
<1>2. /\ Permutes(o, n)
      /\ \A k, l \in 1..n : k < l => keys[o[k]] < keys[o[l]]
    BY <1>1, KeyOrderIs
<1>3. h = s
    BY DEF SortByKey
<1> HIDE DEF o, h
<1>4. s = [k \in 1..n |-> s[k]]
    OBVIOUS
<1>5. Len(s) = n /\ DOMAIN s = 1..n
    <2> HIDE DEF s
    <2> QED
        BY <1>4, LengthOf
<1>6. Sorts(g, keys, h, o, n)
    BY <1>2, <1>3 DEF Sorts
<1> QED
    BY <1>3, <1>5, <1>6 DEF h, o

\* A code as parsing makes it of a spelling.
Coded(c) == c.spelling \in DOMAIN KeyOf /\ c = Code(c.spelling)

\* A list of codes that are told apart by numbers.
CodeList(g) ==
    /\ Len(g) \in Nat \ {0} /\ DOMAIN g = 1..Len(g)
    /\ g = [j \in 1..Len(g) |-> g[j]]
    /\ \A j \in 1..Len(g) : Coded(g[j])
    /\ \A j, k \in 1..Len(g) : g[j].key = g[k].key => j = k
    /\ \A j \in 1..Len(g) : g[j].key \in Int

\* h has the items of g.
SameItems(g, h) ==
    /\ \A j \in 1..Len(g) : \E k \in 1..Len(h) : g[j] = h[k]
    /\ \A k \in 1..Len(h) : \E j \in 1..Len(g) : h[k] = g[j]

\* The categories of a dimension in the order of their keys.
SortCodes(g) == SortByKey(g, [j \in DOMAIN g |-> g[j].key])

\* Sorted categories are the same categories, in order.
LEMMA CodesSorted ==
    ASSUME NEW g, CodeList(g)
    PROVE  /\ CodeList(SortCodes(g)) /\ Len(SortCodes(g)) = Len(g)
           /\ SameItems(g, SortCodes(g)) /\ Ordered(SortCodes(g))
<1> DEFINE n == Len(g)
           keys == [j \in DOMAIN g |-> g[j].key]
           h == SortCodes(g)
           f == KeyOrder(keys)
<1>1. n \in Nat \ {0} /\ DOMAIN g = 1..n
    BY DEF CodeList
<1>2. OwnKeys(keys, n)
    BY <1>1 DEF OwnKeys, CodeList
<1>3. h = SortByKey(g, keys)
    BY DEF SortCodes
<1>4. \A j \in 1..n : keys[j] = g[j].key /\ keys[j] \in Int
    BY <1>1 DEF CodeList
<1> HIDE DEF keys, h
<1>5. Sorts(g, keys, h, f, n) /\ Len(h) = n /\ DOMAIN h = 1..n
    <2> HIDE DEF n
    <2> QED
        BY <1>1, <1>2, <1>3, SortingIs
<1> HIDE DEF f, n
<1>6. /\ f \in [1..n -> 1..n] /\ \A k \in 1..n : h[k] = g[f[k]]
      /\ \A k, l \in 1..n : k < l => keys[f[k]] < keys[f[l]]
    BY <1>5 DEF Sorts, Permutes
<1>7. \A p \in 1..n : \E i \in 1..n : f[i] = p
    <2>1. Onto(f, n)
        BY <1>1, <1>5, PermutesOnto DEF Sorts
    <2> QED
        BY <2>1 DEF Onto
<1>8. \A k, l \in 1..n : k < l => h[k].key < h[l].key
    BY <1>4, <1>6
<1>9. \A k \in 1..n : h[k].key \in Int
    BY <1>4, <1>6
<1>10. \A k, l \in 1..n : h[k].key = h[l].key => k = l
    <2> SUFFICES ASSUME NEW k \in 1..n, NEW l \in 1..n, k # l PROVE h[k].key # h[l].key
        OBVIOUS
    <2>1. k < l \/ l < k
        OBVIOUS
    <2>2. h[k].key \in Int /\ h[l].key \in Int
        BY <1>9
    <2>3. h[k].key < h[l].key \/ h[l].key < h[k].key
        BY <1>8, <2>1
    <2> QED
        BY <2>2, <2>3
<1>11. CodeList(h)
    <2>1. \A k \in 1..n : Coded(h[k])
        BY <1>6 DEF CodeList, n
    <2>2. h = [k \in 1..n |-> h[k]]
        BY <1>5 DEF Sorts
    <2> QED
        BY <1>1, <1>5, <1>9, <1>10, <2>1, <2>2 DEF CodeList
<1>12. SameItems(g, h)
    <2>1. \A j \in 1..n : \E k \in 1..n : g[j] = h[k]
        BY <1>6, <1>7
    <2>2. \A k \in 1..n : \E j \in 1..n : h[k] = g[j]
        BY <1>6
    <2> QED
        BY <1>5, <2>1, <2>2 DEF SameItems, n
<1>13. Ordered(h)
    BY <1>5, <1>8 DEF Ordered
<1> QED
    BY <1>5, <1>11, <1>12, <1>13 DEF h, n

\* Dimensions as parseDimensions returns them.
Parsed(dims) ==
    /\ WellFormed(dims)
    /\ dims = [i \in 1..Len(dims) |-> dims[i]]
    /\ \A i \in 1..Len(dims) :
          /\ Coded(dims[i].code)
          /\ dims[i] = [code |-> dims[i].code, categories |-> dims[i].categories]
          /\ dims[i].code.key \in Int
          /\ CodeList(dims[i].categories)

\* b has the dimensions of a, and each has the categories it has there.
SameDimensions(a, b) ==
    /\ Len(b) = Len(a)
    /\ \A i \in 1..Len(a) : \E p \in 1..Len(b) :
          a[i].code = b[p].code /\ SameItems(a[i].categories, b[p].categories)
    /\ \A p \in 1..Len(b) : \E i \in 1..Len(a) :
          a[i].code = b[p].code /\ SameItems(a[i].categories, b[p].categories)

\* Stored dimensions are the submitted ones, with their categories, in order
\* (remapReplacement).
LEMMA DimensionsSorted ==
    ASSUME NEW a, Parsed(a)
    PROVE  LET b == StoredDimensions(a) IN
           /\ Parsed(b) /\ SameDimensions(a, b)
           /\ Ordered([i \in DOMAIN b |-> b[i].code])
           /\ \A i \in 1..Len(b) : Ordered(b[i].categories)
<1> DEFINE n == Len(a)
           keys == [i \in DOMAIN a |-> a[i].code.key]
           sorted == [i \in DOMAIN a |->
                         [a[i] EXCEPT !.categories = SortCodes(a[i].categories)]]
           b == StoredDimensions(a)
           f == KeyOrder(keys)
<1>1. n \in Nat \ {0} /\ DOMAIN a = 1..n
    BY DEF Parsed, WellFormed
<1>2. b = SortByKey(sorted, keys)
    BY Zenon DEF StoredDimensions, SortCodes
<1>3. OwnKeys(keys, n)
    BY <1>1 DEF OwnKeys, Parsed, WellFormed
<1>4. \A i \in 1..n : keys[i] = a[i].code.key /\ keys[i] \in Int
    BY <1>1 DEF Parsed
<1>5. \A i \in 1..n : sorted[i] = [code |-> a[i].code,
                                   categories |-> SortCodes(a[i].categories)]
    <2> SUFFICES ASSUME NEW i \in 1..n
                 PROVE  [a[i] EXCEPT !.categories = SortCodes(a[i].categories)]
                            = [code |-> a[i].code, categories |-> SortCodes(a[i].categories)]
        BY <1>1
    <2>1. a[i] = [code |-> a[i].code, categories |-> a[i].categories]
        BY DEF Parsed
    <2> DEFINE x == a[i].code
               y == a[i].categories
               z == SortCodes(a[i].categories)
    <2>2. a[i] = [code |-> x, categories |-> y]
        BY <2>1
    <2> HIDE DEF x, y, z
    <2>3. [a[i] EXCEPT !.categories = z] = [code |-> x, categories |-> z]
        BY <2>2
    <2> QED
        BY <2>3 DEF x, z
<1>6. DOMAIN sorted = 1..n
    BY <1>1
<1> HIDE DEF keys, sorted, b
<1>7. Sorts(sorted, keys, b, f, n) /\ Len(b) = n /\ DOMAIN b = 1..n
    <2> HIDE DEF n
    <2> QED
        BY <1>1, <1>2, <1>3, <1>6, SortingIs
<1> HIDE DEF f, n
<1>8. /\ f \in [1..n -> 1..n] /\ \A k \in 1..n : b[k] = sorted[f[k]]
      /\ \A k, l \in 1..n : k < l => keys[f[k]] < keys[f[l]]
    BY <1>7 DEF Sorts, Permutes
<1>9. \A p \in 1..n : \E i \in 1..n : f[i] = p
    <2>1. Onto(f, n)
        BY <1>1, <1>7, PermutesOnto DEF Sorts
    <2> QED
        BY <2>1 DEF Onto
<1>10. ASSUME NEW k \in 1..n
       PROVE  /\ b[k] = [code |-> a[f[k]].code, categories |-> SortCodes(a[f[k]].categories)]
              /\ b[k].code = a[f[k]].code /\ f[k] \in 1..n
              /\ b[k].categories = SortCodes(a[f[k]].categories)
              /\ b[k].code.key \in Int /\ Coded(b[k].code)
              /\ CodeList(b[k].categories) /\ Ordered(b[k].categories)
              /\ SameItems(a[f[k]].categories, b[k].categories)
    <2>1. /\ f[k] \in 1..n
          /\ b[k] = [code |-> a[f[k]].code, categories |-> SortCodes(a[f[k]].categories)]
        BY <1>5, <1>8
    <2>2. b[k].code = a[f[k]].code /\ b[k].categories = SortCodes(a[f[k]].categories)
        BY <2>1
    <2>3. /\ CodeList(a[f[k]].categories)
          /\ a[f[k]].code.key \in Int /\ Coded(a[f[k]].code)
        BY <2>1 DEF Parsed, n
    <2> QED
        BY <2>1, <2>2, <2>3, CodesSorted
<1>11. \A k, l \in 1..n : k < l => b[k].code.key < b[l].code.key
    <2> SUFFICES ASSUME NEW k \in 1..n, NEW l \in 1..n, k < l
                 PROVE  b[k].code.key < b[l].code.key
        OBVIOUS
    <2>1. b[k].code.key = keys[f[k]] /\ b[l].code.key = keys[f[l]]
        BY <1>4, <1>10
    <2> QED
        BY <1>8, <2>1
<1>12. \A k, l \in 1..n : b[k].code.key = b[l].code.key => k = l
    <2> SUFFICES ASSUME NEW k \in 1..n, NEW l \in 1..n, k # l
                 PROVE  b[k].code.key # b[l].code.key
        OBVIOUS
    <2>1. k < l \/ l < k
        OBVIOUS
    <2>2. b[k].code.key \in Int /\ b[l].code.key \in Int
        BY <1>10
    <2>3. b[k].code.key < b[l].code.key \/ b[l].code.key < b[k].code.key
        BY <1>11, <2>1
    <2> QED
        BY <2>2, <2>3
<1>13. Parsed(b)
    <2>1. WellFormed(b)
        <3>1. \A i \in 1..n : LET g == b[i].categories IN
                  /\ Len(g) \in Nat \ {0} /\ DOMAIN g = 1..Len(g)
                  /\ \A j, k \in 1..Len(g) : g[j].key = g[k].key => j = k
            BY <1>10 DEF CodeList
        <3> QED
            BY <1>1, <1>7, <1>12, <3>1 DEF WellFormed
    <2>2. ASSUME NEW k \in 1..n
          PROVE  b[k] = [code |-> b[k].code, categories |-> b[k].categories]
        BY <1>10
    <2>3. b = [k \in 1..n |-> b[k]]
        BY <1>7 DEF Sorts
    <2> QED
        BY <1>7, <1>10, <2>1, <2>2, <2>3 DEF Parsed
<1>14. SameDimensions(a, b)
    <2>1. ASSUME NEW i \in 1..n
          PROVE  \E p \in 1..n :
                    a[i].code = b[p].code /\ SameItems(a[i].categories, b[p].categories)
        <3>1. PICK p \in 1..n : f[p] = i
            BY <1>9
        <3> QED
            BY <1>10, <3>1
    <2>2. ASSUME NEW p \in 1..n
          PROVE  \E i \in 1..n :
                    a[i].code = b[p].code /\ SameItems(a[i].categories, b[p].categories)
        BY <1>10
    <2> QED
        BY <1>7, <2>1, <2>2 DEF SameDimensions, n
<1>15. Ordered([i \in DOMAIN b |-> b[i].code])
    BY <1>7, <1>11 DEF Ordered
<1> QED
    BY <1>7, <1>10, <1>13, <1>14, <1>15 DEF b

\* The same dimensions have the same names.
LEMMA SameInside ==
    ASSUME NEW a, NEW b, Parsed(a), Parsed(b), SameDimensions(a, b)
    PROVE  Inside(a, b) /\ Inside(b, a)
<1> DEFINE Same(i, p) == a[i].code = b[p].code /\ SameItems(a[i].categories, b[p].categories)
<1>1. Len(b) = Len(a)
    BY DEF SameDimensions
<1>2. /\ \A i \in 1..Len(a) : \E p \in 1..Len(b) : Same(i, p)
      /\ \A p \in 1..Len(b) : \E i \in 1..Len(a) : Same(i, p)
    BY DEF SameDimensions
<1>3. \A i \in 1..Len(a) : \A p \in 1..Len(b) : Same(i, p) =>
          /\ Fits(a, b, i, p) /\ Fits(b, a, p, i)
    BY DEF SameItems, Fits
<1> HIDE DEF Same
<1>4. /\ \A i \in 1..Len(a) : \E p \in 1..Len(b) : Fits(a, b, i, p)
      /\ \A p \in 1..Len(b) : \E i \in 1..Len(a) : Fits(b, a, p, i)
    BY <1>2, <1>3
<1> QED
    BY <1>1, <1>4 DEF Inside, Fits

\* The same dimensions have the same spellings.
LEMMA SameCodes ==
    ASSUME NEW a, NEW b, Parsed(a), Parsed(b), SameDimensions(a, b)
    PROVE  AllCodes(a) = AllCodes(b)
<1> DEFINE Same(i, p) == a[i].code = b[p].code /\ SameItems(a[i].categories, b[p].categories)
           pair(d) == <<d.code, Codes(d)>>
<1>1. DOMAIN a = 1..Len(a) /\ DOMAIN b = 1..Len(b)
    BY DEF Parsed, WellFormed
<1>2. /\ \A i \in 1..Len(a) : \E p \in 1..Len(b) : Same(i, p)
      /\ \A p \in 1..Len(b) : \E i \in 1..Len(a) : Same(i, p)
    BY DEF SameDimensions
<1>3. ASSUME NEW i \in 1..Len(a), NEW p \in 1..Len(b), Same(i, p)
      PROVE  pair(a[i]) = pair(b[p])
    <2> DEFINE g == a[i].categories
               h == b[p].categories
    <2>1. DOMAIN g = 1..Len(g) /\ DOMAIN h = 1..Len(h) /\ SameItems(g, h)
        BY <1>3 DEF Parsed, CodeList
    <2> HIDE DEF g, h
    <2>2. ToSet(g) \subseteq ToSet(h) /\ ToSet(h) \subseteq ToSet(g)
        BY <2>1 DEF SameItems, ToSet
    <2>3. ToSet(g) = ToSet(h)
        BY <2>2
    <2>4. Codes(a[i]) = Codes(b[p]) /\ a[i].code = b[p].code
        BY <1>3, <2>3 DEF Codes, g, h
    <2> QED
        BY <2>4
<1>4. AllCodes(a) = {pair(a[i]) : i \in 1..Len(a)} /\ AllCodes(b) = {pair(b[p]) : p \in 1..Len(b)}
    <2>1. ToSet(a) = {a[i] : i \in 1..Len(a)} /\ ToSet(b) = {b[p] : p \in 1..Len(b)}
        BY <1>1 DEF ToSet
    <2> DEFINE pairs(S) == {pair(d) : d \in S}
    <2>2. AllCodes(a) = pairs(ToSet(a)) /\ AllCodes(b) = pairs(ToSet(b))
        BY DEF AllCodes
    <2> HIDE DEF pair
    <2> QED
        BY <2>1, <2>2
<1> HIDE DEF pair, Same
<1> QED
    BY <1>2, <1>3, <1>4

\* A cube whose names are those of another has as many cells.
LEMMA CountInside ==
    ASSUME NEW a, NEW b, WellFormed(a), WellFormed(b), Inside(a, b)
    PROVE  Count(a) <= Count(b)
<1> DEFINE f == [c \in Points(a) |-> Translated(a, b, c)]
<1>1. \A c \in Points(a) : Translated(a, b, c) \in Points(b)
                           /\ Name(b, Translated(a, b, c)) = Name(a, c)
    BY TranslatedIs
<1>2. ASSUME NEW c \in Points(a), NEW d \in Points(a), Translated(a, b, c) = Translated(a, b, d)
      PROVE  c = d
    <2>1. Name(a, c) \subseteq Name(a, d)
        BY <1>1, <1>2
    <2> QED
        BY <2>1, NameTells
<1>3. f \in Injection(Points(a), Points(b))
    <2>1. f \in [Points(a) -> Points(b)]
        BY <1>1
    <2>2. \A c, d \in Points(a) : f[c] = f[d] => c = d
        BY <1>2
    <2> HIDE DEF f
    <2> QED
        BY <2>1, <2>2 DEF Injection, IsInjective
<1>4. /\ IsFiniteSet(Points(a)) /\ Cardinality(Points(a)) = Count(a)
      /\ IsFiniteSet(Points(b)) /\ Cardinality(Points(b)) = Count(b)
    BY SizesShape, CoordsCount DEF Points, Count
<1> HIDE DEF f
<1>5. Cardinality(Points(a)) <= Cardinality(Points(b))
    BY <1>3, <1>4, FS_Injection
<1> QED
    BY <1>4, <1>5

-----------------------------------------------------------------------------
(* Cells that are moved keep their meaning.                                *)

\* The cells of a at their indexes in b.
Moved(cells, a, b) ==
    LET new == [i \in DOMAIN cells |-> RemapCellIndex(i, a, b)]
    IN  [n \in {new[i] : i \in DOMAIN cells} |->
            cells[CHOOSE i \in DOMAIN cells : new[i] = n]]

\* Cells moved to the indexes of their names mean what they meant.
LEMMA MovedMeans ==
    ASSUME NEW a, NEW b, WellFormed(a), WellFormed(b), Inside(a, b),
           NEW cells, DOMAIN cells \subseteq 0..(Count(a) - 1)
    PROVE  /\ DOMAIN Moved(cells, a, b) \subseteq 0..(Count(b) - 1)
           /\ \A m \in DOMAIN Moved(cells, a, b) :
                 \E i \in DOMAIN cells : Moved(cells, a, b)[m] = cells[i]
           /\ Meaning(b, Moved(cells, a, b)) = Meaning(a, cells)
<1> DEFINE D == DOMAIN cells
           new == [i \in D |-> RemapCellIndex(i, a, b)]
           moved == Moved(cells, a, b)
<1>1. ASSUME NEW i \in D
      PROVE  /\ new[i] \in 0..(Count(b) - 1)
             /\ NameAt(b, new[i]) = NameAt(a, i)
             /\ PointOf(a, i) \in Points(a) /\ Index(a, PointOf(a, i)) = i
    <2> DEFINE c == PointOf(a, i)
               t == Translated(a, b, c)
    <2>1. i \in 0..(Count(a) - 1)
        OBVIOUS
    <2>2. c \in Points(a) /\ Index(a, c) = i
        BY <2>1, PointIndex
    <2>3. new[i] = Index(b, t)
        BY <2>1, RemapIs
    <2> HIDE DEF c, new
    <2>4. t \in Points(b) /\ Name(b, t) = Name(a, c)
        BY <2>2, TranslatedIs
    <2> HIDE DEF t
    <2>5. Index(b, t) \in 0..(Count(b) - 1) /\ PointOf(b, Index(b, t)) = t
        BY <2>4, PointIndex
    <2> QED
        BY <2>2, <2>3, <2>4, <2>5 DEF NameAt, c
<1>2. ASSUME NEW i \in D, NEW j \in D, new[i] = new[j] PROVE i = j
    <2> HIDE DEF new, D
    <2>1. Name(a, PointOf(a, i)) = Name(a, PointOf(a, j))
        BY <1>1, <1>2 DEF NameAt
    <2>2. PointOf(a, i) = PointOf(a, j)
        BY <1>1, <2>1, NameTells
    <2> QED
        BY <1>1, <2>2
<1>3. moved = [n \in {new[i] : i \in D} |-> cells[CHOOSE i \in D : new[i] = n]]
    BY Zenon DEF Moved
<1> HIDE DEF moved, new
<1>4. DOMAIN moved = {new[i] : i \in D}
    BY <1>3
<1>5. ASSUME NEW i \in D PROVE moved[new[i]] = cells[i] /\ new[i] \in DOMAIN moved
    <2>1. (CHOOSE j \in D : new[j] = new[i]) = i
        BY <1>2
    <2> QED
        BY <1>3, <2>1
<1>6. DOMAIN moved \subseteq 0..(Count(b) - 1)
    BY <1>1, <1>4
<1>7. \A m \in DOMAIN moved : \E i \in D : moved[m] = cells[i]
    BY <1>4, <1>5
<1>8. Meaning(b, moved) = {<<NameAt(b, m), moved[m]>> : m \in DOMAIN moved}
    BY <1>6, MeaningIs
<1>9. Meaning(a, cells) = {<<NameAt(a, i), cells[i]>> : i \in D}
    BY MeaningIs
<1>10. ASSUME NEW x \in Meaning(b, moved) PROVE x \in Meaning(a, cells)
    <2>1. PICK m \in DOMAIN moved : x = <<NameAt(b, m), moved[m]>>
        BY <1>8
    <2>2. PICK i \in D : m = new[i]
        BY <1>4
    <2> HIDE DEF D
    <2> QED
        BY <1>1, <1>5, <1>9, <2>1, <2>2
<1>11. ASSUME NEW x \in Meaning(a, cells) PROVE x \in Meaning(b, moved)
    <2>1. PICK i \in D : x = <<NameAt(a, i), cells[i]>>
        BY <1>9
    <2>2. x = <<NameAt(b, new[i]), moved[new[i]]>> /\ new[i] \in DOMAIN moved
        BY <1>1, <1>5, <2>1
    <2> HIDE DEF D
    <2> QED
        BY <1>8, <2>2
<1>12. Meaning(b, moved) = Meaning(a, cells)
    BY <1>10, <1>11
<1> QED
    BY <1>6, <1>7, <1>12 DEF moved

-----------------------------------------------------------------------------
(* What parsing makes of the dimensions of a body.                         *)

\* As many numbers as there are places leave no place out.
LEMMA FillsUp ==
    ASSUME NEW f, IsFiniteSet(DOMAIN f), \A s, t \in DOMAIN f : f[s] = f[t] => s = t,
           \A s \in DOMAIN f : f[s] \in 0..(Cardinality(DOMAIN f) - 1)
    PROVE  \A j \in 0..(Cardinality(DOMAIN f) - 1) : \E s \in DOMAIN f : f[s] = j
<1> DEFINE S == DOMAIN f
           m == Cardinality(S)
           g == [s \in S |-> f[s]]
<1>1. m \in Nat
    BY FS_CardinalityType
<1>2. IsFiniteSet(0..(m - 1)) /\ Cardinality(0..(m - 1)) = m
    BY <1>1, FS_Interval
<1>3. g \in Injection(S, 0..(m - 1))
    BY DEF Injection, IsInjective
<1>4. g \in Surjection(S, 0..(m - 1))
    <2> HIDE DEF g, m
    <2>1. Cardinality(S) = Cardinality(0..(m - 1))
        BY <1>2 DEF m
    <2> QED
        BY <1>2, <1>3, <2>1, FS_Injection
<1> QED
    BY <1>4 DEF Surjection

\* The codes of an object's members by position.
ByPosition(index) ==
    [j \in 1..Cardinality(DOMAIN index) |->
        Code(CHOOSE c \in DOMAIN index : index[c] = j - 1)]

\* Categories that parseCategories accepts are listed by their positions.
LEMMA PositionsAre ==
    ASSUME NEW index, ValidCategories(index), IsFiniteSet(DOMAIN index),
           DOMAIN index \subseteq DOMAIN KeyOf
    PROVE  /\ CodeList(ByPosition(index))
           /\ Len(ByPosition(index)) = Cardinality(DOMAIN index)
           /\ \A c \in DOMAIN index : ByPosition(index)[index[c] + 1] = Code(c)
           /\ \A j \in 1..Len(ByPosition(index)) : \E c \in DOMAIN index :
                 index[c] = j - 1 /\ ByPosition(index)[j] = Code(c)
<1> DEFINE S == DOMAIN index
           m == Cardinality(S)
           at(j) == CHOOSE c \in DOMAIN index : index[c] = j - 1
           g == ByPosition(index)
<1>1. /\ S # {} /\ Distinct(S) /\ \A s, t \in S : index[s] = index[t] => s = t
      /\ \A s \in S : index[s] \in 0..(m - 1)
    BY DEF ValidCategories
<1>2. m \in Nat /\ m # 0
    BY <1>1, FS_CardinalityType, FS_EmptySet
<1>3. \A j \in 0..(m - 1) : \E s \in S : index[s] = j
    BY <1>1, FillsUp
<1>4. ASSUME NEW j \in 1..m PROVE at(j) \in S /\ index[at(j)] = j - 1
    <2>1. j - 1 \in 0..(m - 1)
        BY <1>2
    <2>2. \E s \in S : index[s] = j - 1
        BY <1>3, <2>1
    <2> QED
        BY <2>2
<1>5. g = [j \in 1..m |-> Code(at(j))]
    BY DEF ByPosition
<1> HIDE DEF m, at, g
<1>6. g = [j \in 1..m |-> g[j]]
    BY <1>5
<1>7. Len(g) = m /\ DOMAIN g = 1..m
    BY <1>2, <1>6, LengthOf
<1>8. ASSUME NEW j \in 1..m PROVE g[j] = Code(at(j)) /\ g[j].key = KeyOf[at(j)] /\ Coded(g[j])
    <2>1. g[j] = Code(at(j)) /\ at(j) \in DOMAIN KeyOf
        BY <1>4, <1>5
    <2> QED
        BY <2>1 DEF Code, Coded
<1>9. \A j \in 1..m : g[j].key \in Int
    BY <1>4, <1>8, CodeAssumption
<1>10. ASSUME NEW j \in 1..m, NEW k \in 1..m, g[j].key = g[k].key PROVE j = k
    <2>1. KeyOf[at(j)] = KeyOf[at(k)] /\ at(j) \in S /\ at(k) \in S
        BY <1>4, <1>8, <1>10
    <2>2. at(j) = at(k)
        BY <1>1, <2>1 DEF Distinct
    <2>3. j - 1 = k - 1
        BY <1>4, <2>2
    <2> QED
        BY <2>3
<1>11. CodeList(g)
    BY <1>2, <1>6, <1>7, <1>8, <1>9, <1>10 DEF CodeList
<1>12. ASSUME NEW c \in S PROVE g[index[c] + 1] = Code(c)
    <2>1. index[c] \in 0..(m - 1)
        BY <1>1 DEF m
    <2>2. index[c] + 1 \in 1..m /\ (index[c] + 1) - 1 = index[c]
        BY <1>2, <2>1
    <2>3. index[at(index[c] + 1)] = index[c] /\ at(index[c] + 1) \in S
        BY <1>4, <2>2
    <2>4. at(index[c] + 1) = c
        BY <1>1, <2>3
    <2> QED
        BY <1>8, <2>2, <2>4
<1>13. \A j \in 1..m : \E c \in S : index[c] = j - 1 /\ g[j] = Code(c)
    BY <1>4, <1>8
<1> QED
    BY <1>7, <1>11, <1>12, <1>13 DEF g, m

\* The spelling of the dimension object for the i-th dimension.
Spelling(p, i) == CHOOSE t \in DOMAIN p.dimension : KeyOf[t] = KeyOf[p.id[i]]

\* A dimension that is accepted has an object, found by its key.
LEMMA SpellingIs ==
    ASSUME NEW p, ValidDimensions(p), NEW i \in DOMAIN p.id
    PROVE  /\ Spelling(p, i) \in DOMAIN p.dimension
           /\ KeyOf[Spelling(p, i)] = KeyOf[p.id[i]]
           /\ ValidCategories(p.dimension[Spelling(p, i)])
<1>1. PICK s \in DOMAIN p.dimension : KeyOf[s] = KeyOf[p.id[i]] /\ ValidCategories(p.dimension[s])
    BY DEF ValidDimensions
<1>2. Spelling(p, i) \in DOMAIN p.dimension /\ KeyOf[Spelling(p, i)] = KeyOf[p.id[i]]
    BY <1>1 DEF Spelling
<1>3. Spelling(p, i) = s
    BY <1>1, <1>2 DEF ValidDimensions, Distinct
<1> QED
    BY <1>1, <1>2, <1>3

\* The dimensions that parseRequestDimensions accepts are told apart by their
\* keys, and so are their categories.
LEMMA RequestIs ==
    ASSUME NEW p, DecodedDimensions(p), ValidDimensions(p)
    PROVE  /\ Parsed(RequestDimensions(p))
           /\ Len(RequestDimensions(p)) = Len(p.id)
           /\ \A i \in 1..Len(p.id) :
                 RequestDimensions(p)[i] = [code |-> Code(Spelling(p, i)),
                                            categories |-> ByPosition(p.dimension[Spelling(p, i)])]
<1> DEFINE n == Len(p.id)
           r == RequestDimensions(p)
           item(i) == [code |-> Code(Spelling(p, i)),
                       categories |-> ByPosition(p.dimension[Spelling(p, i)])]
<1>1. n \in Nat \ {0} /\ DOMAIN p.id = 1..n
    <2>1. p.id \in Seq(DOMAIN KeyOf) /\ n \in 1..MaxDimensions
        BY DEF DecodedDimensions, ValidDimensions
    <2>2. n \in Nat /\ DOMAIN p.id = 1..n
        BY <2>1, LenProperties
    <2>3. n >= 1
        BY <2>1
    <2> QED
        BY <2>2, <2>3
<1>2. r = [i \in 1..n |-> item(i)]
    <2>1. r = [i \in DOMAIN p.id |-> item(i)]
        BY Zenon DEF RequestDimensions, Spelling, ByPosition
    <2> QED
        BY <1>1, <2>1
<1>3. ASSUME NEW i \in 1..n
      PROVE  /\ CodeList(item(i).categories)
             /\ item(i).code.key = KeyOf[p.id[i]] /\ KeyOf[p.id[i]] \in Int
             /\ Coded(item(i).code)
             /\ item(i) = [code |-> item(i).code, categories |-> item(i).categories]
    <2> DEFINE s == Spelling(p, i)
    <2>1. /\ s \in DOMAIN p.dimension /\ KeyOf[s] = KeyOf[p.id[i]]
          /\ ValidCategories(p.dimension[s])
        BY <1>1, SpellingIs
    <2> HIDE DEF s
    <2>2. /\ IsFiniteSet(DOMAIN p.dimension[s]) /\ DOMAIN p.dimension[s] \subseteq DOMAIN KeyOf
          /\ s \in DOMAIN KeyOf
        BY <2>1 DEF DecodedDimensions
    <2>3. CodeList(ByPosition(p.dimension[s]))
        BY <2>1, <2>2, PositionsAre
    <2>4. KeyOf[s] \in Int
        BY <2>2, CodeAssumption
    <2> QED
        BY <2>1, <2>2, <2>3, <2>4 DEF Code, Coded, s
<1> HIDE DEF item, r
<1>4. r = [i \in 1..n |-> r[i]] /\ \A i \in 1..n : r[i] = item(i)
    BY <1>2
<1>5. Len(r) = n /\ DOMAIN r = 1..n
    BY <1>1, <1>4, LengthOf
<1>6. WellFormed(r)
    <2>1. ASSUME NEW i \in 1..n, NEW j \in 1..n, r[i].code.key = r[j].code.key PROVE i = j
        <3>1. KeyOf[p.id[i]] = KeyOf[p.id[j]]
            BY <1>3, <1>4, <2>1
        <3> QED
            BY <1>1, <3>1 DEF ValidDimensions
    <2>2. \A i \in 1..n : CodeList(r[i].categories)
        BY <1>3, <1>4
    <2> QED
        BY <1>1, <1>5, <2>1, <2>2 DEF WellFormed, CodeList
<1>7. Parsed(r)
    BY <1>3, <1>4, <1>5, <1>6 DEF Parsed
<1> QED
    BY <1>4, <1>5, <1>7 DEF r, item

-----------------------------------------------------------------------------
(* What parsing makes of a submission.                                     *)

\* A shape is a sequence of numbers.
LEMMA ShapeIsSeq == ASSUME NEW s \in Shapes PROVE s \in Seq(Nat) /\ s # <<>>
<1>1. s \in Seq(Nat \ {0}) /\ s # <<>>
    BY DEF Shapes
<1>2. Len(s) \in Nat /\ s \in [1..Len(s) -> Nat \ {0}]
    BY <1>1, LenProperties
<1>3. s \in [1..Len(s) -> Nat]
    BY <1>2
<1> QED
    BY <1>1, <1>2, <1>3, SeqDef

\* A shape has at least one cell.
LEMMA ShapeHasCells == ASSUME NEW s \in Shapes PROVE Product(s) \in Nat \ {0}
<1> DEFINE c == [i \in 1..Len(s) |-> 0]
<1>1. \A i \in 1..Len(s) : s[i] \in Nat \ {0}
    BY ShapeType
<1>2. c \in Coords(s)
    BY <1>1 DEF Coords
<1> HIDE DEF c
<1>3. CellIndex(c, Strides(s)) \in 0..(Product(s) - 1) /\ Product(s) \in Nat
    BY <1>2, IndexInside
<1> QED
    BY <1>3

\* An accepted submission, by its parts.
Accepted(p) ==
    /\ DecodedDimensions(p)
    /\ ParseReplacement(p).error = "none"

\* What ParseReplacement makes of a submission that it accepts.
LEMMA AcceptedIs ==
    ASSUME NEW p, Accepted(p)
    PROVE  LET a == RequestDimensions(p)
               cells == RequestCells(p, Count(a))
               d == ParseReplacement(p).dataset
           IN  /\ ValidDimensions(p) /\ Parsed(a) /\ ValidChannels(p, Count(a))
               /\ Count(a) \in 1..MaxCells
               /\ d.dimensions = StoredDimensions(a)
               /\ d.cells = Moved(cells, a, StoredDimensions(a))
               /\ d.cellCount = Count(a)
               /\ d.valuedCount = Cardinality({i \in DOMAIN cells :
                     cells[i].numeric # "none" \/ cells[i].text # "none"})
<1> DEFINE a == RequestDimensions(p)
           checked == CheckedProduct(Sizes(a), MaxCells)
           cells == RequestCells(p, checked.count)
           stored_ == Remap(a, cells)
           d == [dimensions |-> stored_.dimensions, cells |-> stored_.cells,
                 cellCount |-> checked.count,
                 valuedCount |-> Cardinality({i \in DOMAIN cells :
                     cells[i].numeric # "none" \/ cells[i].text # "none"})]
           refuse(e) == [error |-> e, dataset |-> NoDataset]
           good == ValidDimensions(p) /\ checked.error = "none" /\ ValidChannels(p, checked.count)
<1>1. ParseReplacement(p) =
         CASE ~ValidDimensions(p) -> refuse("validation_failed")
           [] ValidDimensions(p) /\ checked.error = "limit" ->
                 refuse("cell_limit_exceeded")
           [] good -> [error |-> "none", dataset |-> d]
           [] OTHER -> refuse("validation_failed")
    BY Zenon DEF ParseReplacement
<1>2. ParseReplacement(p).error = "none"
    BY DEF Accepted
<1> DEFINE invalid == refuse("validation_failed")
           large == refuse("cell_limit_exceeded")
           accepted == [error |-> "none", dataset |-> d]
<1>11. /\ invalid.error # "none" /\ large.error # "none"
       /\ good => ValidDimensions(p) /\ checked.error # "limit"
    OBVIOUS
<1>12. ParseReplacement(p) =
         CASE ~ValidDimensions(p) -> invalid
           [] ValidDimensions(p) /\ checked.error = "limit" -> large
           [] good -> accepted
           [] OTHER -> invalid
    BY <1>1, Zenon
<1> HIDE DEF checked, d, good, invalid, large, accepted
<1>3. ValidDimensions(p)
    BY <1>2, <1>11, <1>12
<1>4. checked.error # "limit"
    BY <1>2, <1>3, <1>11, <1>12
<1>5. good
    BY <1>2, <1>3, <1>4, <1>11, <1>12
<1>6. ParseReplacement(p) = [error |-> "none", dataset |-> d]
    BY <1>3, <1>4, <1>5, <1>12 DEF accepted
<1>7. Parsed(a)
    BY <1>3, RequestIs DEF Accepted
<1>8. Sizes(a) \in Shapes /\ MaxCells \in 1..MaxInt /\ checked.error = "none"
    <2>1. WellFormed(a)
        BY <1>7 DEF Parsed
    <2> HIDE DEF a
    <2>2. MaxCells \in 1..MaxInt
        BY LimitAssumption, MaxIntAssumption
    <2> QED
        BY <1>5, <2>1, <2>2, SizesShape DEF good
<1>9. checked.count = Count(a) /\ Count(a) \in 1..MaxCells
    <2> HIDE DEF a
    <2>1. Sizes(a) \in Seq(Nat) /\ Sizes(a) # <<>>
        BY <1>8, ShapeIsSeq
    <2>2. checked.count = Product(Sizes(a)) /\ Product(Sizes(a)) <= MaxCells /\ Product(Sizes(a)) \in Nat
        BY <1>8, <2>1, ProductDecides DEF checked
    <2>3. Product(Sizes(a)) # 0
        BY <1>8, ShapeHasCells
    <2>4. MaxCells \in Int
        BY <1>8
    <2> QED
        BY <2>2, <2>3, <2>4 DEF Count
<1>10. /\ ParseReplacement(p).dataset = d
      /\ d.dimensions = StoredDimensions(a) /\ d.cells = Moved(cells, a, StoredDimensions(a))
      /\ d.cellCount = checked.count
      /\ d.valuedCount = Cardinality({i \in DOMAIN cells :
                     cells[i].numeric # "none" \/ cells[i].text # "none"})
    <2>1. ParseReplacement(p).dataset = d
        BY <1>6
    <2>2. /\ stored_.dimensions = StoredDimensions(a)
          /\ stored_.cells = Moved(cells, a, StoredDimensions(a))
        <3> HIDE DEF a, cells
        <3> QED
            BY DEF Remap, Moved
    <2> HIDE DEF a, cells, stored_
    <2> QED
        BY <2>1, <2>2 DEF d
<1> QED
    BY <1>3, <1>5, <1>7, <1>9, <1>10 DEF good

\* The value a channel gives a cell, and what is told of a cell.
GivenAt(ch, i) == {g[2] : g \in {h \in Given(ch) : h[1] = i}}
\* The value in a set that has at most one.
OnlyOf(S) == IF S = {} THEN "none" ELSE CHOOSE v \in S : TRUE
\* The status of a cell, shared or its own.
StatusAt(p, i) ==
    IF p.status.form = "scalar" THEN p.status.entries[1] ELSE OnlyOf(GivenAt(p.status, i))
\* A cell of a submission.
CellAt(p, i) == [numeric |-> OnlyOf(GivenAt(p.value, i)), text |-> OnlyOf(GivenAt(p.text, i)),
                 status |-> StatusAt(p, i)]

\* The cells of a submission are those that have content.
LEMMA RequestCellsAre ==
    ASSUME NEW p, NEW count
    PROVE  RequestCells(p, count)
               = [i \in {j \in 0..(count - 1) : CellAt(p, j) # Empty} |-> CellAt(p, i)]
BY Zenon DEF RequestCells, CellAt, StatusAt, OnlyOf, GivenAt

\* Cells that are kept have content, and not both a number and a text.
LEMMA CellsHaveContent ==
    ASSUME NEW p, NEW count, ValidChannels(p, count), NEW i \in DOMAIN RequestCells(p, count)
    PROVE  LET c == RequestCells(p, count)[i] IN
           i \in 0..(count - 1) /\ c # Empty /\ (c.numeric = "none" \/ c.text = "none")
<1> DEFINE c == CellAt(p, i)
<1>1. i \in 0..(count - 1) /\ c # Empty /\ RequestCells(p, count)[i] = c
    <2> HIDE DEF c
    <2>1. i \in {j \in 0..(count - 1) : CellAt(p, j) # Empty}
        BY RequestCellsAre
    <2>2. RequestCells(p, count)[i] = CellAt(p, i)
        BY <2>1, RequestCellsAre
    <2> QED
        BY <2>1, <2>2 DEF c
<1>2. c.numeric = OnlyOf(GivenAt(p.value, i)) /\ c.text = OnlyOf(GivenAt(p.text, i))
    BY DEF CellAt
<1>3. GivenAt(p.value, i) = {} \/ GivenAt(p.text, i) = {}
    <2>1. \A v \in Given(p.value), t \in Given(p.text) : v[1] # t[1]
        BY DEF ValidChannels
    <2> QED
        BY <2>1 DEF GivenAt
<1> HIDE DEF c
<1>4. c.numeric = "none" \/ c.text = "none"
    BY <1>2, <1>3 DEF OnlyOf
<1> QED
    BY <1>1, <1>4

\* An accepted submission is stored under its own names.
LEMMA AcceptedMeans ==
    ASSUME NEW p, Accepted(p)
    PROVE  LET a == RequestDimensions(p)
               d == ParseReplacement(p).dataset
           IN  /\ Parsed(d.dimensions) /\ SameDimensions(a, d.dimensions)
               /\ Parsed(a) /\ Count(d.dimensions) = Count(a)
               /\ d.cellCount = Count(a)
               /\ DOMAIN d.cells \subseteq 0..(Count(a) - 1)
               /\ Meaning(d.dimensions, d.cells) = Meaning(a, RequestCells(p, Count(a)))
               /\ Ordered([i \in DOMAIN d.dimensions |-> d.dimensions[i].code])
               /\ \A e \in ToSet(d.dimensions) : Ordered(e.categories)
<1> DEFINE a == RequestDimensions(p)
           d == ParseReplacement(p).dataset
           b == StoredDimensions(a)
           cells == RequestCells(p, Count(a))
<1>1. /\ Parsed(a) /\ d.dimensions = b /\ d.cells = Moved(cells, a, b)
      /\ d.cellCount = Count(a)
    BY AcceptedIs
<1> HIDE DEF a, d
<1>2. /\ Parsed(b) /\ SameDimensions(a, b)
      /\ Ordered([i \in DOMAIN b |-> b[i].code])
      /\ \A i \in 1..Len(b) : Ordered(b[i].categories)
    BY <1>1, DimensionsSorted
<1> HIDE DEF b
<1>3. Inside(a, b) /\ Inside(b, a) /\ WellFormed(a) /\ WellFormed(b)
    BY <1>1, <1>2, SameInside DEF Parsed
<1>4. Count(a) = Count(b)
    <2>1. Count(a) <= Count(b) /\ Count(b) <= Count(a) /\ Count(a) \in Nat /\ Count(b) \in Nat
        BY <1>3, CountInside, PointIndex
    <2> QED
        BY <2>1
<1>5. DOMAIN cells \subseteq 0..(Count(a) - 1)
    BY RequestCellsAre
<1> HIDE DEF cells
<1>6. /\ DOMAIN Moved(cells, a, b) \subseteq 0..(Count(b) - 1)
      /\ Meaning(b, Moved(cells, a, b)) = Meaning(a, cells)
    BY <1>3, <1>5, MovedMeans
<1>7. \A e \in ToSet(b) : Ordered(e.categories)
    <2>1. DOMAIN b = 1..Len(b)
        BY <1>3 DEF WellFormed
    <2> QED
        BY <1>2, <2>1 DEF ToSet
<1> QED
    BY <1>1, <1>2, <1>4, <1>6, <1>7 DEF a, d, cells

\* A refused submission leaves no dataset.
LEMMA RefusedIs ==
    ASSUME NEW p, ParseReplacement(p).error # "none"
    PROVE  ParseReplacement(p).dataset = NoDataset
<1> DEFINE a == RequestDimensions(p)
           checked == CheckedProduct(Sizes(a), MaxCells)
           cells == RequestCells(p, checked.count)
           stored_ == Remap(a, cells)
           d == [dimensions |-> stored_.dimensions, cells |-> stored_.cells,
                 cellCount |-> checked.count,
                 valuedCount |-> Cardinality({i \in DOMAIN cells :
                     cells[i].numeric # "none" \/ cells[i].text # "none"})]
           refuse(e) == [error |-> e, dataset |-> NoDataset]
           good == ValidDimensions(p) /\ checked.error = "none" /\ ValidChannels(p, checked.count)
           invalid == refuse("validation_failed")
           large == refuse("cell_limit_exceeded")
           accepted == [error |-> "none", dataset |-> d]
<1>1. ParseReplacement(p) =
         CASE ~ValidDimensions(p) -> invalid
           [] ValidDimensions(p) /\ checked.error = "limit" -> large
           [] good -> accepted
           [] OTHER -> invalid
    BY Zenon DEF ParseReplacement
<1>2. /\ invalid.dataset = NoDataset /\ large.dataset = NoDataset /\ accepted.error = "none"
      /\ good => ValidDimensions(p) /\ checked.error # "limit"
    OBVIOUS
<1> HIDE DEF checked, d, good, invalid, large, accepted
<1> QED
    BY <1>1, <1>2

-----------------------------------------------------------------------------
(* What is stored is what parsing the submission made of it.               *)

\* The dataset that is stored is the one that parsing made of the body.
Kept ==
    /\ body \in Body
    /\ stored # NoDataset =>
          stored = ParseReplacement(body).dataset /\ ParseReplacement(body).error = "none"

\* Nothing is stored at first.
LEMMA KeptInit == Init => Kept
BY DEF Init, Kept

\* Only Replace stores, and it stores what it parsed.
LEMMA KeptNext == Kept /\ [Next]_vars => Kept'
<1> SUFFICES ASSUME Kept, [Next]_vars PROVE Kept'
    OBVIOUS
<1>1. CASE Replace
    <2>1. stored' = ParseReplacement(body).dataset /\ body' = body
        BY <1>1 DEF Replace
    <2>2. ParseReplacement(body).error # "none" => stored' = NoDataset
        BY <2>1, RefusedIs
    <2> QED
        BY <2>1, <2>2 DEF Kept
<1>2. ASSUME NEW format, GetData(format) PROVE Kept'
    BY <1>2 DEF GetData, Kept
<1>3. ASSUME NEW format, NEW q, Query(q, format) PROVE Kept'
    BY <1>3 DEF Query, Kept
<1>4. CASE UNCHANGED vars
    BY <1>4 DEF vars, Kept
<1> QED
    BY <1>1, <1>2, <1>3, <1>4 DEF Next

\* Kept is an invariant.
LEMMA AlwaysKept == Spec => []Kept
BY KeptInit, KeptNext, PTL DEF Spec

\* What is stored was accepted.
LEMMA KeptAccepted == Kept /\ stored # NoDataset => Accepted(body) /\ stored = ParseReplacement(body).dataset
BY BodyAssumption DEF Kept, Accepted

\* What is stored has the meaning, the spellings and the order it should.
LEMMA KeptAsSubmitted == Kept => StoredAsSubmitted
<1> SUFFICES ASSUME Kept, stored # NoDataset PROVE StoredAsSubmitted
    BY DEF StoredAsSubmitted
<1> DEFINE a == RequestDimensions(body)
<1>1. Accepted(body) /\ stored = ParseReplacement(body).dataset
    BY KeptAccepted
<1>2. /\ Parsed(stored.dimensions) /\ SameDimensions(a, stored.dimensions) /\ Parsed(a)
      /\ stored.cellCount = Count(a)
      /\ Meaning(stored.dimensions, stored.cells) = Meaning(a, RequestCells(body, Count(a)))
      /\ Ordered([i \in DOMAIN stored.dimensions |-> stored.dimensions[i].code])
      /\ \A e \in ToSet(stored.dimensions) : Ordered(e.categories)
    BY <1>1, AcceptedMeans
<1>3. AllCodes(stored.dimensions) = AllCodes(a)
    BY <1>2, SameCodes
<1> QED
    BY <1>2, <1>3 DEF StoredAsSubmitted

\* Every value, text and status that a client submits is stored under the
\* names it was submitted for, in whatever order it lists dimensions and
\* categories, and they are stored in the order of their keys with their
\* spellings (remapReplacement, remapCellIndex).
THEOREM KeepsMeaning == Spec => []StoredAsSubmitted
BY AlwaysKept, KeptAsSubmitted, PTL

\* What is stored has the counts and cells that the tables check.
LEMMA KeptSatisfiesChecks == Kept => RowsSatisfyChecks
<1> SUFFICES ASSUME Kept, stored # NoDataset PROVE RowsSatisfyChecks
    BY DEF RowsSatisfyChecks
<1> DEFINE a == RequestDimensions(body)
           b == stored.dimensions
           count == Count(a)
           cells == RequestCells(body, count)
           valued == {i \in DOMAIN cells :
                         cells[i].numeric # "none" \/ cells[i].text # "none"}
<1>1. Accepted(body) /\ stored = ParseReplacement(body).dataset
    BY KeptAccepted
<1>2. /\ Parsed(b) /\ SameDimensions(a, b) /\ Parsed(a) /\ Count(b) = count
      /\ stored.cellCount = count
      /\ DOMAIN stored.cells \subseteq 0..(count - 1)
    BY <1>1, AcceptedMeans
<1>3. /\ ValidChannels(body, count) /\ count \in 1..MaxCells /\ b = StoredDimensions(a)
      /\ stored.cells = Moved(cells, a, b) /\ stored.valuedCount = Cardinality(valued)
    BY <1>1, AcceptedIs
<1> HIDE DEF a, b, count
<1>4. DOMAIN cells \subseteq 0..(count - 1)
    BY RequestCellsAre
<1>5. \A i \in DOMAIN cells : cells[i] # Empty /\ (cells[i].numeric = "none" \/ cells[i].text = "none")
    BY <1>3, CellsHaveContent
<1> HIDE DEF cells
<1>6. count \in Nat /\ MaxCells \in Int
    BY <1>3, LimitAssumption, MaxIntAssumption
<1>7. stored.valuedCount \in 0..count
    <2>1. valued \in SUBSET (0..(count - 1))
        BY <1>4
    <2> HIDE DEF valued
    <2>2. IsFiniteSet(0..(count - 1)) /\ Cardinality(0..(count - 1)) = count
        BY <1>6, FS_Interval
    <2>3. IsFiniteSet(valued) /\ Cardinality(valued) <= count
        BY <2>1, <2>2, FS_Subset
    <2>4. Cardinality(valued) \in Nat
        BY <2>3, FS_CardinalityType
    <2> QED
        BY <1>3, <1>6, <2>3, <2>4
<1>8. \A m \in DOMAIN stored.cells : \E i \in DOMAIN cells : stored.cells[m] = cells[i]
    <2>1. Inside(a, b) /\ WellFormed(a) /\ WellFormed(b)
        BY <1>2, SameInside DEF Parsed
    <2>2. DOMAIN cells \subseteq 0..(Count(a) - 1)
        BY <1>4 DEF count
    <2>3. \A m \in DOMAIN Moved(cells, a, b) :
              \E i \in DOMAIN cells : Moved(cells, a, b)[m] = cells[i]
        BY <2>1, <2>2, MovedMeans
    <2> QED
        BY <1>3, <2>3
<1>9. count = Cardinality(Vectors(Sizes(b)))
    <2>1. Sizes(b) \in Shapes
        BY <1>2, SizesShape DEF Parsed
    <2>2. Cardinality(Vectors(Sizes(b))) = Product(Sizes(b))
        BY <2>1, VectorsAre, CoordsCount
    <2> QED
        BY <1>2, <2>2 DEF Count
<1>10. ASSUME NEW m \in DOMAIN stored.cells
       PROVE  /\ m \in 0..(count - 1) /\ stored.cells[m] # Empty
              /\ stored.cells[m].numeric = "none" \/ stored.cells[m].text = "none"
    BY <1>2, <1>5, <1>8
<1> QED
    BY <1>2, <1>3, <1>7, <1>9, <1>10 DEF RowsSatisfyChecks, b

\* A submission that is accepted never meets a check constraint of the tables:
\* the cached counts are within their ranges, cells lie in the cube, have
\* content, and not both a number and a text (ParseReplacement).
THEOREM SatisfiesChecks == Spec => []RowsSatisfyChecks
BY AlwaysKept, KeptSatisfiesChecks, PTL

-----------------------------------------------------------------------------
(* What a query selects.                                                   *)

\* A selection that resolves has the names of stored dimensions.
LEMMA SelectableInside ==
    ASSUME NEW a, NEW b, Parsed(a), Parsed(b), Selectable(a, b)
    PROVE  Inside(a, b)
<1>1. DOMAIN a = 1..Len(a) /\ DOMAIN b = 1..Len(b) /\ Len(a) = Len(b)
    BY DEF Parsed, WellFormed, Selectable
<1>2. ASSUME NEW i \in 1..Len(a) PROVE \E p \in 1..Len(b) : Fits(a, b, i, p)
    <2>1. PICK p \in 1..Len(b) : /\ b[p].code.key = a[i].code.key
                                 /\ Keys(Codes(a[i])) \subseteq Keys(Codes(b[p]))
        BY <1>1 DEF Selectable, ToSet
    <2>2. /\ DOMAIN a[i].categories = 1..Len(a[i].categories)
          /\ DOMAIN b[p].categories = 1..Len(b[p].categories)
        BY DEF Parsed, CodeList
    <2>3. ASSUME NEW j \in 1..Len(a[i].categories)
          PROVE  \E k \in 1..Len(b[p].categories) :
                    a[i].categories[j].key = b[p].categories[k].key
        <3>1. a[i].categories[j].key \in Keys(Codes(a[i]))
            BY <2>2 DEF Keys, Codes, ToSet
        <3>2. a[i].categories[j].key \in Keys(Codes(b[p]))
            BY <2>1, <3>1
        <3> QED
            BY <2>2, <3>2 DEF Keys, Codes, ToSet
    <2> QED
        BY <2>1, <2>3 DEF Fits
<1> QED
    BY <1>1, <1>2 DEF Inside, Fits

\* d is the stored dimension y, with the categories that x names.
Named(x, y, d) ==
    /\ d.code = y.code /\ y.code.key = x.code.key
    /\ Len(d.categories) = Len(x.categories)
    /\ \A j \in 1..Len(x.categories) : \E k \in 1..Len(y.categories) :
          /\ d.categories[j] = y.categories[k]
          /\ y.categories[k].key = x.categories[j].key

\* The dimensions of o have the names of a's and the codes of b's.
Chosen(a, b, o) ==
    /\ Len(o) = Len(a)
    /\ \A i \in 1..Len(a) : \E p \in 1..Len(b) : Named(a[i], b[p], o[i])

\* They have the keys of a's.
SameKeys(x, d) ==
    /\ d.code.key = x.code.key /\ Len(d.categories) = Len(x.categories)
    /\ \A j \in 1..Len(x.categories) : d.categories[j].key = x.categories[j].key

\* A selected dimension has the keys that the selection names.
LEMMA ChosenKeys ==
    ASSUME NEW a, NEW b, NEW o, Chosen(a, b, o), NEW i \in 1..Len(a)
    PROVE  SameKeys(a[i], o[i])
<1>1. PICK p \in 1..Len(b) : Named(a[i], b[p], o[i])
    BY DEF Chosen
<1> QED
    BY <1>1 DEF Named, SameKeys

\* The dimensions ResolveSelection returns are those of the selection, as they
\* are stored.
LEMMA SelectedIs ==
    ASSUME NEW a, NEW b, Parsed(a), Parsed(b), Selectable(a, b)
    PROVE  /\ Parsed(Selected(a, b)) /\ Inside(Selected(a, b), b)
           /\ Chosen(a, b, Selected(a, b))
<1> DEFINE n == Len(a)
           o == Selected(a, b)
           list(i) == [j \in 1..Len(a[i].categories) |->
               b[PlaceOf(b, a[i].code.key)].categories
                   [PositionOf(b[PlaceOf(b, a[i].code.key)], a[i].categories[j].key) + 1]]
           item(i) == [code |-> b[PlaceOf(b, a[i].code.key)].code, categories |-> list(i)]
<1>1. /\ n \in Nat \ {0} /\ DOMAIN a = 1..n /\ Len(b) = n /\ DOMAIN b = 1..n
      /\ \A i \in 1..n : DOMAIN a[i].categories = 1..Len(a[i].categories)
    BY DEF Parsed, WellFormed, Selectable
<1>2. Inside(a, b) /\ WellFormed(a) /\ WellFormed(b)
    BY SelectableInside DEF Parsed
<1>3. o = [i \in 1..n |-> item(i)]
    BY <1>1 DEF Selected
<1>4. ASSUME NEW i \in 1..n
      PROVE  \E p \in 1..n :
                /\ item(i).code = b[p].code /\ b[p].code.key = a[i].code.key
                /\ item(i).categories = list(i)
                /\ \A j \in 1..Len(a[i].categories) : \E k \in 1..Len(b[p].categories) :
                      /\ list(i)[j] = b[p].categories[k]
                      /\ b[p].categories[k].key = a[i].categories[j].key
    <2> DEFINE p == Place(a, b)[i]
    <2>1. p \in 1..n /\ Fits(a, b, i, p)
        BY <1>1, <1>2, PlaceFits
    <2>2. p = PlaceOf(b, a[i].code.key)
        BY DEF Place
    <2>3. ASSUME NEW j \in 1..Len(a[i].categories)
          PROVE  \E k \in 1..Len(b[p].categories) :
                      /\ list(i)[j] = b[p].categories[k]
                      /\ b[p].categories[k].key = a[i].categories[j].key
        <3>1. list(i)[j] = b[p].categories[PositionOf(b[p], a[i].categories[j].key) + 1]
            BY <2>2
        <3> HIDE DEF p, list
        <3>2. PICK k \in 1..Len(b[p].categories) : a[i].categories[j].key = b[p].categories[k].key
            BY <2>1 DEF Fits
        <3>3. PositionOf(b[p], b[p].categories[k].key) = k - 1
            BY <1>1, <1>2, <2>1, PositionFound
        <3>4. Len(b[p].categories) \in Nat
            BY <1>1, <1>2, <2>1 DEF WellFormed
        <3>5. (k - 1) + 1 = k
            BY <3>4
        <3>6. list(i)[j] = b[p].categories[k]
            BY <3>1, <3>2, <3>3, <3>5
        <3> QED
            BY <3>2, <3>6
    <2>4. item(i).code = b[p].code /\ item(i).categories = list(i)
        BY <2>2
    <2> HIDE DEF p, item, list
    <2>5. b[p].code.key = a[i].code.key
        BY <2>1 DEF Fits
    <2> QED
        BY <2>1, <2>3, <2>4, <2>5
<1>5. ASSUME NEW i \in 1..n
      PROVE  /\ Len(list(i)) = Len(a[i].categories) /\ DOMAIN list(i) = 1..Len(list(i))
             /\ list(i) = [j \in 1..Len(list(i)) |-> list(i)[j]]
    <2> DEFINE m == Len(a[i].categories)
               g == list(i)
    <2>1. m \in Nat
        BY DEF Parsed, CodeList
    <2>2. g = [j \in 1..m |-> g[j]]
        OBVIOUS
    <2> HIDE DEF g, m
    <2>3. Len(g) = m /\ DOMAIN g = 1..m
        BY <2>1, <2>2, LengthOf
    <2> QED
        BY <2>2, <2>3 DEF g, m
<1>6. \A i \in 1..n : item(i) = [code |-> item(i).code, categories |-> item(i).categories]
    OBVIOUS
<1> HIDE DEF item, list, o
<1>7. \A i \in 1..n : o[i] = item(i)
    BY <1>3
<1>8. Len(o) = n /\ DOMAIN o = 1..n
    <2>1. o = [i \in 1..n |-> o[i]]
        BY <1>3
    <2> QED
        BY <1>1, <2>1, LengthOf
<1>9. ASSUME NEW i \in 1..n
      PROVE  /\ \E p \in 1..Len(b) : Named(a[i], b[p], o[i])
             /\ DOMAIN o[i].categories = 1..Len(o[i].categories)
             /\ o[i].categories = [j \in 1..Len(o[i].categories) |-> o[i].categories[j]]
    <2>1. PICK p \in 1..n :
              /\ item(i).code = b[p].code /\ b[p].code.key = a[i].code.key
              /\ item(i).categories = list(i)
              /\ \A j \in 1..Len(a[i].categories) : \E k \in 1..Len(b[p].categories) :
                    /\ list(i)[j] = b[p].categories[k]
                    /\ b[p].categories[k].key = a[i].categories[j].key
        BY <1>4
    <2>2. o[i].code = b[p].code /\ o[i].categories = list(i)
        BY <1>7, <2>1
    <2>3. Named(a[i], b[p], o[i])
        BY <1>5, <2>1, <2>2 DEF Named
    <2> QED
        BY <1>1, <1>5, <2>2, <2>3
<1>10. Chosen(a, b, o)
    BY <1>8, <1>9 DEF Chosen
<1>11. ASSUME NEW i \in 1..n
       PROVE  /\ SameKeys(a[i], o[i])
              /\ CodeList(o[i].categories) /\ o[i].code.key \in Int /\ Coded(o[i].code)
    <2>1. CodeList(a[i].categories) /\ a[i].code.key \in Int
        BY DEF Parsed
    <2>2. SameKeys(a[i], o[i])
        BY <1>10, ChosenKeys
    <2>3. PICK p \in 1..Len(b) : Named(a[i], b[p], o[i])
        BY <1>9
    <2>4. Coded(b[p].code) /\ \A k \in 1..Len(b[p].categories) : Coded(b[p].categories[k])
        BY DEF Parsed, CodeList
    <2>5. Coded(o[i].code) /\ \A j \in 1..Len(o[i].categories) : Coded(o[i].categories[j])
        BY <2>3, <2>4 DEF Named
    <2> QED
        BY <1>9, <2>1, <2>2, <2>5 DEF CodeList, SameKeys
<1>12. WellFormed(o)
    <2>1. ASSUME NEW i \in 1..n, NEW j \in 1..n, o[i].code.key = o[j].code.key PROVE i = j
        <3>1. a[i].code.key = a[j].code.key
            BY <1>11, <2>1 DEF SameKeys
        <3> QED
            BY <3>1 DEF Parsed, WellFormed
    <2> QED
        BY <1>1, <1>8, <1>11, <2>1 DEF WellFormed, CodeList
<1>13. Parsed(o)
    <2>1. o = [i \in 1..n |-> o[i]]
        BY <1>3
    <2> QED
        BY <1>6, <1>7, <1>8, <1>11, <1>12, <2>1 DEF Parsed
<1>14. Inside(o, b)
    <2>1. ASSUME NEW i \in 1..n PROVE \E p \in 1..Len(b) : Fits(o, b, i, p)
        <3>1. PICK p \in 1..Len(b) : Named(a[i], b[p], o[i])
            BY <1>9
        <3>2. Fits(o, b, i, p)
            BY <3>1 DEF Fits, Named
        <3> QED
            BY <3>2
    <2> QED
        BY <1>1, <1>8, <2>1 DEF Inside, Fits
<1> QED
    BY <1>10, <1>13, <1>14 DEF o

\* The pairs of a dimension and a category a selection names.
Names(a) == UNION {{<<d.code.key, c.key>> : c \in Codes(d)} : d \in ToSet(a)}

\* What the names of a selection are.
LEMMA NamesAre ==
    ASSUME NEW a, Parsed(a)
    PROVE  \A x : x \in Names(a) <=>
              \E i \in 1..Len(a) : \E j \in 1..Len(a[i].categories) :
                  x = <<a[i].code.key, a[i].categories[j].key>>
<1>1. /\ DOMAIN a = 1..Len(a)
      /\ \A i \in 1..Len(a) : DOMAIN a[i].categories = 1..Len(a[i].categories)
    BY DEF Parsed, WellFormed
<1>2. ToSet(a) = {a[i] : i \in 1..Len(a)}
    BY <1>1 DEF ToSet
<1>3. \A i \in 1..Len(a) :
          Codes(a[i]) = {a[i].categories[j] : j \in 1..Len(a[i].categories)}
    BY <1>1 DEF Codes, ToSet
<1>4. ASSUME NEW x, x \in Names(a)
      PROVE  \E i \in 1..Len(a) : \E j \in 1..Len(a[i].categories) :
                  x = <<a[i].code.key, a[i].categories[j].key>>
    <2>1. PICK i \in 1..Len(a) : \E c \in Codes(a[i]) : x = <<a[i].code.key, c.key>>
        BY <1>2, <1>4 DEF Names
    <2>2. PICK c \in Codes(a[i]) : x = <<a[i].code.key, c.key>>
        BY <2>1
    <2>3. PICK j \in 1..Len(a[i].categories) : c = a[i].categories[j]
        BY <1>3
    <2>4. x = <<a[i].code.key, a[i].categories[j].key>>
        BY <2>2, <2>3
    <2> QED
        BY <2>4
<1>5. ASSUME NEW i \in 1..Len(a), NEW j \in 1..Len(a[i].categories)
      PROVE  <<a[i].code.key, a[i].categories[j].key>> \in Names(a)
    <2>1. a[i].categories[j] \in Codes(a[i]) /\ a[i] \in ToSet(a)
        BY <1>2, <1>3
    <2> QED
        BY <2>1 DEF Names
<1> QED
    BY <1>4, <1>5

\* The name of a point of the selected dimensions is made of selected names.
LEMMA ChosenNames ==
    ASSUME NEW a, NEW b, NEW o, Parsed(a), Parsed(o), Chosen(a, b, o), NEW c \in Points(o)
    PROVE  Name(o, c) \subseteq Names(a)
<1>1. WellFormed(o) /\ DOMAIN o = 1..Len(o) /\ Len(o) = Len(a)
    BY DEF Parsed, WellFormed, Chosen
<1>2. ASSUME NEW i \in 1..Len(o)
      PROVE  <<o[i].code.key, o[i].categories[c[i] + 1].key>> \in Names(a)
    <2>1. c[i] + 1 \in 1..Len(o[i].categories)
        BY <1>1, PointCategory
    <2>2. SameKeys(a[i], o[i])
        BY <1>1, ChosenKeys
    <2>3. c[i] + 1 \in 1..Len(a[i].categories)
          /\ <<o[i].code.key, o[i].categories[c[i] + 1].key>>
                = <<a[i].code.key, a[i].categories[c[i] + 1].key>>
        BY <2>1, <2>2 DEF SameKeys
    <2> QED
        BY <1>1, <2>3, NamesAre
<1> QED
    BY <1>1, <1>2 DEF Name

\* A stored point whose name is made of selected names is a point of theirs.
LEMMA SelectedPoint ==
    ASSUME NEW a, NEW b, NEW o, Parsed(a), Parsed(b), Parsed(o), Chosen(a, b, o), Inside(o, b),
           NEW c \in Points(b), Name(b, c) \subseteq Names(a)
    PROVE  \E e \in Points(o) : Translated(o, b, e) = c
<1> DEFINE n == Len(o)
           f == Place(o, b)
           at(i) == CHOOSE j \in 1..Len(o[i].categories) :
                       o[i].categories[j].key = b[f[i]].categories[c[f[i]] + 1].key
           e == [i \in 1..n |-> at(i) - 1]
<1>1. /\ WellFormed(o) /\ WellFormed(b) /\ Len(a) = n /\ Len(b) = n
      /\ DOMAIN b = 1..n /\ n \in Nat
    BY DEF Parsed, WellFormed, Chosen, Inside
<1>2. ASSUME NEW i \in 1..n
      PROVE  /\ f[i] \in 1..n /\ b[f[i]].code.key = o[i].code.key
             /\ at(i) \in 1..Len(o[i].categories)
             /\ o[i].categories[at(i)].key = b[f[i]].categories[c[f[i]] + 1].key
    <2>1. f[i] \in 1..n /\ b[f[i]].code.key = o[i].code.key
        BY <1>1, PlaceFits DEF Fits
    <2> HIDE DEF f
    <2> DEFINE k == b[f[i]].categories[c[f[i]] + 1].key
    <2>2. <<b[f[i]].code.key, k>> \in Names(a)
        BY <1>1, <2>1 DEF Name
    <2>3. PICK m \in 1..Len(a) : \E j \in 1..Len(a[m].categories) :
              <<b[f[i]].code.key, k>> = <<a[m].code.key, a[m].categories[j].key>>
        BY <2>2, NamesAre
    <2>4. PICK j \in 1..Len(a[m].categories) :
              b[f[i]].code.key = a[m].code.key /\ k = a[m].categories[j].key
        BY <2>3
    <2>5. SameKeys(a[i], o[i])
        BY <1>1, ChosenKeys
    <2>6. a[m].code.key = a[i].code.key
        BY <2>1, <2>4, <2>5 DEF SameKeys
    <2>7. m = i
        BY <1>1, <2>6 DEF Parsed, WellFormed
    <2>8. j \in 1..Len(o[i].categories) /\ o[i].categories[j].key = k
        BY <2>4, <2>5, <2>7 DEF SameKeys
    <2> QED
        BY <2>1, <2>8
<1> HIDE DEF at, f
<1>3. e \in Points(o)
    <2>1. ASSUME NEW i \in 1..n PROVE at(i) - 1 \in Nat /\ at(i) - 1 < Len(o[i].categories)
        <3>1. Len(o[i].categories) \in Nat /\ at(i) \in 1..Len(o[i].categories)
            BY <1>1, <1>2 DEF WellFormed
        <3> QED
            BY <3>1
    <2>2. e \in [1..n -> Nat] /\ \A i \in 1..n : e[i] < Len(o[i].categories)
        BY <2>1
    <2> HIDE DEF e
    <2> QED
        BY <1>1, <2>2, PointsAre
<1>4. \A i \in 1..n : e[i] + 1 = at(i)
    <2> SUFFICES ASSUME NEW i \in 1..n PROVE (at(i) - 1) + 1 = at(i)
        OBVIOUS
    <2>1. Len(o[i].categories) \in Nat /\ at(i) \in 1..Len(o[i].categories)
        BY <1>1, <1>2 DEF WellFormed
    <2> QED
        BY <2>1
<1> HIDE DEF e
<1>5. Name(o, e) \subseteq Name(b, c)
    <2>1. DOMAIN o = 1..n
        BY <1>1 DEF WellFormed
    <2>2. ASSUME NEW i \in 1..n
          PROVE  <<o[i].code.key, o[i].categories[e[i] + 1].key>> \in Name(b, c)
        <3>1. <<o[i].code.key, o[i].categories[e[i] + 1].key>>
                  = <<b[f[i]].code.key, b[f[i]].categories[c[f[i]] + 1].key>>
            BY <1>2, <1>4
        <3> QED
            BY <1>1, <1>2, <3>1 DEF Name
    <2> QED
        BY <2>1, <2>2 DEF Name
<1>6. Translated(o, b, e) \in Points(b) /\ Name(b, Translated(o, b, e)) = Name(o, e)
    BY <1>1, <1>3, TranslatedIs
<1>7. Translated(o, b, e) = c
    BY <1>1, <1>5, <1>6, NameTells
<1> QED
    BY <1>3, <1>7

\* The selected cells that are stored, numbered as the query orders them.
Picked(cells, indexes) ==
    [n \in {m \in DOMAIN indexes : indexes[m] \in DOMAIN cells} |-> cells[indexes[n]]]

\* The stored cells at the selected indexes are those whose names are selected.
LEMMA SelectedMeans ==
    ASSUME NEW a, NEW b, Parsed(a), Parsed(b), Selectable(a, b),
           NEW cells, DOMAIN cells \subseteq 0..(Count(b) - 1)
    PROVE  LET o == Selected(a, b)
               out == Picked(cells, SelectedIndexes(o, b, Count(o)))
           IN  /\ DOMAIN out \subseteq 0..(Count(o) - 1)
               /\ \A n \in DOMAIN out : \E k \in DOMAIN cells : out[n] = cells[k]
               /\ Meaning(o, out) = {m \in Meaning(b, cells) : m[1] \subseteq Names(a)}
<1> DEFINE o == Selected(a, b)
           count == Count(o)
           indexes == SelectedIndexes(o, b, count)
           out == Picked(cells, indexes)
           D == DOMAIN cells
<1>1. Parsed(o) /\ Inside(o, b) /\ Chosen(a, b, o)
    BY SelectedIs
<1> HIDE DEF o
<1>2. WellFormed(o) /\ WellFormed(b)
    BY <1>1 DEF Parsed
<1>3. indexes = [n \in 0..(count - 1) |-> Index(b, Translated(o, b, PointOf(o, n)))]
    BY Zenon DEF SelectedIndexes, Index, Translated, PointOf
<1>4. ASSUME NEW n \in 0..(count - 1)
      PROVE  indexes[n] \in 0..(Count(b) - 1) /\ NameAt(b, indexes[n]) = NameAt(o, n)
             /\ PointOf(o, n) \in Points(o)
    <2> DEFINE c == PointOf(o, n)
               t == Translated(o, b, c)
    <2>1. c \in Points(o)
        BY <1>2, PointIndex
    <2>2. indexes[n] = Index(b, t)
        BY <1>3
    <2> HIDE DEF c, indexes
    <2>3. t \in Points(b) /\ Name(b, t) = Name(o, c)
        BY <1>1, <1>2, <2>1, TranslatedIs
    <2> HIDE DEF t
    <2>4. Index(b, t) \in 0..(Count(b) - 1) /\ PointOf(b, Index(b, t)) = t
        BY <1>2, <2>3, PointIndex
    <2> QED
        BY <2>1, <2>2, <2>3, <2>4 DEF NameAt, c
<1>5. DOMAIN indexes = 0..(count - 1)
    BY <1>3
<1>6. DOMAIN out = {n \in 0..(count - 1) : indexes[n] \in D}
      /\ \A n \in DOMAIN out : out[n] = cells[indexes[n]]
    <2> HIDE DEF indexes
    <2> QED
        BY <1>5 DEF Picked
<1>7. ASSUME NEW k \in D, NameAt(b, k) \subseteq Names(a)
      PROVE  \E n \in 0..(count - 1) : indexes[n] = k
    <2> DEFINE c == PointOf(b, k)
    <2>1. c \in Points(b) /\ Index(b, c) = k
        BY <1>2, PointIndex
    <2>2. Name(b, c) \subseteq Names(a)
        BY <1>7 DEF NameAt
    <2> HIDE DEF c
    <2>3. PICK e \in Points(o) : Translated(o, b, e) = c
        BY <1>1, <2>1, <2>2, SelectedPoint
    <2>4. Index(o, e) \in 0..(count - 1) /\ PointOf(o, Index(o, e)) = e
        BY <1>2, PointIndex
    <2>5. indexes[Index(o, e)] = Index(b, Translated(o, b, PointOf(o, Index(o, e))))
        BY <1>3, <2>4
    <2> HIDE DEF indexes, count
    <2>6. indexes[Index(o, e)] = k
        BY <2>1, <2>3, <2>4, <2>5
    <2> QED
        BY <2>4, <2>6
<1> HIDE DEF out, indexes, count
<1>8. DOMAIN out \subseteq 0..(Count(o) - 1)
    BY <1>6 DEF count
<1>9. Meaning(o, out) = {<<NameAt(o, n), out[n]>> : n \in DOMAIN out}
    BY <1>2, <1>8, MeaningIs
<1>10. Meaning(b, cells) = {<<NameAt(b, k), cells[k]>> : k \in D}
    BY <1>2, MeaningIs
<1>11. ASSUME NEW x \in Meaning(o, out)
       PROVE  x \in {m \in Meaning(b, cells) : m[1] \subseteq Names(a)}
    <2>1. PICK n \in DOMAIN out : x = <<NameAt(o, n), out[n]>>
        BY <1>9
    <2>2. n \in 0..(count - 1) /\ indexes[n] \in D /\ out[n] = cells[indexes[n]]
        BY <1>6
    <2>3. x = <<NameAt(b, indexes[n]), cells[indexes[n]]>>
        BY <1>4, <2>1, <2>2
    <2>4. x \in Meaning(b, cells)
        BY <1>10, <2>2, <2>3
    <2>5. NameAt(o, n) \subseteq Names(a)
        BY <1>1, <1>4, <2>2, ChosenNames DEF NameAt
    <2> QED
        BY <2>1, <2>4, <2>5
<1>12. ASSUME NEW x \in Meaning(b, cells), x[1] \subseteq Names(a)
       PROVE  x \in Meaning(o, out)
    <2>1. PICK k \in D : x = <<NameAt(b, k), cells[k]>>
        BY <1>10
    <2>2. NameAt(b, k) \subseteq Names(a)
        BY <1>12, <2>1
    <2>3. PICK n \in 0..(count - 1) : indexes[n] = k
        BY <1>7, <2>2
    <2>4. n \in DOMAIN out /\ out[n] = cells[k]
        BY <1>6, <2>3
    <2>5. x = <<NameAt(o, n), out[n]>>
        BY <1>4, <2>1, <2>3, <2>4
    <2> QED
        BY <1>9, <2>4, <2>5
<1>13. \A n \in DOMAIN out : \E k \in D : out[n] = cells[k]
    BY <1>6
<1>14. Meaning(o, out) = {m \in Meaning(b, cells) : m[1] \subseteq Names(a)}
    BY <1>11, <1>12
<1> QED
    BY <1>8, <1>13, <1>14 DEF o, out, indexes, count

-----------------------------------------------------------------------------
(* What a query answers.                                                   *)

\* A selection that parsing accepts, and what it resolves to.
SelectionParsed(q) ==
    /\ DecodedDimensions(q) /\ ParseSelection(q).error = "none"

\* A selection that is accepted is well formed and not empty.
LEMMA SelectionIs ==
    ASSUME NEW q, SelectionParsed(q)
    PROVE  Parsed(ParseSelection(q).selection) /\ ParseSelection(q).selection # <<>>
<1>1. ParseSelection(q).error = "none"
    BY DEF SelectionParsed
<1>2. ValidDimensions(q) /\ ParseSelection(q).selection = RequestDimensions(q)
    BY <1>1 DEF ParseSelection
<1>3. Parsed(RequestDimensions(q))
    BY <1>2, RequestIs DEF SelectionParsed
<1>4. Len(RequestDimensions(q)) # 0
    BY <1>3 DEF Parsed, WellFormed
<1> QED
    BY <1>2, <1>3, <1>4

\* What ResolveSelection makes of a selection that it accepts.
LEMMA ResolvedIs ==
    ASSUME NEW a, NEW b, Parsed(a), Parsed(b), ResolveSelection(a, b, MaxCells).error = "none"
    PROVE  LET r == ResolveSelection(a, b, MaxCells)
               o == Selected(a, b)
           IN  /\ Selectable(a, b) /\ r.dimensions = o /\ Count(o) \in 1..MaxCells
               /\ r.indexes = SelectedIndexes(o, b, Count(o))
<1> DEFINE r == ResolveSelection(a, b, MaxCells)
           o == Selected(a, b)
           checked == CheckedProduct(Sizes(o), MaxCells)
           err == CASE checked.error = "none" -> "none"
                    [] checked.error = "limit" -> "cell_limit_exceeded"
                    [] OTHER -> "invalid_selection"
           indexes == IF checked.error = "none"
                      THEN SelectedIndexes(o, b, checked.count) ELSE <<>>
<1>1. r = IF ~Selectable(a, b)
          THEN [error |-> "invalid_selection", dimensions |-> <<>>, indexes |-> <<>>]
          ELSE [error |-> err, dimensions |-> o, indexes |-> indexes]
    BY Zenon DEF ResolveSelection
<1> HIDE DEF err, o, indexes, checked
<1>2. Selectable(a, b)
    BY <1>1
<1>3. err = "none" /\ r.dimensions = o /\ r.indexes = indexes
    BY <1>1, <1>2
<1>4. checked.error = "none"
    BY <1>3 DEF err
<1>5. Parsed(o)
    BY <1>2, SelectedIs DEF o
<1>6. Sizes(o) \in Shapes
    BY <1>5, SizesShape DEF Parsed
<1>7. Sizes(o) \in Seq(Nat) /\ Sizes(o) # <<>> /\ MaxCells \in 1..MaxInt
    BY <1>6, ShapeIsSeq, LimitAssumption, MaxIntAssumption
<1>8. checked.count = Product(Sizes(o)) /\ Product(Sizes(o)) <= MaxCells
    BY <1>4, <1>7, ProductDecides DEF checked
<1>9. Product(Sizes(o)) \in Nat \ {0}
    BY <1>6, ShapeHasCells
<1>10. checked.count = Count(o) /\ Count(o) \in 1..MaxCells
    BY <1>7, <1>8, <1>9 DEF Count
<1> QED
    BY <1>2, <1>3, <1>4, <1>10 DEF o, indexes

\* The view a query is answered with.
Asked(q) ==
    LET a == ParseSelection(q).selection
        r == ResolveSelection(a, stored.dimensions, MaxCells)
    IN  /\ SelectionParsed(q) /\ selection = a /\ r.error = "none"
        /\ view = [dimensions |-> r.dimensions, cells |-> Picked(stored.cells, r.indexes)]

\* An answer is the whole of a stored dataset, or what a query asked of it.
Answered ==
    stage = "answered" =>
        /\ \E format : response = DataResponse(view, format)
        /\ stored # NoDataset
        /\ \/ /\ selection = <<>>
              /\ view = [dimensions |-> stored.dimensions, cells |-> stored.cells]
           \/ \E q \in Selection : Asked(q)

\* The inductive invariant: what is stored, what an answer is made of, and that
\* nothing is asked before the query.
Held ==
    /\ Kept /\ Answered
    /\ stage = "submitted" => selection = <<>>
    /\ stage = "stored" => stored # NoDataset /\ selection = <<>>

\* A submission that is accepted is not stored as nothing.
LEMMA AcceptedIsStored ==
    ASSUME NEW p, Accepted(p) PROVE ParseReplacement(p).dataset # NoDataset
<1>1. Parsed(ParseReplacement(p).dataset.dimensions)
    BY AcceptedMeans
<1>2. ParseReplacement(p).dataset.dimensions # <<>>
    <2>1. Len(ParseReplacement(p).dataset.dimensions) # 0
        BY <1>1 DEF Parsed, WellFormed
    <2> QED
        BY <2>1
<1> QED
    BY <1>2 DEF NoDataset

\* Nothing is answered at first.
LEMMA HeldInit == Init => Held
BY KeptInit DEF Init, Held, Answered

\* GetData answers with what is stored, Query with what it selects of it.
LEMMA HeldNext == Held /\ [Next]_vars => Held'
<1> SUFFICES ASSUME Held, [Next]_vars PROVE Held'
    OBVIOUS
<1>0. Kept'
    BY KeptNext DEF Held
<1>1. CASE Replace
    <2>1. /\ stage = "submitted" /\ stored' = ParseReplacement(body).dataset
          /\ stage' = IF ParseReplacement(body).error = "none" THEN "stored" ELSE "refused"
          /\ selection' = selection
        BY <1>1 DEF Replace
    <2>2. selection' = <<>>
        BY <2>1 DEF Held
    <2>3. stage' = "stored" => stored' # NoDataset
        <3> SUFFICES ASSUME stage' = "stored" PROVE stored' # NoDataset
            OBVIOUS
        <3>1. ParseReplacement(body).error = "none"
            BY <2>1
        <3>2. body \in Body
            BY DEF Held, Kept
        <3>3. Accepted(body)
            BY <3>1, <3>2, BodyAssumption DEF Accepted
        <3> QED
            BY <2>1, <3>3, AcceptedIsStored
    <2>4. stage' # "answered" /\ stage' # "submitted"
        BY <2>1
    <2> QED
        BY <1>0, <2>2, <2>3, <2>4 DEF Held, Answered
<1>2. ASSUME NEW format, GetData(format) PROVE Held'
    <2>1. /\ stage = "stored" /\ stage' = "answered" /\ UNCHANGED <<stored, selection>>
          /\ view' = [dimensions |-> stored.dimensions, cells |-> stored.cells]
          /\ response' = DataResponse(view', format)
        BY <1>2 DEF GetData, Answer
    <2>2. stored # NoDataset /\ selection = <<>>
        BY <2>1 DEF Held
    <2>3. Answered'
        BY <2>1, <2>2 DEF Answered
    <2> QED
        BY <1>0, <2>1, <2>3 DEF Held
<1>3. ASSUME NEW format, NEW q \in Selection, Query(q, format) PROVE Held'
    <2> DEFINE a == ParseSelection(q).selection
               r == ResolveSelection(a, stored.dimensions, MaxCells)
    <2>1. stage = "stored" /\ stored' = stored /\ selection' = a
        BY <1>3 DEF Query
    <2>2. stored # NoDataset
        BY <2>1 DEF Held
    <2>3. CASE stage' = "refused"
        BY <1>0, <2>3 DEF Held, Answered
    <2>4. CASE /\ ParseSelection(q).error = "none" /\ r.error = "none"
               /\ Answer([dimensions |-> r.dimensions, cells |-> OutputCells(r.indexes)], format)
        <3>1. view' = [dimensions |-> r.dimensions, cells |-> OutputCells(r.indexes)]
              /\ response' = DataResponse(view', format) /\ stage' = "answered"
            BY <2>4 DEF Answer
        <3>2. OutputCells(r.indexes) = Picked(stored.cells, r.indexes)
            BY Zenon DEF OutputCells, Picked
        <3>3. DecodedDimensions(q)
            BY BodyAssumption
        <3>4. Asked(q)'
            BY <2>1, <2>4, <3>1, <3>2, <3>3 DEF Asked, SelectionParsed
        <3>5. Answered'
            BY <2>1, <2>2, <3>1, <3>4 DEF Answered
        <3> QED
            BY <1>0, <3>1, <3>5 DEF Held
    <2> QED
        BY <1>3, <2>3, <2>4 DEF Query
<1>4. CASE UNCHANGED vars
    <2>1. UNCHANGED <<stage, stored, selection, view, response>>
        BY <1>4 DEF vars
    <2>2. Answered'
        <3> SUFFICES ASSUME stage' = "answered" PROVE Answered'
            BY DEF Answered
        <3>1. stage = "answered"
            BY <2>1
        <3>2. \A q : Asked(q)' <=> Asked(q)
            BY <2>1 DEF Asked
        <3> QED
            BY <2>1, <3>1, <3>2 DEF Answered, Held
    <2> QED
        BY <1>0, <2>1, <2>2 DEF Held
<1> QED
    BY <1>1, <1>2, <1>3, <1>4 DEF Next

\* Held is an invariant.
LEMMA AlwaysHeld == Spec => []Held
BY HeldInit, HeldNext, PTL DEF Spec

\* The answer to a query is what it selected.
LEMMA HeldAnswersSelection == Held => QueryAnswersSelection
<1> SUFFICES ASSUME Held, stage = "answered", selection # <<>> PROVE QueryAnswersSelection
    BY DEF QueryAnswersSelection
<1> DEFINE a == selection
           b == stored.dimensions
           cells == stored.cells
           o == Selected(a, b)
           spelled == UNION {{<<d.code, c>> : c \in Codes(d)} : d \in ToSet(b)}
<1>1. PICK q \in Selection : Asked(q)
    BY DEF Held, Answered
<1>2. stored # NoDataset /\ Kept
    BY DEF Held, Answered
<1>3. Accepted(body) /\ stored = ParseReplacement(body).dataset
    BY <1>2, KeptAccepted
<1>4. Parsed(b) /\ DOMAIN cells \subseteq 0..(Count(b) - 1)
    BY <1>3, AcceptedMeans
<1>5. /\ SelectionParsed(q) /\ a = ParseSelection(q).selection
      /\ ResolveSelection(a, b, MaxCells).error = "none"
      /\ view = [dimensions |-> ResolveSelection(a, b, MaxCells).dimensions,
                 cells |-> Picked(cells, ResolveSelection(a, b, MaxCells).indexes)]
    BY <1>1 DEF Asked
<1>6. Parsed(a)
    BY <1>5, SelectionIs
<1> HIDE DEF b, cells, o
<1>7. Selectable(a, b) /\ view.dimensions = o
      /\ view.cells = Picked(cells, SelectedIndexes(o, b, Count(o)))
    BY <1>4, <1>5, <1>6, ResolvedIs DEF o
<1>8. Meaning(view.dimensions, view.cells)
          = {m \in Meaning(b, cells) : m[1] \subseteq Names(a)}
    BY <1>4, <1>6, <1>7, SelectedMeans DEF o
<1>9. Parsed(o) /\ Chosen(a, b, o)
    BY <1>4, <1>6, <1>7, SelectedIs DEF o
<1>10. DOMAIN a = 1..Len(a) /\ DOMAIN o = 1..Len(a) /\ Len(o) = Len(a) /\ DOMAIN b = 1..Len(b)
    BY <1>4, <1>6, <1>9 DEF Parsed, WellFormed, Chosen
<1>11. [i \in DOMAIN a |-> a[i].code.key] = [i \in DOMAIN o |-> o[i].code.key]
    <2>1. \A i \in 1..Len(a) : a[i].code.key = o[i].code.key
        BY <1>9, ChosenKeys DEF SameKeys
    <2> QED
        BY <1>10, <2>1
<1>12. \A d \in ToSet(o) : \A c \in Codes(d) : <<d.code, c>> \in spelled
    <2>1. ASSUME NEW i \in 1..Len(a), NEW c \in Codes(o[i]) PROVE <<o[i].code, c>> \in spelled
        <3>1. PICK p \in 1..Len(b) : Named(a[i], b[p], o[i])
            BY <1>9 DEF Chosen
        <3>2. /\ DOMAIN o[i].categories = 1..Len(o[i].categories)
              /\ DOMAIN b[p].categories = 1..Len(b[p].categories)
            BY <1>4, <1>9, <1>10 DEF Parsed, CodeList
        <3>3. PICK j \in 1..Len(o[i].categories) : c = o[i].categories[j]
            BY <3>2 DEF Codes, ToSet
        <3>4. PICK k \in 1..Len(b[p].categories) : o[i].categories[j] = b[p].categories[k]
            BY <3>1 DEF Named
        <3>5. c \in Codes(b[p]) /\ b[p] \in ToSet(b) /\ o[i].code = b[p].code
            BY <1>10, <3>1, <3>2, <3>3, <3>4 DEF Codes, ToSet, Named
        <3> QED
            BY <3>5
    <2> QED
        BY <1>10, <2>1 DEF ToSet
<1> QED
    BY <1>7, <1>8, <1>11, <1>12 DEF QueryAnswersSelection, Names, b, cells

\* A query answers with exactly the stored cells whose names it selected, in a
\* cube of its own order, under the spellings that are stored
\* (ResolveSelection, Query of postgres.go).
THEOREM AnswersSelection == Spec => []QueryAnswersSelection
BY AlwaysHeld, HeldAnswersSelection, PTL

-----------------------------------------------------------------------------
(* The structure of a response is that of a submission.                    *)

\* The category object of a dimension.
IndexOf(d) ==
    [c \in {g.spelling : g \in Codes(d)} |->
        (CHOOSE j \in DOMAIN d.categories : d.categories[j].spelling = c) - 1]

\* Categories are told apart by their spellings.
LEMMA CodedApart ==
    ASSUME NEW g, CodeList(g), NEW j \in 1..Len(g), NEW k \in 1..Len(g),
           \/ g[j].spelling = g[k].spelling
           \/ KeyOf[g[j].spelling] = KeyOf[g[k].spelling]
    PROVE  j = k
<1>1. KeyOf[g[j].spelling] = KeyOf[g[k].spelling]
    OBVIOUS
<1>2. g[j].key = KeyOf[g[j].spelling] /\ g[k].key = KeyOf[g[k].spelling]
    BY DEF CodeList, Coded, Code
<1> QED
    BY <1>1, <1>2 DEF CodeList

\* The category object of a response is accepted, and gives the categories
\* back.
LEMMA IndexOfIs ==
    ASSUME NEW d, CodeList(d.categories)
    PROVE  /\ ValidCategories(IndexOf(d)) /\ IsFiniteSet(DOMAIN IndexOf(d))
           /\ DOMAIN IndexOf(d) \subseteq DOMAIN KeyOf
           /\ \A c \in DOMAIN IndexOf(d) : IndexOf(d)[c] \in Int
           /\ ByPosition(IndexOf(d)) = d.categories
<1> DEFINE g == d.categories
           n == Len(g)
           x == IndexOf(d)
           S == {g[j].spelling : j \in 1..n}
           f == [j \in 1..n |-> g[j].spelling]
<1>1. /\ n \in Nat \ {0} /\ DOMAIN g = 1..n /\ g = [j \in 1..n |-> g[j]]
      /\ \A j \in 1..n : Coded(g[j])
    BY DEF CodeList
<1>2. \A j, k \in 1..n : g[j].spelling = g[k].spelling => j = k
    BY CodedApart
<1>3. \A j, k \in 1..n : KeyOf[g[j].spelling] = KeyOf[g[k].spelling] => j = k
    BY CodedApart
<1> HIDE DEF g, n
<1>4. {e.spelling : e \in Codes(d)} = S
    BY <1>1 DEF Codes, ToSet, g
<1>5. x = [c \in S |-> (CHOOSE j \in DOMAIN g : g[j].spelling = c) - 1]
    BY <1>4, Zenon DEF IndexOf, g
<1> HIDE DEF x
<1>6. ASSUME NEW j \in 1..n PROVE x[g[j].spelling] = j - 1 /\ g[j].spelling \in S
    <2>1. (CHOOSE k \in DOMAIN g : g[k].spelling = g[j].spelling) = j
        BY <1>1, <1>2
    <2> QED
        BY <1>5, <2>1
<1>7. DOMAIN x = S
    BY <1>5
<1>8. IsFiniteSet(S) /\ Cardinality(S) = n
    <2>1. OneToOne(f, 1..n, S)
        BY <1>2 DEF OneToOne
    <2>2. IsFiniteSet(1..n) /\ Cardinality(1..n) = n
        BY <1>1, FS_Interval
    <2> HIDE DEF f, S
    <2> QED
        BY <2>1, <2>2, Counting
<1>9. S \subseteq DOMAIN KeyOf /\ \A c \in S : x[c] \in 0..(n - 1)
    BY <1>1, <1>6 DEF Coded
<1>10. ValidCategories(x)
    <2>1. S # {}
        <3>1. 1 \in 1..n
            BY <1>1
        <3> QED
            BY <1>6, <3>1
    <2>2. Distinct(S)
        BY <1>3 DEF Distinct
    <2>3. \A s, t \in S : x[s] = x[t] => s = t
        <3> SUFFICES ASSUME NEW j \in 1..n, NEW k \in 1..n,
                            x[g[j].spelling] = x[g[k].spelling]
                     PROVE  j = k
            OBVIOUS
        <3>1. j - 1 = k - 1
            BY <1>6
        <3> QED
            BY <3>1
    <2> HIDE DEF S
    <2> QED
        BY <1>7, <1>8, <1>9, <2>1, <2>2, <2>3 DEF ValidCategories
<1>11. ByPosition(x) = g
    <2> DEFINE at(j) == CHOOSE c \in DOMAIN x : x[c] = j - 1
    <2>1. ByPosition(x) = [j \in 1..n |-> Code(at(j))]
        <3>1. ByPosition(x) = [j \in 1..Cardinality(DOMAIN x) |-> Code(at(j))]
            BY DEF ByPosition
        <3> QED
            BY <1>7, <1>8, <3>1
    <2>2. ASSUME NEW j \in 1..n PROVE Code(at(j)) = g[j]
        <3>1. at(j) \in S /\ x[at(j)] = j - 1
            BY <1>6, <1>7
        <3> HIDE DEF at
        <3>2. PICK k \in 1..n : at(j) = g[k].spelling
            BY <3>1
        <3>3. k - 1 = j - 1
            BY <1>6, <3>1, <3>2
        <3>4. k = j
            BY <3>3
        <3>5. at(j) = g[j].spelling
            BY <3>2, <3>4
        <3> QED
            BY <1>1, <3>5 DEF Coded
    <2>3. [j \in 1..n |-> Code(at(j))] = [j \in 1..n |-> g[j]]
        BY <2>2
    <2> QED
        BY <1>1, <2>1, <2>3
<1>12. \A c \in S : x[c] \in Int
    BY <1>9
<1> HIDE DEF S
<1> QED
    BY <1>7, <1>8, <1>9, <1>10, <1>11, <1>12 DEF x, g

\* The dimensions of a response are the dimensions it was made of.
LEMMA StructureParses ==
    ASSUME NEW p, NEW view_, Parsed(view_.dimensions),
           Len(view_.dimensions) <= MaxDimensions, MaxDimensions \in Nat,
           p.id = Structure(view_).id, p.dimension = Structure(view_).dimension
    PROVE  /\ DecodedDimensions(p) /\ ValidDimensions(p)
           /\ RequestDimensions(p) = view_.dimensions
<1> DEFINE v == view_.dimensions
           n == Len(v)
           s == [i \in 1..n |-> v[i].code.spelling]
           S == {s[i] : i \in 1..n}
           of(t) == CHOOSE e \in ToSet(v) : e.code.spelling = t
<1>1. /\ n \in Nat \ {0} /\ DOMAIN v = 1..n /\ v = [i \in 1..n |-> v[i]]
      /\ \A i \in 1..n : /\ Coded(v[i].code) /\ CodeList(v[i].categories)
                         /\ v[i] = [code |-> v[i].code, categories |-> v[i].categories]
      /\ \A i, j \in 1..n : v[i].code.key = v[j].code.key => i = j
    BY DEF Parsed, WellFormed
<1>2. \A i \in 1..n : /\ s[i] \in DOMAIN KeyOf /\ v[i].code = Code(s[i])
                      /\ v[i].code.key = KeyOf[s[i]] /\ s[i] = v[i].code.spelling
    <2> SUFFICES ASSUME NEW i \in 1..n
                 PROVE  /\ s[i] \in DOMAIN KeyOf /\ v[i].code = Code(s[i])
                        /\ v[i].code.key = KeyOf[s[i]] /\ s[i] = v[i].code.spelling
        OBVIOUS
    <2>1. Coded(v[i].code) /\ s[i] = v[i].code.spelling
        BY <1>1
    <2> HIDE DEF s, v
    <2>2. s[i] \in DOMAIN KeyOf /\ v[i].code = Code(s[i])
        BY <2>1 DEF Coded
    <2>3. Code(s[i]).key = KeyOf[s[i]]
        BY DEF Code
    <2> QED
        BY <2>1, <2>2, <2>3
<1>3. ToSet(v) = {v[i] : i \in 1..n}
    BY <1>1 DEF ToSet
<1>4. p.id = s
    BY <1>1 DEF Structure
<1>5. p.dimension = [t \in {d.code.spelling : d \in ToSet(v)} |-> IndexOf(of(t))]
    BY Zenon DEF Structure, IndexOf
<1> HIDE DEF v
<1>6. {d.code.spelling : d \in ToSet(v)} = S
    BY <1>3
<1> HIDE DEF n
<1>7. \A i, j \in 1..n : KeyOf[s[i]] = KeyOf[s[j]] => i = j
    <2> HIDE DEF s
    <2> QED
        BY <1>1, <1>2
<1>8. \A i \in 1..n : of(s[i]) = v[i]
    <2> SUFFICES ASSUME NEW i \in 1..n PROVE of(s[i]) = v[i]
        OBVIOUS
    <2>1. \A e \in ToSet(v) : e.code.spelling = s[i] => e = v[i]
        <3> SUFFICES ASSUME NEW j \in 1..n, v[j].code.spelling = s[i] PROVE v[j] = v[i]
            BY <1>3
        <3>1. s[j] = s[i]
            BY <1>2
        <3> HIDE DEF s
        <3> QED
            BY <1>7, <3>1
    <2>2. v[i] \in ToSet(v) /\ v[i].code.spelling = s[i]
        BY <1>2, <1>3
    <2> HIDE DEF s
    <2> QED
        BY <2>1, <2>2
<1> HIDE DEF of
<1>9. s \in [1..n -> DOMAIN KeyOf]
    BY <1>2
<1>10. s \in Seq(DOMAIN KeyOf) /\ Len(s) = n /\ DOMAIN s = 1..n
    <2>1. s \in Seq(DOMAIN KeyOf)
        <3> HIDE DEF s
        <3> QED
            BY <1>1, <1>9, SeqDef
    <2> HIDE DEF s
    <2> QED
        BY <1>1, <1>9, <2>1, LenProperties
<1> HIDE DEF s
<1>11. DOMAIN p.dimension = S
    BY <1>5, <1>6
<1>12. \A i \in 1..n : s[i] \in S /\ p.dimension[s[i]] = IndexOf(v[i])
    BY <1>5, <1>6, <1>8
<1>13. OneToOne(s, 1..n, S)
    BY <1>7, <1>9 DEF OneToOne
<1>14. IsFiniteSet(S) /\ Cardinality(S) = n
    <2>1. IsFiniteSet(1..n) /\ Cardinality(1..n) = n
        BY <1>1, FS_Interval
    <2> HIDE DEF S
    <2> QED
        BY <1>13, <2>1, Counting
<1>15. S \subseteq DOMAIN KeyOf /\ \A t \in S : \E i \in 1..n : t = s[i]
    BY <1>2
<1>16. Distinct(S)
    BY <1>7 DEF Distinct
<1> HIDE DEF S
<1>17. \A i \in 1..n : /\ ValidCategories(p.dimension[s[i]])
                       /\ IsFiniteSet(DOMAIN p.dimension[s[i]])
                       /\ DOMAIN p.dimension[s[i]] \subseteq DOMAIN KeyOf
                       /\ \A c \in DOMAIN p.dimension[s[i]] : p.dimension[s[i]][c] \in Int
                       /\ ByPosition(p.dimension[s[i]]) = v[i].categories
    BY <1>1, <1>12, IndexOfIs
<1>18. DecodedDimensions(p)
    <2>1. \A t \in DOMAIN p.dimension :
              /\ IsFiniteSet(DOMAIN p.dimension[t])
              /\ DOMAIN p.dimension[t] \subseteq DOMAIN KeyOf
              /\ \A c \in DOMAIN p.dimension[t] : p.dimension[t][c] \in Int
        BY <1>11, <1>15, <1>17
    <2> QED
        BY <1>4, <1>10, <1>11, <1>14, <1>15, <2>1 DEF DecodedDimensions
<1>19. ValidDimensions(p)
    <2>1. n \in 1..MaxDimensions
        BY <1>1 DEF n, v
    <2>2. \A i \in DOMAIN p.id : \E t \in DOMAIN p.dimension :
              KeyOf[t] = KeyOf[p.id[i]] /\ ValidCategories(p.dimension[t])
        BY <1>4, <1>10, <1>11, <1>12, <1>17
    <2>3. \A i, j \in DOMAIN p.id : KeyOf[p.id[i]] = KeyOf[p.id[j]] => i = j
        BY <1>4, <1>7, <1>10
    <2> QED
        BY <1>4, <1>10, <1>11, <1>14, <1>16, <2>1, <2>2, <2>3 DEF ValidDimensions
<1>20. ASSUME NEW i \in 1..n PROVE RequestDimensions(p)[i] = v[i]
    <2>1. RequestDimensions(p)[i] = [code |-> Code(Spelling(p, i)),
                                     categories |-> ByPosition(p.dimension[Spelling(p, i)])]
        BY <1>4, <1>10, <1>18, <1>19, RequestIs
    <2>2. Spelling(p, i) \in S /\ KeyOf[Spelling(p, i)] = KeyOf[s[i]]
        BY <1>4, <1>10, <1>11, <1>19, SpellingIs
    <2>3. Spelling(p, i) = s[i]
        BY <1>12, <1>16, <2>2 DEF Distinct
    <2> QED
        BY <1>1, <1>2, <1>17, <2>1, <2>3
<1>21. RequestDimensions(p) = [i \in 1..n |-> RequestDimensions(p)[i]]
    <2>1. Parsed(RequestDimensions(p)) /\ Len(RequestDimensions(p)) = n
        BY <1>4, <1>10, <1>18, <1>19, RequestIs
    <2> QED
        BY <2>1 DEF Parsed
<1>22. RequestDimensions(p) = v
    <2>1. [i \in 1..n |-> RequestDimensions(p)[i]] = [i \in 1..n |-> v[i]]
        BY <1>20
    <2> QED
        BY <1>1, <1>21, <2>1
<1> QED
    BY <1>18, <1>19, <1>22 DEF v

-----------------------------------------------------------------------------
(* The channels of a response are those of a submission.                   *)

\* What a cell may hold.
Content(c) ==
    /\ c = [numeric |-> c.numeric, text |-> c.text, status |-> c.status]
    /\ c # Empty /\ (c.numeric = "none" \/ c.text = "none")
    /\ {c.numeric, c.text, c.status} \cap {"null", "bad"} = {}

\* What a channel says of a cell is a value.
SomeChannel(ch, count) ==
    \/ ch.form \notin {"dense", "sparse"}
    \/ ValidDense(ch, count) \/ ValidSparse(ch, count)

\* A cell is not given a null or a malformed entry.
LEMMA GivenValues ==
    ASSUME NEW ch, NEW count, SomeChannel(ch, count), NEW i
    PROVE  OnlyOf(GivenAt(ch, i)) \notin {"null", "bad"}
<1>1. ASSUME NEW g \in Given(ch) PROVE g[2] \notin {"null", "bad"}
    <2>1. CASE ValidDense(ch, count)
        <3>1. ch.form = "dense" /\ "bad" \notin ToSet(ch.entries)
            BY <2>1 DEF ValidDense
        <3>2. Given(ch) = {<<j - 1, ch.entries[j]>> :
                              j \in {k \in DOMAIN ch.entries : ch.entries[k] # "null"}}
            BY <3>1 DEF Given
        <3>3. PICK j \in DOMAIN ch.entries : ch.entries[j] # "null" /\ g[2] = ch.entries[j]
            BY <3>2
        <3> QED
            BY <3>1, <3>3 DEF ToSet
    <2>2. CASE ValidSparse(ch, count)
        <3>1. /\ ch.form = "sparse"
              /\ \A k \in DOMAIN ch.entries : ch.entries[k] \notin {"null", "bad"}
            BY <2>2 DEF ValidSparse
        <3>2. Given(ch) = {<<k.n, ch.entries[k]>> : k \in DOMAIN ch.entries}
            BY <3>1 DEF Given
        <3>3. PICK k \in DOMAIN ch.entries : g[2] = ch.entries[k]
            BY <3>2
        <3> QED
            BY <3>1, <3>3
    <2>3. CASE ch.form \notin {"dense", "sparse"}
        BY <2>3 DEF Given
    <2> QED
        BY <2>1, <2>2, <2>3 DEF SomeChannel
<1>2. \A x \in GivenAt(ch, i) : x \notin {"null", "bad"}
    BY <1>1 DEF GivenAt
<1> QED
    BY <1>2 DEF OnlyOf

\* What parsing keeps of a cell is content.
LEMMA RequestContent ==
    ASSUME NEW p, NEW count, ValidChannels(p, count), DecodedStatus(p),
           NEW i \in DOMAIN RequestCells(p, count)
    PROVE  Content(RequestCells(p, count)[i])
<1> DEFINE c == RequestCells(p, count)[i]
<1>1. c = CellAt(p, i)
    <2>1. i \in {j \in 0..(count - 1) : CellAt(p, j) # Empty}
        BY RequestCellsAre
    <2> QED
        BY <2>1, RequestCellsAre
<1>2. c # Empty /\ (c.numeric = "none" \/ c.text = "none")
    BY CellsHaveContent
<1>3. SomeChannel(p.value, count) /\ SomeChannel(p.text, count)
    BY DEF ValidChannels, ValidText, SomeChannel
<1>4. StatusAt(p, i) \notin {"null", "bad"}
    <2>1. CASE p.status.form = "scalar"
        BY <2>1 DEF StatusAt, DecodedStatus
    <2>2. CASE p.status.form # "scalar"
        <3>1. SomeChannel(p.status, count)
            BY <2>2 DEF ValidChannels, ValidStatus, SomeChannel
        <3> QED
            BY <2>2, <3>1, GivenValues DEF StatusAt
    <2> QED
        BY <2>1, <2>2
<1>5. /\ OnlyOf(GivenAt(p.value, i)) \notin {"null", "bad"}
      /\ OnlyOf(GivenAt(p.text, i)) \notin {"null", "bad"}
    BY <1>3, GivenValues
<1>6. /\ CellAt(p, i).numeric = OnlyOf(GivenAt(p.value, i))
      /\ CellAt(p, i).text = OnlyOf(GivenAt(p.text, i))
      /\ CellAt(p, i).status = StatusAt(p, i)
      /\ CellAt(p, i) = [numeric |-> CellAt(p, i).numeric, text |-> CellAt(p, i).text,
                         status |-> CellAt(p, i).status]
    BY DEF CellAt
<1> HIDE DEF c
<1>7. Content(c)
    BY <1>1, <1>2, <1>4, <1>5, <1>6 DEF Content
<1> QED
    BY <1>7 DEF c

\* The cells of a view of a cube with count cells.
Cells(w, count) ==
    /\ count \in Nat \ {0} /\ DOMAIN w \subseteq 0..(count - 1)
    /\ w = [i \in DOMAIN w |-> w[i]]
    /\ \A i \in DOMAIN w : Content(w[i])

\* What is told of a cell, each by a channel.
Fields == {"numeric", "text", "status"}

\* A channel is written from values.
LEMMA FieldValue ==
    ASSUME NEW w, NEW count, Cells(w, count), NEW i \in DOMAIN w, NEW field \in Fields
    PROVE  w[i][field] \notin {"null", "bad"}
BY DEF Cells, Content, Fields

\* A channel of a response is accepted, and gives each cell what it had.
LEMMA ChannelGives ==
    ASSUME NEW w, NEW count, Cells(w, count), NEW field \in Fields, NEW format
    PROVE  LET ch == Channel(w, count, field, format) IN
           /\ ValidDense(ch, count) \/ ValidSparse(ch, count)
           /\ ch.form = IF format = "dense" THEN "dense" ELSE "sparse"
           /\ Given(ch) = {<<i, w[i][field]>> : i \in {j \in DOMAIN w : w[j][field] # "none"}}
<1> DEFINE ch == Channel(w, count, field, format)
           held == {j \in DOMAIN w : w[j][field] # "none"}
           pairs == {<<i, w[i][field]>> : i \in held}
<1>1. count \in Nat \ {0} /\ DOMAIN w \subseteq 0..(count - 1)
    BY DEF Cells
<1>2. \A i \in DOMAIN w : w[i][field] \notin {"null", "bad"}
    BY FieldValue
<1>3. CASE format = "dense"
    <2> DEFINE entry(i) == IF i - 1 \in DOMAIN w /\ w[i - 1][field] # "none"
                           THEN w[i - 1][field] ELSE "null"
               e == [i \in 1..count |-> entry(i)]
    <2>1. ch = [form |-> "dense", entries |-> e]
        BY <1>3 DEF Channel
    <2>2. \A i \in 1..count : e[i] = entry(i)
        OBVIOUS
    <2>3. \A i \in 1..count : entry(i) # "bad"
        BY <1>2
    <2>4. e = [i \in 1..count |-> e[i]]
        OBVIOUS
    <2> HIDE DEF e
    <2>5. Len(e) = count /\ DOMAIN e = 1..count
        BY <1>1, <2>4, LengthOf
    <2>6. "bad" \notin ToSet(e)
        BY <2>2, <2>3, <2>5 DEF ToSet
    <2> HIDE DEF ch
    <2>7. ch.form = "dense" /\ ch.entries = e
        BY <2>1
    <2>8. ValidDense(ch, count)
        BY <2>5, <2>6, <2>7 DEF ValidDense
    <2>9. Given(ch) = {<<i - 1, e[i]>> : i \in {j \in 1..count : e[j] # "null"}}
        BY <2>5, <2>7 DEF Given
    <2>10. ASSUME NEW i \in held PROVE <<i, w[i][field]>> \in Given(ch)
        <3>1. i + 1 \in 1..count /\ (i + 1) - 1 = i
            BY <1>1
        <3>2. e[i + 1] = w[i][field] /\ e[i + 1] # "null"
            BY <1>2, <2>2, <3>1
        <3> QED
            BY <2>9, <3>1, <3>2
    <2>11. ASSUME NEW j \in 1..count, e[j] # "null" PROVE <<j - 1, e[j]>> \in pairs
        BY <2>2, <2>11
    <2> HIDE DEF held
    <2>12. Given(ch) = pairs
        BY <2>9, <2>10, <2>11
    <2> QED
        BY <1>3, <2>7, <2>8, <2>12 DEF ch, held
<1>4. CASE format # "dense"
    <2> DEFINE keys == {[n |-> i, canonical |-> TRUE] : i \in held}
               e == [k \in keys |-> w[k.n][field]]
    <2>1. ch = [form |-> "sparse", entries |-> e]
        BY <1>4 DEF Channel
    <2>2. \A k \in keys : k.n \in held /\ k.canonical /\ e[k] = w[k.n][field]
        OBVIOUS
    <2>3. \A i \in held : [n |-> i, canonical |-> TRUE] \in keys /\ [n |-> i, canonical |-> TRUE].n = i
        OBVIOUS
    <2>4. DOMAIN e = keys
        OBVIOUS
    <2>5. \A i \in held : i \in 0..(count - 1) /\ w[i][field] \notin {"null", "bad"}
        BY <1>1, <1>2
    <2> HIDE DEF e, keys, ch, held
    <2>6. ch.form = "sparse" /\ ch.entries = e
        BY <2>1
    <2>7. ValidSparse(ch, count)
        BY <2>2, <2>4, <2>5, <2>6 DEF ValidSparse, ValidIndex
    <2>8. Given(ch) = {<<k.n, e[k]>> : k \in keys}
        BY <2>4, <2>6 DEF Given
    <2>9. Given(ch) = pairs
        <3>1. ASSUME NEW i \in held PROVE <<i, w[i][field]>> \in Given(ch)
            <4> DEFINE k == [n |-> i, canonical |-> TRUE]
            <4>1. k \in keys /\ k.n = i /\ e[k] = w[i][field]
                BY <2>2, <2>3
            <4> HIDE DEF k
            <4> QED
                BY <2>8, <4>1
        <3>2. ASSUME NEW k \in keys PROVE <<k.n, e[k]>> \in pairs
            BY <2>2
        <3> QED
            BY <2>8, <3>1, <3>2
    <2> QED
        BY <1>4, <2>6, <2>7, <2>9 DEF ch, held
<1> QED
    BY <1>3, <1>4

\* The one item of a set that has at most one.
LEMMA OnlyIs ==
    ASSUME NEW x
    PROVE  OnlyOf({x}) = x /\ OnlyOf({}) = "none"
BY DEF OnlyOf

\* What a channel gives a cell is found again.
LEMMA ChannelTells ==
    ASSUME NEW w, NEW field \in Fields, NEW ch, NEW i,
           Given(ch) = {<<j, w[j][field]>> : j \in {k \in DOMAIN w : w[k][field] # "none"}}
    PROVE  OnlyOf(GivenAt(ch, i)) = IF i \in DOMAIN w THEN w[i][field] ELSE "none"
<1> DEFINE held == {k \in DOMAIN w : w[k][field] # "none"}
           pair(j) == <<j, w[j][field]>>
<1>1. GivenAt(ch, i) = {g[2] : g \in {h \in Given(ch) : h[1] = i}}
    BY DEF GivenAt
<1>2. \A j \in held : pair(j)[1] = j /\ pair(j)[2] = w[j][field] /\ pair(j) \in Given(ch)
    OBVIOUS
<1>3. \A g \in Given(ch) : \E j \in held : g = pair(j)
    OBVIOUS
<1> HIDE DEF pair
<1>4. CASE i \in held
    <2>1. \A x \in GivenAt(ch, i) : x = w[i][field]
        BY <1>1, <1>2, <1>3
    <2>2. w[i][field] \in GivenAt(ch, i)
        BY <1>1, <1>2, <1>4
    <2>3. GivenAt(ch, i) = {w[i][field]}
        BY <2>1, <2>2
    <2>4. OnlyOf(GivenAt(ch, i)) = w[i][field]
        BY <2>3, OnlyIs
    <2> QED
        BY <1>4, <2>4
<1>5. CASE i \notin held
    <2>1. GivenAt(ch, i) = {}
        BY <1>1, <1>2, <1>3, <1>5
    <2>2. OnlyOf(GivenAt(ch, i)) = "none"
        BY <2>1, OnlyIs
    <2> QED
        BY <1>5, <2>2
<1> QED
    BY <1>4, <1>5

\* A channel that is left out says nothing of a cell.
LEMMA OptionalTells ==
    ASSUME NEW w, NEW count, Cells(w, count), NEW field \in Fields, NEW format, NEW i
    PROVE  LET ch == Optional(w, count, field, format) IN
           /\ \/ ch = Absent
              \/ /\ ValidDense(ch, count) \/ ValidSparse(ch, count)
                 /\ ch.form = IF format = "dense" THEN "dense" ELSE "sparse"
           /\ ch.form # "scalar"
           /\ \A g \in Given(ch) : g[1] \in DOMAIN w /\ w[g[1]][field] # "none"
           /\ OnlyOf(GivenAt(ch, i)) = IF i \in DOMAIN w THEN w[i][field] ELSE "none"
<1> DEFINE ch == Optional(w, count, field, format)
<1>1. CASE \E j \in DOMAIN w : w[j][field] # "none"
    <2>1. ch = Channel(w, count, field, format)
        BY <1>1 DEF Optional
    <2> HIDE DEF ch
    <2>2. /\ ValidDense(ch, count) \/ ValidSparse(ch, count)
          /\ ch.form = IF format = "dense" THEN "dense" ELSE "sparse"
          /\ Given(ch) = {<<j, w[j][field]>> : j \in {k \in DOMAIN w : w[k][field] # "none"}}
        BY <2>1, ChannelGives
    <2>3. OnlyOf(GivenAt(ch, i)) = IF i \in DOMAIN w THEN w[i][field] ELSE "none"
        BY <2>2, ChannelTells
    <2>4. \A g \in Given(ch) : g[1] \in DOMAIN w /\ w[g[1]][field] # "none"
        BY <2>2
    <2>5. ch.form # "scalar"
        BY <2>2
    <2> QED
        BY <2>2, <2>3, <2>4, <2>5 DEF ch
<1>2. CASE ~\E j \in DOMAIN w : w[j][field] # "none"
    <2>1. ch = Absent
        BY <1>2 DEF Optional
    <2>2. Given(Absent) = {}
        BY DEF Given, Absent
    <2>3. GivenAt(Absent, i) = {}
        BY <2>2 DEF GivenAt
    <2>4. OnlyOf(GivenAt(Absent, i)) = "none"
        BY <2>3, OnlyIs
    <2>5. Absent.form # "scalar"
        BY DEF Absent
    <2>6. "none" = IF i \in DOMAIN w THEN w[i][field] ELSE "none"
        BY <1>2
    <2> HIDE DEF ch
    <2>7. /\ ch = Absent /\ ch.form # "scalar" /\ Given(ch) = {}
          /\ OnlyOf(GivenAt(ch, i)) = IF i \in DOMAIN w THEN w[i][field] ELSE "none"
        BY <2>1, <2>2, <2>4, <2>5, <2>6
    <2> QED
        BY <2>7 DEF ch
<1> QED
    BY <1>1, <1>2

\* The part of it that the checks of a channel need.
LEMMA OptionalIs ==
    ASSUME NEW w, NEW count, Cells(w, count), NEW field \in Fields, NEW format,
           NEW ch, ch = Optional(w, count, field, format)
    PROVE  /\ \/ ch = Absent
              \/ /\ ValidDense(ch, count) \/ ValidSparse(ch, count)
                 /\ ch.form = IF format = "dense" THEN "dense" ELSE "sparse"
           /\ ch.form # "scalar"
           /\ \A g \in Given(ch) : g[1] \in DOMAIN w /\ w[g[1]][field] # "none"
<1> QED
    BY OptionalTells

\* A status is shared only when every cell of the cube has it.
LEMMA SharedIs ==
    ASSUME NEW w, NEW count, Cells(w, count), NEW s \in SharedStatus(w, count)
    PROVE  DOMAIN w = 0..(count - 1) /\ \A i \in DOMAIN w : w[i].status = s
<1> DEFINE D == DOMAIN w
           statuses == {w[i].status : i \in D}
           f == [i \in D |-> w[i].status]
<1>1. count \in Nat \ {0} /\ D \subseteq 0..(count - 1)
    BY DEF Cells
<1>2. Cardinality(D) >= count /\ Cardinality(statuses) = 1 /\ s \in statuses
    BY DEF SharedStatus
<1>3. IsFiniteSet(0..(count - 1)) /\ Cardinality(0..(count - 1)) = count
    BY <1>1, FS_Interval
<1>4. IsFiniteSet(D) /\ Cardinality(D) \in Nat /\ Cardinality(D) <= count
    <2> HIDE DEF D
    <2>1. IsFiniteSet(D) /\ Cardinality(D) <= count
        BY <1>1, <1>3, FS_Subset
    <2> QED
        BY <2>1, FS_CardinalityType
<1>5. D = 0..(count - 1)
    <2>1. Cardinality(D) = count
        BY <1>1, <1>2, <1>4
    <2> HIDE DEF D
    <2> QED
        BY <1>1, <1>3, <2>1, FS_Subset
<1>6. f \in Surjection(D, statuses)
    BY DEF Surjection
<1> HIDE DEF D, f, statuses
<1>7. IsFiniteSet(statuses)
    BY <1>4, <1>6, FS_Surjection
<1>8. PICK x : statuses = {x}
    BY <1>2, <1>7, FS_Singleton
<1>9. \A i \in D : w[i].status = s
    BY <1>2, <1>8 DEF statuses
<1> QED
    BY <1>5, <1>9 DEF D

\* A response has the cells it was made of.
LEMMA ResponseCells ==
    ASSUME NEW view_, NEW count, Cells(view_.cells, count),
           count = CheckedProduct(Sizes(view_.dimensions), MaxCellCount).count, NEW format
    PROVE  /\ ValidChannels(DataResponse(view_, format), count)
           /\ RequestCells(DataResponse(view_, format), count) = view_.cells
<1> DEFINE p == DataResponse(view_, format)
           w == view_.cells
           shared == SharedStatus(w, count)
           D == DOMAIN w
           all == 0..(count - 1)
<1>1. /\ p.value = Channel(w, count, "numeric", format)
      /\ p.text = Optional(w, count, "text", format)
      /\ p.status = IF shared # {}
                    THEN [form |-> "scalar", entries |-> <<CHOOSE s \in shared : TRUE>>]
                    ELSE Optional(w, count, "status", format)
    BY DEF DataResponse
<1> HIDE DEF p, w, shared
<1>2. Cells(w, count)
    BY DEF w
<1>3. {"numeric", "text", "status"} \subseteq Fields
    BY DEF Fields
<1>4. /\ ValidDense(p.value, count) \/ ValidSparse(p.value, count)
      /\ p.value.form = IF format = "dense" THEN "dense" ELSE "sparse"
      /\ Given(p.value) = {<<j, w[j]["numeric"]>> : j \in {k \in DOMAIN w : w[k]["numeric"] # "none"}}
    BY <1>1, <1>2, <1>3, ChannelGives
<1>5. /\ \/ p.text = Absent
         \/ /\ ValidDense(p.text, count) \/ ValidSparse(p.text, count)
            /\ p.text.form = IF format = "dense" THEN "dense" ELSE "sparse"
      /\ \A g \in Given(p.text) : g[1] \in DOMAIN w /\ w[g[1]]["text"] # "none"
    <2>1. "text" \in Fields
        BY <1>3
    <2> QED
        BY <1>1, <1>2, <2>1, OptionalIs
<1>6. \A i \in D : /\ w[i] = [numeric |-> w[i].numeric, text |-> w[i].text, status |-> w[i].status]
                   /\ w[i] # Empty /\ (w[i].numeric = "none" \/ w[i].text = "none")
    BY <1>2 DEF Cells, Content
<1>7. ValidText(p, count)
    <2>1. Absent.form = "absent"
        BY DEF Absent
    <2> QED
        BY <1>4, <1>5, <2>1 DEF ValidText
<1>8. \A v \in Given(p.value), t \in Given(p.text) : v[1] # t[1]
    <2> SUFFICES ASSUME NEW v \in Given(p.value), NEW t \in Given(p.text), v[1] = t[1] PROVE FALSE
        OBVIOUS
    <2>1. v[1] \in D /\ w[v[1]].numeric # "none"
        BY <1>4
    <2>2. w[v[1]].text # "none"
        BY <1>5
    <2> QED
        BY <1>6, <2>1, <2>2
<1>9. ValidStatus(p.status, count)
    <2>1. CASE shared # {}
        BY <1>1, <2>1 DEF ValidStatus
    <2>2. CASE shared = {}
        <3>1. p.status = Optional(w, count, "status", format)
            BY <1>1, <2>2
        <3>2. p.status = Absent \/ ValidDense(p.status, count) \/ ValidSparse(p.status, count)
            BY <1>2, <1>3, <3>1, OptionalIs
        <3>3. Absent.form = "absent"
            BY DEF Absent
        <3> QED
            BY <3>2, <3>3 DEF ValidStatus
    <2> QED
        BY <2>1, <2>2
<1>10. ValidChannels(p, count)
    BY <1>4, <1>7, <1>8, <1>9 DEF ValidChannels
<1>11. ASSUME NEW i \in all PROVE CellAt(p, i) = IF i \in D THEN w[i] ELSE Empty
    <2>1. OnlyOf(GivenAt(p.value, i)) = IF i \in D THEN w[i].numeric ELSE "none"
        BY <1>3, <1>4, ChannelTells
    <2>2. OnlyOf(GivenAt(p.text, i)) = IF i \in D THEN w[i].text ELSE "none"
        BY <1>1, <1>2, <1>3, OptionalTells
    <2>3. StatusAt(p, i) = IF i \in D THEN w[i].status ELSE "none"
        <3>1. CASE shared # {}
            <4> DEFINE s == CHOOSE x \in shared : TRUE
            <4>1. s \in shared
                BY <3>1
            <4>2. p.status.form = "scalar" /\ p.status.entries[1] = s
                BY <1>1, <3>1
            <4> HIDE DEF s
            <4>3. D = all /\ \A j \in D : w[j].status = s
                BY <1>2, <4>1, SharedIs DEF shared
            <4> QED
                BY <4>2, <4>3 DEF StatusAt
        <3>2. CASE shared = {}
            <4>1. p.status = Optional(w, count, "status", format)
                BY <1>1, <3>2
            <4>2. p.status.form # "scalar"
                BY <1>2, <1>3, <4>1, OptionalIs
            <4>3. OnlyOf(GivenAt(p.status, i)) = IF i \in D THEN w[i].status ELSE "none"
                BY <1>2, <1>3, <4>1, OptionalTells
            <4> QED
                BY <4>2, <4>3 DEF StatusAt
        <3> QED
            BY <3>1, <3>2
    <2>4. CellAt(p, i) = [numeric |-> OnlyOf(GivenAt(p.value, i)),
                          text |-> OnlyOf(GivenAt(p.text, i)), status |-> StatusAt(p, i)]
        BY DEF CellAt
    <2>5. CASE i \in D
        BY <1>6, <2>1, <2>2, <2>3, <2>4, <2>5
    <2>6. CASE i \notin D
        BY <2>1, <2>2, <2>3, <2>4, <2>6 DEF Empty
    <2> QED
        BY <2>5, <2>6
<1>12. RequestCells(p, count) = [i \in {j \in all : CellAt(p, j) # Empty} |-> CellAt(p, i)]
    BY RequestCellsAre
<1>13. {j \in all : CellAt(p, j) # Empty} = D
    <2>1. D \subseteq all
        BY <1>2 DEF Cells
    <2> QED
        BY <1>6, <1>11, <2>1
<1>14. [i \in D |-> CellAt(p, i)] = [i \in D |-> w[i]]
    <2>1. \A i \in D : CellAt(p, i) = w[i]
        <3>1. D \subseteq all
            BY <1>2 DEF Cells
        <3> QED
            BY <1>11, <3>1
    <2> QED
        BY <2>1
<1>15. w = [i \in D |-> w[i]]
    BY <1>2 DEF Cells
<1>16. RequestCells(p, count) = w
    BY <1>12, <1>13, <1>14, <1>15
<1> QED
    BY <1>10, <1>16 DEF p, w

-----------------------------------------------------------------------------
(* What a response means.                                                  *)

\* Dimensions and cells as the store returns them.
View(v, w) ==
    /\ Parsed(v) /\ Len(v) <= MaxDimensions /\ Count(v) \in 1..MaxCells
    /\ Cells(w, Count(v))

\* A stored dataset can be returned.
LEMMA StoredIsView ==
    ASSUME NEW p, Accepted(p), DecodedStatus(p)
    PROVE  LET d == ParseReplacement(p).dataset IN View(d.dimensions, d.cells)
<1> DEFINE a == RequestDimensions(p)
           d == ParseReplacement(p).dataset
           b == StoredDimensions(a)
           cells == RequestCells(p, Count(a))
           moved == Moved(cells, a, b)
<1>1. /\ ValidDimensions(p) /\ Parsed(a) /\ ValidChannels(p, Count(a))
      /\ Count(a) \in 1..MaxCells
      /\ d.dimensions = b /\ d.cells = moved
    BY AcceptedIs
<1>2. Len(a) = Len(p.id) /\ Len(p.id) <= MaxDimensions
    BY <1>1, RequestIs, CodeAssumption DEF Accepted, ValidDimensions
<1>3. Parsed(d.dimensions) /\ SameDimensions(a, d.dimensions) /\ Count(d.dimensions) = Count(a)
    BY AcceptedMeans
<1> HIDE DEF a, d, b
<1>4. /\ Inside(a, b) /\ WellFormed(a) /\ WellFormed(b)
      /\ Len(b) = Len(a) /\ Count(b) = Count(a)
    BY <1>1, <1>3, SameInside DEF Parsed, SameDimensions
<1>5. DOMAIN cells \subseteq 0..(Count(a) - 1)
    BY RequestCellsAre
<1>6. \A i \in DOMAIN cells : Content(cells[i])
    BY <1>1, RequestContent
<1>7. moved = [n \in DOMAIN moved |-> moved[n]]
    <2> DEFINE new == [i \in DOMAIN cells |-> RemapCellIndex(i, a, b)]
               D == {new[i] : i \in DOMAIN cells}
               at(n) == cells[CHOOSE i \in DOMAIN cells : new[i] = n]
    <2>1. moved = [n \in D |-> at(n)]
        BY Zenon DEF Moved
    <2> HIDE DEF moved, D, at
    <2> QED
        BY <2>1
<1> HIDE DEF cells
<1>8. /\ DOMAIN moved \subseteq 0..(Count(b) - 1)
      /\ \A m \in DOMAIN moved : \E i \in DOMAIN cells : moved[m] = cells[i]
    BY <1>4, <1>5, MovedMeans
<1> HIDE DEF moved
<1>9. Cells(moved, Count(b))
    <2>1. Count(b) \in Nat \ {0}
        <3>1. MaxCells \in Int
            BY LimitAssumption, MaxIntAssumption
        <3> QED
            BY <1>1, <1>4, <3>1
    <2> QED
        BY <1>6, <1>7, <1>8, <2>1 DEF Cells
<1> QED
    BY <1>1, <1>2, <1>3, <1>4, <1>9 DEF View, d

\* What is selected of a view is one.
LEMMA SelectedIsView ==
    ASSUME NEW a, NEW b, NEW cells, Parsed(a), View(b, cells), Selectable(a, b),
           Count(Selected(a, b)) \in 1..MaxCells
    PROVE  View(Selected(a, b),
                Picked(cells, SelectedIndexes(Selected(a, b), b, Count(Selected(a, b)))))
<1> DEFINE o == Selected(a, b)
           indexes == SelectedIndexes(o, b, Count(o))
           out == Picked(cells, indexes)
<1>1. Parsed(b) /\ Cells(cells, Count(b)) /\ Len(b) <= MaxDimensions
    BY DEF View
<1>2. Parsed(o) /\ Inside(o, b)
    BY <1>1, SelectedIs
<1>3. Len(o) = Len(b)
    BY <1>2 DEF Inside
<1>4. DOMAIN cells \subseteq 0..(Count(b) - 1) /\ \A i \in DOMAIN cells : Content(cells[i])
    BY <1>1 DEF Cells
<1>5. /\ DOMAIN out \subseteq 0..(Count(o) - 1)
      /\ \A n \in DOMAIN out : \E k \in DOMAIN cells : out[n] = cells[k]
    BY <1>1, <1>4, SelectedMeans
<1>6. Count(o) \in Nat \ {0} /\ Count(o) \in 1..MaxCells
    <2>1. MaxCells \in Int
        BY LimitAssumption, MaxIntAssumption
    <2>2. Count(o) \in 1..MaxCells
        OBVIOUS
    <2> HIDE DEF o
    <2> QED
        BY <2>1, <2>2
<1>7. out = [n \in DOMAIN out |-> out[n]]
    <2> HIDE DEF indexes
    <2> QED
        BY DEF Picked
<1> HIDE DEF out, indexes, o
<1>8. Cells(out, Count(o))
    BY <1>4, <1>5, <1>6, <1>7 DEF Cells
<1> QED
    BY <1>1, <1>2, <1>3, <1>6, <1>8 DEF View, o, indexes, out

\* A view is presented as a submission that means the same.
LEMMA ViewPresented ==
    ASSUME NEW view_, View(view_.dimensions, view_.cells), NEW format
    PROVE  LET again == ParseReplacement(DataResponse(view_, format)) IN
           /\ again.error = "none"
           /\ Meaning(again.dataset.dimensions, again.dataset.cells)
                  = Meaning(view_.dimensions, view_.cells)
<1> DEFINE v == view_.dimensions
           w == view_.cells
           p == DataResponse(view_, format)
           size == Sizes(v)
           count == Count(v)
<1>1. /\ Parsed(v) /\ Len(v) <= MaxDimensions /\ count \in 1..MaxCells
      /\ Cells(w, count)
    BY DEF View
<1>2. size \in Shapes
    BY <1>1, SizesShape DEF Parsed
<1>3. /\ size \in Seq(Nat) /\ size # <<>> /\ \A i \in DOMAIN size : size[i] >= 1
      /\ Product(size) = count
    <2>1. \A i \in DOMAIN size : size[i] \in Nat \ {0}
        BY <1>2, ShapeType
    <2>2. size \in Seq(Nat) /\ size # <<>>
        BY <1>2, ShapeIsSeq
    <2> HIDE DEF size
    <2>3. \A i \in DOMAIN size : size[i] >= 1
        BY <2>1
    <2> QED
        BY <2>2, <2>3 DEF Count, size
<1>4. /\ MaxCells \in 1..MaxInt /\ MaxCellCount \in 1..MaxInt /\ count \in Nat
      /\ count <= MaxCells /\ count <= MaxCellCount
    BY <1>1, LimitAssumption, MaxIntAssumption
<1> HIDE DEF size, count
<1>5. /\ CheckedProduct(size, MaxCells).error = "none"
      /\ CheckedProduct(size, MaxCells).count = count
    BY <1>3, <1>4, ProductDecides
<1>6. CheckedProduct(size, MaxCellCount).count = count
    BY <1>3, <1>4, ProductDecides
<1>7. p.id = Structure(view_).id /\ p.dimension = Structure(view_).dimension
    BY DEF DataResponse
<1>8. ValidChannels(p, count) /\ RequestCells(p, count) = w
    <2>1. count = CheckedProduct(Sizes(view_.dimensions), MaxCellCount).count
        BY <1>6 DEF size
    <2> QED
        BY <1>1, <2>1, ResponseCells
<1> HIDE DEF p
<1>9. DecodedDimensions(p) /\ ValidDimensions(p) /\ RequestDimensions(p) = v
    <2>1. Parsed(view_.dimensions) /\ Len(view_.dimensions) <= MaxDimensions /\ MaxDimensions \in Nat
        BY <1>1, CodeAssumption
    <2>2. /\ DecodedDimensions(p) /\ ValidDimensions(p)
          /\ RequestDimensions(p) = view_.dimensions
        BY <1>7, <2>1, StructureParses
    <2> QED
        BY <2>2
<1>10. ParseReplacement(p).error = "none"
    <2> DEFINE a == RequestDimensions(p)
               checked == CheckedProduct(Sizes(a), MaxCells)
               cells == RequestCells(p, checked.count)
               stored_ == Remap(a, cells)
               d == [dimensions |-> stored_.dimensions, cells |-> stored_.cells,
                     cellCount |-> checked.count,
                     valuedCount |-> Cardinality({i \in DOMAIN cells :
                         cells[i].numeric # "none" \/ cells[i].text # "none"})]
               refuse(e) == [error |-> e, dataset |-> NoDataset]
               good == /\ ValidDimensions(p) /\ checked.error = "none"
                       /\ ValidChannels(p, checked.count)
               invalid == refuse("validation_failed")
               large == refuse("cell_limit_exceeded")
               accepted == [error |-> "none", dataset |-> d]
    <2>1. ParseReplacement(p) =
             CASE ~ValidDimensions(p) -> invalid
               [] ValidDimensions(p) /\ checked.error = "limit" -> large
               [] good -> accepted
               [] OTHER -> invalid
        BY Zenon DEF ParseReplacement
    <2>2. checked.error = "none" /\ checked.count = count
        BY <1>5, <1>9 DEF size
    <2>3. accepted.error = "none"
        OBVIOUS
    <2>4. good /\ checked.error # "limit"
        BY <1>8, <1>9, <2>2
    <2> HIDE DEF checked, d, good, invalid, large, accepted
    <2> QED
        BY <1>9, <2>1, <2>3, <2>4
<1>11. Accepted(p)
    BY <1>9, <1>10 DEF Accepted
<1>12. Meaning(ParseReplacement(p).dataset.dimensions, ParseReplacement(p).dataset.cells)
           = Meaning(RequestDimensions(p), RequestCells(p, Count(RequestDimensions(p))))
    BY <1>11, AcceptedMeans
<1> QED
    BY <1>8, <1>9, <1>10, <1>12 DEF p, count

\* The response to a request means what the store returned for it.
LEMMA HeldMeansView == Held => ResponseMeansView
<1> SUFFICES ASSUME Held, stage = "answered" PROVE ResponseMeansView
    BY DEF ResponseMeansView
<1>1. /\ Kept /\ stored # NoDataset
      /\ \/ view = [dimensions |-> stored.dimensions, cells |-> stored.cells]
         \/ \E q \in Selection : Asked(q)
    BY DEF Held, Answered
<1>2. PICK format : response = DataResponse(view, format)
    BY DEF Held, Answered
<1>3. Accepted(body) /\ stored = ParseReplacement(body).dataset
    BY <1>1, KeptAccepted
<1>4. DecodedStatus(body)
    BY <1>1, BodyAssumption DEF Kept
<1>5. View(stored.dimensions, stored.cells)
    BY <1>3, <1>4, StoredIsView
<1>6. View(view.dimensions, view.cells)
    <2>1. CASE view = [dimensions |-> stored.dimensions, cells |-> stored.cells]
        BY <1>5, <2>1
    <2>2. ASSUME NEW q \in Selection, Asked(q) PROVE View(view.dimensions, view.cells)
        <3> DEFINE a == ParseSelection(q).selection
                   b == stored.dimensions
                   r == ResolveSelection(a, b, MaxCells)
        <3>1. /\ SelectionParsed(q) /\ r.error = "none"
              /\ view = [dimensions |-> r.dimensions, cells |-> Picked(stored.cells, r.indexes)]
            BY <2>2 DEF Asked
        <3>2. Parsed(a) /\ Parsed(b)
            BY <1>5, <3>1, SelectionIs DEF View
        <3> HIDE DEF a, b
        <3>3. /\ Selectable(a, b) /\ r.dimensions = Selected(a, b)
              /\ Count(Selected(a, b)) \in 1..MaxCells
              /\ r.indexes = SelectedIndexes(Selected(a, b), b, Count(Selected(a, b)))
            BY <3>1, <3>2, ResolvedIs
        <3>4. View(b, stored.cells)
            BY <1>5 DEF b
        <3>5. View(r.dimensions, Picked(stored.cells, r.indexes))
            BY <3>2, <3>3, <3>4, SelectedIsView
        <3> QED
            BY <3>1, <3>5
    <2> QED
        BY <1>1, <2>1, <2>2
<1>7. LET again == ParseReplacement(DataResponse(view, format)) IN
      /\ again.error = "none"
      /\ Meaning(again.dataset.dimensions, again.dataset.cells)
             = Meaning(view.dimensions, view.cells)
    BY <1>6, ViewPresented
<1> QED
    BY <1>2, <1>7 DEF ResponseMeansView

\* What the client is sent, dense or sparse, would be accepted as a submission
\* and would mean what the store returned: no representation, with or without
\* the optional channels and the shared status, loses, invents or moves a value
\* (DataResponse, ParseReplacement).
THEOREM MeansView == Spec => []ResponseMeansView
BY AlwaysHeld, HeldMeansView, PTL
=============================================================================
