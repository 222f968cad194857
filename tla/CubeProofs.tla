------------------------------- MODULE CubeProofs -------------------------------
(***************************************************************************)
(* Proofs about the arithmetic of cubes, for any sizes, limit and width of *)
(* integers: CheckedProduct is exact, and Coordinates and CellIndex are    *)
(* inverse.                                                                *)
(***************************************************************************)
EXTENDS MCCube, SequenceTheorems, NaturalsInduction, WellFoundedInduction, TLAPS

-----------------------------------------------------------------------------
(* Numbers.                                                                *)

Less == {pair \in Nat \X Nat : pair[1] < pair[2]}

\* A set of numbers has a least one.
LEMMA Smallest ==
    ASSUME NEW S \in SUBSET Nat, S # {}
    PROVE  \E n \in S : \A m \in S : n <= m
<1>1. IsWellFoundedOn(Less, Nat)
    BY NatLessThanWellFounded DEF OpToRel, Less
<1>2. \A a, b \in Nat : <<a, b>> \in Less <=> a < b
    BY DEF Less
<1>3. PICK x \in S : \A y \in S : ~(<<y, x>> \in Less)
    BY <1>1, WFMin
<1>4. \A m \in S : ~(m < x)
    BY <1>2, <1>3, Zenon
<1> QED
    BY <1>4

\* Induction over the numbers up to n, for a set.
LEMMA Reaches ==
    ASSUME NEW n \in Nat, NEW S, 0 \in S,
           \A k \in 1..n : k - 1 \in S => k \in S
    PROVE  0..n \subseteq S
<1> DEFINE T == (0..n) \ S
<1> SUFFICES ASSUME T # {} PROVE FALSE
    OBVIOUS
<1> T \in SUBSET Nat
    OBVIOUS
<1>1. PICK k \in T : \A m \in T : k <= m
    BY Smallest
<1>2. k \in 1..n /\ k - 1 \in 0..n /\ k - 1 \notin T
    BY <1>1
<1> QED
    BY <1>1, <1>2

\* The same downwards.
LEMMA ReachesDown ==
    ASSUME NEW n \in Nat, NEW S, n \in S,
           \A k \in 1..n : k \in S => k - 1 \in S
    PROVE  0..n \subseteq S
<1> DEFINE T == {m \in 0..n : n - m \in S}
<1>1. 0 \in T
    OBVIOUS
<1>2. ASSUME NEW k \in 1..n, k - 1 \in T PROVE k \in T
    <2>1. n - (k - 1) \in 1..n /\ n - (k - 1) \in S
        BY <1>2
    <2>2. n - (k - 1) - 1 \in S /\ n - (k - 1) - 1 = n - k
        BY <2>1
    <2> QED
        BY <2>2
<1>3. 0..n \subseteq T
    BY <1>1, <1>2, Reaches
<1>4. ASSUME NEW m \in 0..n PROVE m \in S
    <2>1. n - m \in T
        BY <1>3
    <2> QED
        BY <2>1
<1> QED
    BY <1>4

\* A set of numbers with a bound has a largest one.
LEMMA Largest ==
    ASSUME NEW n \in Nat, NEW S \in SUBSET (1..n), S # {}
    PROVE  Max(S) \in S /\ \A m \in S : Max(S) >= m
<1> DEFINE T == {n - m : m \in S}
<1>1. T \in SUBSET Nat /\ T # {}
    <2>1. \A m \in S : m \in 1..n
        OBVIOUS
    <2>2. \A m \in 1..n : n - m \in Nat
        OBVIOUS
    <2> QED
        BY <2>1, <2>2
<1>2. PICK k \in T : \A j \in T : k <= j
    BY <1>1, Smallest
<1>3. PICK m \in S : k = n - m
    BY <1>2
<1>4. ASSUME NEW j \in S PROVE m >= j
    <2>1. n - j \in T
        OBVIOUS
    <2>2. k <= n - j
        BY <1>2, <2>1
    <2>3. m \in 1..n /\ j \in 1..n
        OBVIOUS
    <2> HIDE DEF T
    <2> QED
        BY <1>3, <2>2, <2>3
<1> QED
    BY <1>4 DEF Max

\* Multiplication grows with its factors.
LEMMA Grows ==
    ASSUME NEW a \in Nat, NEW b \in Nat, NEW c \in Nat, a <= b
    PROVE  a * c <= b * c
<1>1. b * c - a * c = (b - a) * c
    OBVIOUS
<1>2. b - a \in Nat
    OBVIOUS
<1>3. (b - a) * c \in Nat
    BY <1>2
<1> QED
    BY <1>1, <1>3

\* The quotient and the remainder.
LEMMA Divided ==
    ASSUME NEW a \in Nat, NEW b \in Nat \ {0}
    PROVE  /\ a \div b \in Nat /\ a % b \in 0..(b - 1)
           /\ a = b * (a \div b) + (a % b)
OBVIOUS

\* A quotient is below what its dividend is a multiple below.
LEMMA Below ==
    ASSUME NEW a \in Nat, NEW b \in Nat \ {0}, NEW c \in Nat
    PROVE  a \div b < c <=> a < b * c
<1> DEFINE q == a \div b
           r == a % b
<1>1. q \in Nat /\ r \in 0..(b - 1) /\ a = b * q + r
    BY Divided
<1> HIDE DEF q, r
<1>2. ASSUME q < c PROVE a < b * c
    <2>1. (q + 1) * b <= c * b
        BY <1>1, <1>2, Grows
    <2>2. (q + 1) * b = b * q + b /\ c * b = b * c
        BY <1>1
    <2> QED
        BY <1>1, <2>1, <2>2
<1>3. ASSUME ~(q < c) PROVE ~(a < b * c)
    <2>1. c * b <= q * b
        BY <1>1, <1>3, Grows
    <2>2. c * b = b * c /\ q * b = b * q
        BY <1>1
    <2> QED
        BY <1>1, <2>1, <2>2
<1>4. q < c <=> a < b * c
    BY <1>2, <1>3
<1> QED
    BY <1>4 DEF q

-----------------------------------------------------------------------------
(* Folds.  FoldLeft is a recursive function on sets of positions, which is *)
(* there because a set of positions has a largest element.                 *)

Folded(F, n, base, fold) ==
    fold = [S \in SUBSET (1..n) |->
               IF S = {} THEN base ELSE F[<<fold[S \ {Max(S)}], Max(S)>>]]

\* A recursion over the sets of positions, largest first, has a solution.
LEMMA FoldExists ==
    ASSUME NEW n \in Nat, NEW A, NEW base \in A, NEW F \in [A \X (1..n) -> A]
    PROVE  \E fold \in [SUBSET (1..n) -> A] : Folded(F, n, base, fold)
<1> DEFINE Step(fold, k) ==
               [S \in SUBSET (1..k) |->
                   IF S = {} THEN base ELSE F[<<fold[S \ {Max(S)}], Max(S)>>]]
           Good == {k \in 0..n : \E fold \in [SUBSET (1..k) -> A] : fold = Step(fold, k)}
<1>1. 0 \in Good
    <2> DEFINE fold == [S \in SUBSET (1..0) |-> base]
    <2>1. \A S \in SUBSET (1..0) : S = {}
        OBVIOUS
    <2>2. fold \in [SUBSET (1..0) -> A] /\ fold = Step(fold, 0)
        BY <2>1
    <2> QED
        BY <2>2
<1>2. ASSUME NEW k \in 1..n, k - 1 \in Good PROVE k \in Good
    <2>1. PICK g \in [SUBSET (1..(k - 1)) -> A] : g = Step(g, k - 1)
        BY <1>2
    <2> DEFINE fold == [S \in SUBSET (1..k) |->
                           IF k \in S THEN F[<<g[S \ {k}], k>>] ELSE g[S]]
    <2> k \in Nat
        OBVIOUS
    <2>2. ASSUME NEW S \in SUBSET (1..k) PROVE S \ {k} \in SUBSET (1..(k - 1))
        OBVIOUS
    <2>3. ASSUME NEW S \in SUBSET (1..k), k \in S PROVE Max(S) = k
        <3> HIDE DEF Good, fold
        <3>1. S # {}
            BY <2>3
        <3>2. Max(S) \in S /\ Max(S) >= k
            BY <2>3, <3>1, Largest
        <3>3. Max(S) \in 1..k
            BY <3>2
        <3> QED
            BY <3>2, <3>3
    <2>4. ASSUME NEW S \in SUBSET (1..(k - 1))
          PROVE  k \notin S /\ S \in SUBSET (1..k) /\ fold[S] = g[S]
        OBVIOUS
    <2>5. fold \in [SUBSET (1..k) -> A]
        <3>1. ASSUME NEW S \in SUBSET (1..k), k \in S PROVE F[<<g[S \ {k}], k>>] \in A
            <4>1. g[S \ {k}] \in A
                BY <2>1, <2>2
            <4> QED
                BY <4>1
        <3>2. ASSUME NEW S \in SUBSET (1..k), k \notin S PROVE g[S] \in A
            <4>1. S = S \ {k}
                BY <3>2
            <4> QED
                BY <2>1, <2>2, <4>1
        <3> QED
            BY <3>1, <3>2
    <2>6. ASSUME NEW S \in SUBSET (1..k) PROVE fold[S] = Step(fold, k)[S]
        <3>1. CASE k \in S
            <4>1. fold[S \ {k}] = g[S \ {k}]
                BY <2>2, <2>4
            <4>2. Max(S) = k /\ S # {}
                BY <2>3, <3>1
            <4> QED
                BY <3>1, <4>1, <4>2
        <3>2. CASE k \notin S /\ S # {}
            <4>1. S \in SUBSET (1..(k - 1))
                BY <3>2
            <4>2. Max(S) \in S
                <5> HIDE DEF Good, fold
                <5> QED
                    BY <3>2, Largest
            <4>3. S \ {Max(S)} \in SUBSET (1..(k - 1))
                BY <4>1
            <4>4. fold[S \ {Max(S)}] = g[S \ {Max(S)}] /\ fold[S] = g[S]
                BY <2>4, <4>1, <4>3
            <4>5. g[S] = F[<<g[S \ {Max(S)}], Max(S)>>]
                BY <2>1, <3>2, <4>1
            <4> QED
                BY <3>2, <4>4, <4>5
        <3>3. CASE S = {}
            <4>1. fold[S] = g[S] /\ g[S] = base
                BY <2>1, <3>3
            <4> QED
                BY <3>3, <4>1
        <3> QED
            BY <3>1, <3>2, <3>3
    <2> HIDE DEF fold
    <2>7. fold = [S \in SUBSET (1..k) |-> fold[S]]
        BY <2>5
    <2>8. fold = Step(fold, k)
        BY <2>6, <2>7
    <2> HIDE DEF Step
    <2> QED
        BY <2>5, <2>8
<1>3. n \in Good
    <2> HIDE DEF Good
    <2>1. 0..n \subseteq Good
        BY <1>1, <1>2, Reaches
    <2> QED
        BY <2>1
<1> QED
    BY <1>3 DEF Folded

-----------------------------------------------------------------------------
(* CheckedProduct.                                                         *)

Product(s) == FoldLeft(LAMBDA p, size : p * size, 1, s)

\* The products of the first sizes.
Products(s, p) ==
    /\ p \in [0..Len(s) -> Nat] /\ p[0] = 1 /\ p[Len(s)] = Product(s)
    /\ \A k \in 1..Len(s) : p[k] = p[k - 1] * s[k]

\* What a fold has at each position.
LEMMA FoldedPrefixes ==
    ASSUME NEW n \in Nat, NEW k \in 1..n
    PROVE  /\ 1..k \in SUBSET (1..n) /\ 1..k # {} /\ Max(1..k) = k
           /\ (1..k) \ {k} = 1..(k - 1)
           /\ 1..0 = {}
<1>1. 1..k \in SUBSET (1..n) /\ k \in 1..k /\ (1..k) \ {k} = 1..(k - 1) /\ 1..0 = {}
    OBVIOUS
<1>2. Max(1..k) \in 1..k /\ Max(1..k) >= k
    BY <1>1, Largest
<1>3. Max(1..k) = k
    BY <1>2
<1> QED
    BY <1>1, <1>3

\* The fold of the product is such a recursion.
LEMMA ProductsExist == ASSUME NEW s \in Seq(Nat) PROVE \E p : Products(s, p)
<1> DEFINE n == Len(s)
           F == [x \in Nat \X (1..n) |-> x[1] * s[x[2]]]
           Is(fold) == fold = [S \in SUBSET (1..n) |->
                                  IF S = {} THEN 1 ELSE fold[S \ {Max(S)}] * s[Max(S)]]
<1>1. n \in Nat /\ DOMAIN s = 1..n /\ \A k \in 1..n : s[k] \in Nat
    BY LenProperties
<1>2. Product(s) = (CHOOSE fold : Is(fold))[1..n]
    <2>1. Product(s) = (CHOOSE fold : fold = [S \in SUBSET DOMAIN s |->
                IF S = {} THEN 1 ELSE fold[S \ {Max(S)}] * s[Max(S)]])[DOMAIN s]
        BY DEF Product, FoldLeft, MapThenFoldSet
    <2> QED
        BY <1>1, <2>1, Zenon
<1>3. F \in [Nat \X (1..n) -> Nat]
    BY <1>1
<1>4. PICK h \in [SUBSET (1..n) -> Nat] : Folded(F, n, 1, h)
    <2> HIDE DEF F
    <2> QED
        BY <1>1, <1>3, FoldExists
<1>5. Is(h)
    <2>1. ASSUME NEW S \in SUBSET (1..n), S # {}
          PROVE  F[<<h[S \ {Max(S)}], Max(S)>>] = h[S \ {Max(S)}] * s[Max(S)]
        <3>1. Max(S) \in 1..n
            <4>1. Max(S) \in S
                BY <1>1, <2>1, Largest
            <4> QED
                BY <4>1
        <3>2. h[S \ {Max(S)}] \in Nat
            OBVIOUS
        <3> QED
            BY <3>1, <3>2
    <2> HIDE DEF F, n
    <2> QED
        BY <1>4, <2>1 DEF Folded
<1> DEFINE f == CHOOSE fold : Is(fold)
           p == [k \in 0..n |-> f[1..k]]
<1>6. Is(f)
    BY <1>5, Zenon
<1>7. f[{}] = 1
    BY <1>6
<1>8. ASSUME NEW k \in 1..n PROVE f[1..k] = f[1..(k - 1)] * s[k]
    <2>1. /\ 1..k \in SUBSET (1..n) /\ 1..k # {} /\ Max(1..k) = k
          /\ (1..k) \ {k} = 1..(k - 1)
        BY <1>1, FoldedPrefixes
    <2> HIDE DEF f, n
    <2> QED
        BY <1>6, <2>1
<1> HIDE DEF f
<1>9. p[0] = 1 /\ p[n] = Product(s)
    <2>1. 1..0 = {} /\ 0 \in 0..n /\ n \in 0..n
        BY <1>1
    <2> QED
        BY <1>2, <1>7, <2>1 DEF f
<1>10. ASSUME NEW k \in 1..n PROVE p[k] = p[k - 1] * s[k]
    BY <1>1, <1>8
<1> HIDE DEF p
<1>11. 0..n \subseteq {k \in 0..n : p[k] \in Nat}
    <2> DEFINE T == {k \in 0..n : p[k] \in Nat}
    <2>1. 0 \in T
        BY <1>1, <1>9
    <2>2. ASSUME NEW k \in 1..n, k - 1 \in T PROVE k \in T
        BY <1>1, <1>10, <2>2
    <2> HIDE DEF T
    <2>3. 0..n \subseteq T
        BY <1>1, <2>1, <2>2, Reaches
    <2> QED
        BY <2>3 DEF T
<1>12. p \in [0..n -> Nat]
    <2>1. p = [k \in 0..n |-> p[k]]
        BY DEF p
    <2> QED
        BY <1>11, <2>1
<1>13. Products(s, p)
    BY <1>9, <1>10, <1>12 DEF Products
<1> QED
    BY <1>13

\* One step of CheckedProduct, and what the loop has after each.
Checked(p, size, most) ==
    IF p.error # "none" THEN p
    ELSE IF size < 1 THEN [p EXCEPT !.error = "empty"]
    ELSE IF p.count > MaxInt \div size THEN [p EXCEPT !.error = "overflow"]
    ELSE IF p.count * size > most THEN [p EXCEPT !.error = "limit"]
    ELSE [p EXCEPT !.count = @ * size]

Errors == {"none", "empty", "overflow", "limit"}
States == [error : Errors, count : Nat]
Started(s) == [error |-> IF s = <<>> THEN "empty" ELSE "none", count |-> 1]

Checks(s, most, p) ==
    /\ p \in [0..Len(s) -> States]
    /\ p[0] = Started(s) /\ p[Len(s)] = CheckedProduct(s, most)
    /\ \A k \in 1..Len(s) : p[k] = Checked(p[k - 1], s[k], most)

\* The loop of CheckedProduct starts with a state.
LEMMA StartType == ASSUME NEW s PROVE Started(s) \in States
BY DEF Started, States, Errors

\* It goes from states to states.
LEMMA CheckedType ==
    ASSUME NEW p \in States, NEW size \in Nat, NEW most PROVE Checked(p, size, most) \in States
<1>1. p.count * size \in Nat
    BY DEF States
<1>2. /\ \A e \in Errors : [p EXCEPT !.error = e] \in States
      /\ [p EXCEPT !.count = @ * size] \in States
    BY <1>1 DEF States
<1> QED
    BY <1>2, Zenon DEF Checked, Errors

\* It is such a recursion as well.
LEMMA ChecksExist ==
    ASSUME NEW s \in Seq(Nat), NEW most PROVE \E p : Checks(s, most, p)
<1> DEFINE n == Len(s)
           F == [x \in States \X (1..n) |-> Checked(x[1], s[x[2]], most)]
           Is(fold) == fold = [S \in SUBSET (1..n) |->
                                  IF S = {} THEN Started(s)
                                  ELSE Checked(fold[S \ {Max(S)}], s[Max(S)], most)]
<1>1. n \in Nat /\ DOMAIN s = 1..n /\ \A k \in 1..n : s[k] \in Nat
    BY LenProperties
<1>2. CheckedProduct(s, most) = (CHOOSE fold : Is(fold))[1..n]
    <2>1. CheckedProduct(s, most) = (CHOOSE fold : fold = [S \in SUBSET DOMAIN s |->
                IF S = {} THEN Started(s)
                ELSE Checked(fold[S \ {Max(S)}], s[Max(S)], most)])[DOMAIN s]
        BY DEF CheckedProduct, FoldLeft, MapThenFoldSet, Checked, Started
    <2> QED
        BY <1>1, <2>1, Zenon
<1>3. F \in [States \X (1..n) -> States]
    BY <1>1, CheckedType
<1>4. PICK h \in [SUBSET (1..n) -> States] : Folded(F, n, Started(s), h)
    <2> HIDE DEF F
    <2> QED
        BY <1>1, <1>3, StartType, FoldExists
<1>5. Is(h)
    <2>1. ASSUME NEW S \in SUBSET (1..n), S # {}
          PROVE  F[<<h[S \ {Max(S)}], Max(S)>>] = Checked(h[S \ {Max(S)}], s[Max(S)], most)
        <3>1. Max(S) \in 1..n
            <4>1. Max(S) \in S
                BY <1>1, <2>1, Largest
            <4> QED
                BY <4>1
        <3>2. h[S \ {Max(S)}] \in States
            OBVIOUS
        <3> QED
            BY <3>1, <3>2
    <2> HIDE DEF F, n
    <2> QED
        BY <1>4, <2>1 DEF Folded
<1> DEFINE f == CHOOSE fold : Is(fold)
           p == [k \in 0..n |-> f[1..k]]
<1>6. Is(f)
    BY <1>5, Zenon
<1>7. f[{}] = Started(s)
    BY <1>6
<1>8. ASSUME NEW k \in 1..n PROVE f[1..k] = Checked(f[1..(k - 1)], s[k], most)
    <2>1. /\ 1..k \in SUBSET (1..n) /\ 1..k # {} /\ Max(1..k) = k
          /\ (1..k) \ {k} = 1..(k - 1)
        BY <1>1, FoldedPrefixes
    <2> HIDE DEF f, n
    <2> QED
        BY <1>6, <2>1
<1> HIDE DEF f
<1>9. p[0] = Started(s) /\ p[n] = CheckedProduct(s, most)
    <2>1. 1..0 = {} /\ 0 \in 0..n /\ n \in 0..n
        BY <1>1
    <2> QED
        BY <1>2, <1>7, <2>1 DEF f
<1>10. ASSUME NEW k \in 1..n PROVE p[k] = Checked(p[k - 1], s[k], most)
    BY <1>1, <1>8
<1> HIDE DEF p
<1>11. 0..n \subseteq {k \in 0..n : p[k] \in States}
    <2> DEFINE T == {k \in 0..n : p[k] \in States}
    <2>1. 0 \in T
        BY <1>1, <1>9, StartType
    <2>2. ASSUME NEW k \in 1..n, k - 1 \in T PROVE k \in T
        BY <1>1, <1>10, <2>2, CheckedType
    <2> HIDE DEF T
    <2>3. 0..n \subseteq T
        BY <1>1, <2>1, <2>2, Reaches
    <2> QED
        BY <2>3 DEF T
<1>12. p \in [0..n -> States]
    <2>1. p = [k \in 0..n |-> p[k]]
        BY DEF p
    <2> QED
        BY <1>11, <2>1
<1>13. Checks(s, most, p)
    BY <1>9, <1>10, <1>12 DEF Checks
<1> QED
    BY <1>13

\* While the loop goes on, its count is the product, which is within the limit.
Going(s, most, k, p, q) ==
    /\ p.count = q /\ q \in 1..most
    /\ \A i \in 1..k : s[i] >= 1

\* A loop that stopped had a reason: a size is zero or the product is too large.
Stopped(s, most, k, q) == (\E i \in 1..k : s[i] = 0) \/ q > most

\* One factor more.
LEMMA CheckedExact ==
    ASSUME NEW s \in Seq(Nat), NEW most \in 1..MaxInt, NEW k \in 1..Len(s),
           NEW p \in States, NEW q \in Nat,
           p.error = "none" => Going(s, most, k - 1, p, q),
           p.error # "none" => Stopped(s, most, k - 1, q)
    PROVE  LET next == Checked(p, s[k], most) IN
           /\ next.error = "none" => Going(s, most, k, next, q * s[k])
           /\ next.error # "none" => Stopped(s, most, k, q * s[k])
<1> DEFINE next == Checked(p, s[k], most)
<1> SUFFICES /\ next.error = "none" => Going(s, most, k, next, q * s[k])
             /\ next.error # "none" => Stopped(s, most, k, q * s[k])
    OBVIOUS
<1>1. s[k] \in Nat /\ Len(s) \in Nat /\ most \in Nat /\ MaxInt \in Nat
    BY LenProperties, MaxIntAssumption
<1>2. k \in 1..k /\ \A i \in 1..k : i \in 1..(k - 1) \/ i = k
    BY <1>1
<1>3. CASE p.error # "none"
    <2>1. next = p
        BY <1>3 DEF Checked
    <2>2. CASE \E i \in 1..(k - 1) : s[i] = 0
        <3>1. \E i \in 1..k : s[i] = 0
            BY <1>1, <2>2
        <3> QED
            BY <1>3, <2>1, <3>1 DEF Stopped
    <2>3. CASE q > most /\ s[k] # 0
        <3>1. 1 * q <= s[k] * q
            <4> HIDE DEF next
            <4>1. 1 <= s[k]
                BY <1>1, <2>3
            <4> QED
                BY <1>1, <4>1, Grows
        <3>2. q * s[k] > most
            BY <1>1, <2>3, <3>1
        <3> QED
            BY <1>3, <2>1, <3>2 DEF Stopped
    <2>4. CASE s[k] = 0
        BY <1>2, <1>3, <2>1, <2>4 DEF Stopped
    <2> QED
        BY <1>3, <2>2, <2>3, <2>4 DEF Stopped
<1>4. CASE p.error = "none" /\ s[k] = 0
    <2>1. next.error = "empty"
        BY <1>4 DEF Checked, States
    <2> QED
        BY <1>2, <1>4, <2>1 DEF Stopped
<1>5. CASE p.error = "none" /\ s[k] # 0
    <2>1. p.count = q /\ q \in 1..most /\ \A i \in 1..(k - 1) : s[i] >= 1
        BY <1>5 DEF Going
    <2>2. MaxInt \div s[k] < q <=> MaxInt < s[k] * q
        BY <1>1, <1>5, Below
    <2>3. MaxInt \div s[k] \in Nat
        BY <1>1, <1>5, Divided
    <2>4. q * s[k] \in Nat /\ s[k] * q = q * s[k]
        BY <1>1
    <2>5. CASE q > MaxInt \div s[k]
        <3>1. next.error = "overflow"
            BY <1>1, <1>5, <2>1, <2>5 DEF Checked, States
        <3>2. q * s[k] > most
            BY <1>1, <2>2, <2>3, <2>4, <2>5
        <3> QED
            BY <3>1, <3>2 DEF Stopped
    <2>6. CASE ~(q > MaxInt \div s[k]) /\ q * s[k] > most
        <3>1. next.error = "limit"
            BY <1>1, <1>5, <2>1, <2>6 DEF Checked, States
        <3> QED
            BY <2>6, <3>1 DEF Stopped
    <2>7. CASE ~(q > MaxInt \div s[k]) /\ ~(q * s[k] > most)
        <3>1. next.error = "none" /\ next.count = q * s[k]
            BY <1>1, <1>5, <2>1, <2>7 DEF Checked, States
        <3>2. q * s[k] >= 1
            <4>1. 1 * q <= s[k] * q
                BY <1>1, <1>5, Grows
            <4> QED
                BY <1>1, <2>1, <2>4, <4>1
        <3>3. q * s[k] \in 1..most
            BY <1>1, <2>4, <2>7, <3>2
        <3>4. \A i \in 1..k : s[i] >= 1
            BY <1>1, <1>2, <1>5, <2>1
        <3> QED
            BY <3>1, <3>3, <3>4 DEF Going
    <2> QED
        BY <2>5, <2>6, <2>7
<1> QED
    BY <1>1, <1>3, <1>4, <1>5

\* CheckedProduct decides by the true product, and returns it.
LEMMA ProductDecides ==
    ASSUME NEW s \in Seq(Nat), s # <<>>, NEW most \in 1..MaxInt
    PROVE  LET c == CheckedProduct(s, most) IN
           /\ c.error = "none" => c.count = Product(s)
           /\ c.error = "none" <=> (\A i \in DOMAIN s : s[i] >= 1) /\ Product(s) <= most
           /\ c.error \in Errors /\ Product(s) \in Nat
<1> DEFINE n == Len(s)
<1>1. n \in Nat /\ DOMAIN s = 1..n /\ \A k \in 1..n : s[k] \in Nat
    BY LenProperties
<1>2. PICK q : Products(s, q)
    BY ProductsExist
<1>3. PICK p : Checks(s, most, p)
    BY ChecksExist
<1> DEFINE T == {k \in 0..n :
                    /\ p[k].error = "none" => Going(s, most, k, p[k], q[k])
                    /\ p[k].error # "none" => Stopped(s, most, k, q[k])}
<1>4. 0 \in T
    <2>1. p[0].error = "none" /\ p[0].count = 1 /\ q[0] = 1
        BY <1>2, <1>3 DEF Checks, Products, Started
    <2> QED
        BY <1>1, <2>1 DEF Going
<1>5. ASSUME NEW k \in 1..n, k - 1 \in T PROVE k \in T
    <2>1. p[k - 1] \in States /\ q[k - 1] \in Nat
        <3>1. k - 1 \in 0..n
            BY <1>1
        <3>2. p \in [0..n -> States] /\ q \in [0..n -> Nat]
            BY <1>2, <1>3 DEF Checks, Products
        <3> HIDE DEF T, n
        <3> QED
            BY <3>1, <3>2
    <2>2. p[k] = Checked(p[k - 1], s[k], most) /\ q[k] = q[k - 1] * s[k]
        BY <1>2, <1>3 DEF Checks, Products
    <2>3. /\ p[k - 1].error = "none" => Going(s, most, k - 1, p[k - 1], q[k - 1])
          /\ p[k - 1].error # "none" => Stopped(s, most, k - 1, q[k - 1])
        BY <1>5
    <2>4. /\ p[k].error = "none" => Going(s, most, k, p[k], q[k])
          /\ p[k].error # "none" => Stopped(s, most, k, q[k])
        <3> HIDE DEF T
        <3> QED
            BY <2>1, <2>2, <2>3, CheckedExact
    <2> QED
        BY <1>1, <2>4
<1>6. n \in T
    <2> HIDE DEF T
    <2>1. 0..n \subseteq T
        BY <1>1, <1>4, <1>5, Reaches
    <2> QED
        BY <1>1, <2>1
<1>7. p[n] = CheckedProduct(s, most) /\ p[n] \in States /\ q[n] = Product(s) /\ q[n] \in Nat
    BY <1>1, <1>2, <1>3 DEF Checks, Products
<1>8. CASE p[n].error = "none"
    <2>1. Going(s, most, n, p[n], q[n])
        BY <1>6, <1>8
    <2> QED
        BY <1>1, <1>7, <1>8, <2>1 DEF Going, States
<1>9. CASE p[n].error # "none"
    <2>1. Stopped(s, most, n, q[n])
        BY <1>6, <1>9
    <2> QED
        BY <1>1, <1>7, <1>9, <2>1 DEF Stopped, States
<1> QED
    BY <1>8, <1>9

\* A limit that leaves room for one more factor is reported before an overflow.
LEMMA LimitBeforeOverflow ==
    ASSUME NEW s \in Seq(Nat), NEW most \in 1..MaxInt, NEW largest \in Nat,
           \A i \in DOMAIN s : s[i] <= largest, most * largest <= MaxInt
    PROVE  CheckedProduct(s, most).error # "overflow"
<1> DEFINE n == Len(s)
<1>1. n \in Nat /\ DOMAIN s = 1..n /\ \A k \in 1..n : s[k] \in Nat
    BY LenProperties
<1>2. PICK p : Checks(s, most, p)
    BY ChecksExist
<1> DEFINE T == {k \in 0..n : /\ p[k].error # "overflow"
                              /\ p[k].error = "none" => p[k].count \in 0..most}
<1>3. 0 \in T
    BY <1>1, <1>2 DEF Checks, Started
<1>4. ASSUME NEW k \in 1..n, k - 1 \in T PROVE k \in T
    <2> DEFINE r == p[k - 1]
    <2>1. r \in States /\ s[k] \in Nat /\ s[k] <= largest
        <3>1. k - 1 \in 0..n
            BY <1>1
        <3>2. p \in [0..n -> States]
            BY <1>2 DEF Checks
        <3> HIDE DEF T, n
        <3>3. r \in States
            BY <3>1, <3>2
        <3> QED
            BY <1>1, <3>3
    <2>2. p[k] = Checked(r, s[k], most)
        BY <1>2 DEF Checks
    <2>3. r.error # "overflow" /\ (r.error = "none" => r.count \in 0..most)
        BY <1>4
    <2>4. MaxInt \in Nat /\ most \in Nat
        BY MaxIntAssumption
    <2> HIDE DEF r, T
    <2>5. ASSUME r.error = "none", s[k] >= 1 PROVE ~(r.count > MaxInt \div s[k])
        <3>1. r.count \in Nat /\ r.count <= most
            BY <2>3, <2>4, <2>5
        <3>2. r.count * s[k] <= most * s[k]
            BY <2>1, <2>4, <3>1, Grows
        <3>3. s[k] * most <= largest * most
            BY <2>1, <2>4, Grows
        <3>4. s[k] * r.count <= MaxInt
            <4>1. /\ r.count * s[k] = s[k] * r.count /\ most * s[k] = s[k] * most
                  /\ largest * most = most * largest
                  /\ s[k] * r.count \in Nat /\ s[k] * most \in Nat /\ most * largest \in Nat
                BY <2>1, <2>4, <3>1
            <4> QED
                BY <2>4, <3>2, <3>3, <4>1
        <3>5. MaxInt \div s[k] < r.count <=> MaxInt < s[k] * r.count
            BY <2>1, <2>4, <2>5, <3>1, Below
        <3>6. s[k] * r.count \in Nat
            BY <2>1, <3>1
        <3>7. s[k] \in Nat \ {0}
            BY <2>1, <2>5
        <3>8. MaxInt \div s[k] \in Nat
            BY <2>4, <3>7, Divided
        <3> QED
            BY <2>4, <3>1, <3>4, <3>5, <3>6, <3>8
    <2>6. p[k].error # "overflow"
        BY <2>1, <2>2, <2>3, <2>5 DEF Checked, States
    <2>7. p[k].error = "none" => p[k].count \in 0..most
        <3> SUFFICES ASSUME p[k].error = "none" PROVE p[k].count \in 0..most
            OBVIOUS
        <3>1. r.error = "none" /\ ~(r.count * s[k] > most) /\ p[k].count = r.count * s[k]
            BY <2>1, <2>2 DEF Checked, States
        <3>2. r.count * s[k] \in Nat
            BY <2>1 DEF States
        <3> QED
            BY <2>4, <3>1, <3>2
    <2> QED
        BY <2>6, <2>7 DEF T
<1>5. n \in T
    <2> HIDE DEF T
    <2>1. 0..n \subseteq T
        BY <1>1, <1>3, <1>4, Reaches
    <2> QED
        BY <1>1, <2>1
<1> QED
    BY <1>2, <1>5 DEF Checks

-----------------------------------------------------------------------------
(* Recursive functions on numbers, which are folds.                        *)

Recursed(F, n, base, g) == g[0] = base /\ \A k \in 1..n : g[k] = F[<<g[k - 1], k>>]

\* A recursion over positions has a solution.
LEMMA Recursion ==
    ASSUME NEW n \in Nat, NEW A, NEW base \in A, NEW F \in [A \X (1..n) -> A]
    PROVE  \E g \in [0..n -> A] : Recursed(F, n, base, g)
<1>1. PICK h \in [SUBSET (1..n) -> A] : Folded(F, n, base, h)
    BY FoldExists
<1> DEFINE g == [k \in 0..n |-> h[1..k]]
<1>2. g \in [0..n -> A]
    <2>1. ASSUME NEW k \in 0..n PROVE h[1..k] \in A
        <3>1. 1..k \in SUBSET (1..n)
            OBVIOUS
        <3> QED
            BY <3>1
    <2> QED
        BY <2>1
<1>3. g[0] = base
    <2>1. h[{}] = base
        BY <1>1 DEF Folded
    <2>2. 1..0 = {} /\ 0 \in 0..n
        OBVIOUS
    <2> QED
        BY <2>1, <2>2
<1>4. ASSUME NEW k \in 1..n PROVE g[k] = F[<<g[k - 1], k>>]
    <2>1. /\ 1..k \in SUBSET (1..n) /\ 1..k # {} /\ Max(1..k) = k
          /\ (1..k) \ {k} = 1..(k - 1)
        BY FoldedPrefixes
    <2>2. h[1..k] = F[<<h[1..(k - 1)], k>>]
        <3> HIDE DEF g
        <3> QED
            BY <1>1, <2>1 DEF Folded
    <2>3. g[k] = h[1..k] /\ g[k - 1] = h[1..(k - 1)]
        OBVIOUS
    <2> QED
        BY <2>2, <2>3
<1>5. Recursed(F, n, base, g)
    BY <1>3, <1>4 DEF Recursed
<1> HIDE DEF g
<1> QED
    BY <1>2, <1>5

-----------------------------------------------------------------------------
(* Strides, Coordinates and CellIndex.                                     *)

\* Sizes of a cube that is not empty.
Shapes == {s \in Seq(Nat \ {0}) : s # <<>>}

\* What a shape is.
LEMMA ShapeType ==
    ASSUME NEW s \in Shapes
    PROVE  /\ s \in Seq(Nat) /\ Len(s) \in Nat \ {0} /\ DOMAIN s = 1..Len(s)
           /\ \A i \in 1..Len(s) : s[i] \in Nat \ {0}
<1>1. s \in Seq(Nat \ {0}) /\ s # <<>>
    BY DEF Shapes
<1>2. Len(s) \in Nat /\ DOMAIN s = 1..Len(s) /\ \A i \in 1..Len(s) : s[i] \in Nat \ {0}
    BY <1>1, LenProperties
<1>3. Len(s) # 0
    BY <1>1, EmptySeq
<1>4. s \in [1..Len(s) -> Nat]
    BY <1>1, <1>2, LenProperties
<1>5. s \in Seq(Nat)
    BY <1>2, <1>4, SeqDef
<1> QED
    BY <1>2, <1>3, <1>5

\* Neighbours along a dimension are as far apart as the later dimensions are large.
LEMMA StridesOf ==
    ASSUME NEW s \in Shapes
    PROVE  /\ Strides(s) \in [1..Len(s) -> Nat \ {0}]
           /\ Strides(s)[Len(s)] = 1
           /\ \A i \in 2..Len(s) : Strides(s)[i - 1] = Strides(s)[i] * s[i]
<1> DEFINE n == Len(s)
           N == Nat \ {0}
           F == [x \in N \X (1..n) |-> x[1] * s[n - x[2] + 1]]
           Is(f) == f = [i \in 1..n |-> IF i = n THEN 1 ELSE f[i + 1] * s[i + 1]]
<1>1. n \in Nat \ {0} /\ DOMAIN s = 1..n /\ \A i \in 1..n : s[i] \in N
    BY ShapeType
<1>2. Strides(s) = CHOOSE f : Is(f)
    <2>1. Strides(s) = CHOOSE f : f = [i \in DOMAIN s |->
                            IF i = Len(s) THEN 1 ELSE f[i + 1] * s[i + 1]]
        BY DEF Strides
    <2> QED
        BY <1>1, <2>1, Zenon
<1>3. F \in [N \X (1..n) -> N]
    <2>1. ASSUME NEW a \in N, NEW k \in 1..n PROVE a * s[n - k + 1] \in N
        <3>1. n - k + 1 \in 1..n
            BY <1>1
        <3>2. s[n - k + 1] \in N
            BY <1>1, <3>1
        <3>3. 1 * a <= s[n - k + 1] * a
            <4>1. 1 <= s[n - k + 1]
                BY <3>2
            <4> QED
                BY <2>1, <3>2, <4>1, Grows
        <3> QED
            BY <2>1, <3>2, <3>3
    <2> HIDE DEF N, n
    <2> QED
        BY <2>1
<1>4. PICK g \in [0..n -> N] : Recursed(F, n, 1, g)
    <2> HIDE DEF F
    <2>1. 1 \in N /\ n \in Nat
        BY <1>1
    <2> HIDE DEF N, n
    <2> QED
        BY <1>3, <2>1, Recursion
<1>5. ASSUME NEW k \in 1..n PROVE g[k] = g[k - 1] * s[n - k + 1]
    <2>1. k - 1 \in 0..n
        BY <1>1
    <2>2. g[k - 1] \in N
        BY <2>1
    <2> HIDE DEF N, n
    <2> QED
        BY <1>4, <2>2 DEF Recursed
<1> DEFINE f == [i \in 1..n |-> g[n - i]]
<1>6. ASSUME NEW i \in 1..n PROVE f[i] = IF i = n THEN 1 ELSE f[i + 1] * s[i + 1]
    <2>1. CASE i = n
        BY <1>1, <1>4, <2>1 DEF Recursed
    <2>2. CASE i # n
        <3>1. n - i \in 1..n /\ i + 1 \in 1..n /\ n - i - 1 = n - (i + 1) /\ n - (n - i) + 1 = i + 1
            <4> HIDE DEF F, n
            <4> QED
                BY <1>1, <2>2
        <3>2. g[n - i] = g[n - (i + 1)] * s[i + 1]
            BY <1>5, <3>1
        <3> QED
            BY <2>2, <3>1, <3>2
    <2> QED
        BY <2>1, <2>2
<1>7. f \in [1..n -> N]
    <2>1. \A i \in 1..n : n - i \in 0..n
        BY <1>1
    <2> HIDE DEF N, n
    <2> QED
        BY <2>1
<1>8. Is(f)
    <2> HIDE DEF f, n
    <2>1. f = [i \in 1..n |-> f[i]]
        BY <1>7
    <2> QED
        BY <1>6, <2>1
<1> DEFINE st == Strides(s)
<1>9. Is(st)
    <2> HIDE DEF Is, f
    <2> QED
        BY <1>2, <1>8, Zenon
<1>10. /\ st[n] = 1
       /\ \A i \in 1..n : st[i] = IF i = n THEN 1 ELSE st[i + 1] * s[i + 1]
    <2>1. n \in 1..n
        BY <1>1
    <2> HIDE DEF st, n, F, f
    <2> QED
        BY <1>9, <2>1
<1>11. ASSUME NEW i \in 2..n PROVE st[i - 1] = st[i] * s[i]
    <2>1. i - 1 \in 1..n /\ i - 1 # n /\ i - 1 + 1 = i
        BY <1>1
    <2> HIDE DEF st
    <2> QED
        BY <1>10, <2>1
<1>12. \A i \in 1..n : st[i] = f[i]
    <2> DEFINE T == {k \in 0..n : k \in 1..n => st[k] = f[k]}
    <2>1. n \in T
        <3>1. n \in 1..n /\ n \in 0..n
            BY <1>1
        <3>2. f[n] = 1
            <4> HIDE DEF f, n
            <4> QED
                BY <1>6, <3>1
        <3> HIDE DEF f, st, n, F
        <3> QED
            BY <1>10, <3>1, <3>2
    <2>2. ASSUME NEW k \in 1..n, k \in T PROVE k - 1 \in T
        <3>1. k - 1 \in 0..n
            BY <1>1
        <3>2. CASE k = 1
            BY <3>1, <3>2
        <3>3. CASE k # 1
            <4>1. k \in 2..n /\ k - 1 \in 1..n /\ k - 1 # n /\ k - 1 + 1 = k
                BY <1>1, <3>3
            <4>2. st[k - 1] = st[k] * s[k]
                BY <1>11, <4>1
            <4>3. f[k - 1] = f[k] * s[k]
                <5> HIDE DEF f
                <5> QED
                    BY <1>6, <4>1
            <4>4. st[k] = f[k]
                BY <2>2, <4>1
            <4> HIDE DEF f, st
            <4> QED
                BY <3>1, <4>2, <4>3, <4>4
        <3> QED
            BY <3>2, <3>3
    <2> HIDE DEF T
    <2>3. 0..n \subseteq T
        BY <1>1, <2>1, <2>2, ReachesDown
    <2>4. 1..n \subseteq 0..n
        BY <1>1
    <2> QED
        BY <2>3, <2>4 DEF T
<1>13. st \in [1..n -> N]
    <2> HIDE DEF f, N, n
    <2>1. st = [i \in 1..n |-> st[i]]
        <3> HIDE DEF st
        <3> QED
            BY <1>9
    <2>2. \A i \in 1..n : st[i] \in N
        BY <1>7, <1>12
    <2> HIDE DEF st
    <2> QED
        BY <2>1, <2>2
<1> QED
    BY <1>10, <1>11, <1>13

\* The size of the cube is that of its first dimension's slices, times their number.
LEMMA SizeOf ==
    ASSUME NEW s \in Shapes PROVE Product(s) = Strides(s)[1] * s[1]
<1> DEFINE n == Len(s)
           st == Strides(s)
<1>1. /\ s \in Seq(Nat) /\ n \in Nat \ {0} /\ \A i \in 1..n : s[i] \in Nat
    BY ShapeType
<1>2. /\ \A i \in 1..n : st[i] \in Nat
      /\ st[n] = 1 /\ \A i \in 2..n : st[i - 1] = st[i] * s[i]
    <2> HIDE DEF n
    <2>1. st \in [1..n -> Nat \ {0}]
        BY StridesOf DEF n
    <2>2. \A i \in 1..n : st[i] \in Nat \ {0}
        <3> HIDE DEF st
        <3> QED
            BY <2>1
    <2> QED
        BY <2>2, StridesOf DEF n
<1> HIDE DEF st
<1>3. PICK p : Products(s, p)
    BY <1>1, ProductsExist
<1>4. /\ p \in [0..n -> Nat] /\ p[0] = 1 /\ p[n] = Product(s)
      /\ \A k \in 1..n : p[k] = p[k - 1] * s[k]
    BY <1>3 DEF Products
<1> HIDE DEF n
<1> DEFINE T == {k \in 0..n : k \in 1..n => p[k] * st[k] = p[n]}
<1>5. n \in T
    BY <1>1, <1>2, <1>4
<1>6. ASSUME NEW k \in 1..n, k \in T PROVE k - 1 \in T
    <2>1. k - 1 \in 0..n /\ (k # 1 => k \in 2..n)
        BY <1>1
    <2>2. ASSUME k # 1 PROVE p[k - 1] * st[k - 1] = p[n]
        <3>1. /\ p[k] = p[k - 1] * s[k] /\ st[k - 1] = st[k] * s[k]
              /\ p[k] * st[k] = p[n]
            BY <1>2, <1>4, <1>6, <2>1, <2>2
        <3>2. p[k - 1] \in Nat /\ s[k] \in Nat /\ st[k] \in Nat
            BY <1>1, <1>2, <1>4, <2>1
        <3>3. p[k - 1] * (st[k] * s[k]) = (p[k - 1] * s[k]) * st[k]
            BY <3>2
        <3> QED
            BY <3>1, <3>3
    <2> QED
        BY <2>1, <2>2
<1>7. 1 \in T
    <2> HIDE DEF T
    <2>1. 0..n \subseteq T
        BY <1>1, <1>5, <1>6, ReachesDown
    <2> QED
        BY <1>1, <2>1
<1>8. p[1] * st[1] = p[n] /\ p[1] = p[0] * s[1] /\ 1 \in 1..n
    BY <1>1, <1>4, <1>7
<1>9. s[1] \in Nat /\ st[1] \in Nat
    BY <1>1, <1>2, <1>8
<1>10. Product(s) = st[1] * s[1]
    BY <1>4, <1>8, <1>9
<1> QED
    BY <1>10 DEF st

\* The recursive functions inside Coordinates and CellIndex.
Remaining(index, s, strides) ==
    LET remaining[i \in DOMAIN s] ==
            IF i = 1 THEN index ELSE remaining[i - 1] % strides[i - 1]
    IN  remaining

Sum(coords, strides) ==
    LET sum[i \in 0..Len(coords)] ==
            IF i = 0 THEN 0 ELSE sum[i - 1] + coords[i] * strides[i]
    IN  sum

\* What is left of an index at each dimension.
LEMMA RemainingOf ==
    ASSUME NEW s \in Shapes, NEW index \in Nat,
           NEW strides, strides \in [1..Len(s) -> Nat \ {0}]
    PROVE  LET r == Remaining(index, s, strides) IN
           /\ r \in [1..Len(s) -> Nat] /\ r[1] = index
           /\ \A i \in 2..Len(s) : r[i] = r[i - 1] % strides[i - 1]
<1> DEFINE n == Len(s)
           Is(f) == f = [i \in 1..n |-> IF i = 1 THEN index ELSE f[i - 1] % strides[i - 1]]
           F == [x \in Nat \X (1..(n - 1)) |-> x[1] % strides[x[2]]]
           r == Remaining(index, s, strides)
<1>1. n \in Nat \ {0} /\ DOMAIN s = 1..n /\ \A i \in 1..n : strides[i] \in Nat \ {0}
    BY ShapeType
<1>2. r = CHOOSE f : Is(f)
    <2>1. r = CHOOSE f : f = [i \in DOMAIN s |->
                     IF i = 1 THEN index ELSE f[i - 1] % strides[i - 1]]
        BY DEF Remaining
    <2> QED
        BY <1>1, <2>1, Zenon
<1>3. F \in [Nat \X (1..(n - 1)) -> Nat]
    <2>1. ASSUME NEW a \in Nat, NEW k \in 1..(n - 1) PROVE a % strides[k] \in Nat
        <3>1. strides[k] \in Nat \ {0}
            BY <1>1
        <3>2. a % strides[k] \in 0..(strides[k] - 1)
            BY <3>1, Divided
        <3> QED
            BY <3>1, <3>2
    <2> HIDE DEF n
    <2> QED
        BY <2>1
<1>4. PICK g \in [0..(n - 1) -> Nat] : Recursed(F, n - 1, index, g)
    <2>1. n - 1 \in Nat
        BY <1>1
    <2> HIDE DEF F, n
    <2> QED
        BY <1>3, <2>1, Recursion
<1>5. g[0] = index /\ \A k \in 1..(n - 1) : g[k] = g[k - 1] % strides[k]
    <2>1. \A k \in 1..(n - 1) : k - 1 \in 0..(n - 1)
        BY <1>1
    <2> HIDE DEF n
    <2>2. \A k \in 1..(n - 1) : g[k - 1] \in Nat
        BY <2>1
    <2> QED
        BY <1>4, <2>2 DEF Recursed
<1> DEFINE f == [i \in 1..n |-> g[i - 1]]
<1>6. ASSUME NEW i \in 1..n PROVE f[i] = IF i = 1 THEN index ELSE f[i - 1] % strides[i - 1]
    <2>1. i # 1 => i - 1 \in 1..(n - 1) /\ i - 1 \in 1..n
        BY <1>1
    <2> HIDE DEF n, F
    <2> QED
        BY <1>5, <2>1
<1>7. Is(f)
    <2> HIDE DEF f, n
    <2>1. f = [i \in 1..n |-> f[i]]
        BY DEF f
    <2> QED
        BY <1>6, <2>1
<1>8. Is(r)
    <2> HIDE DEF Is, f, r
    <2> QED
        BY <1>2, <1>7, Zenon
<1> HIDE DEF r, F
<1>9. \A i \in 1..n : r[i] = IF i = 1 THEN index ELSE r[i - 1] % strides[i - 1]
    <2> HIDE DEF n, f
    <2> QED
        BY <1>8
<1> HIDE DEF f
<1> DEFINE T == {k \in 0..n : k \in 1..n => r[k] \in Nat}
<1>10. 0 \in T
    BY <1>1
<1>11. ASSUME NEW k \in 1..n, k - 1 \in T PROVE k \in T
    <2>1. CASE k = 1
        BY <1>1, <1>9, <2>1
    <2>2. CASE k # 1
        <3>1. k - 1 \in 1..n /\ k \in 0..n
            BY <1>1, <2>2
        <3>2. r[k - 1] \in Nat /\ strides[k - 1] \in Nat \ {0}
            BY <1>1, <1>11, <3>1
        <3>3. r[k - 1] % strides[k - 1] \in 0..(strides[k - 1] - 1)
            BY <3>2, Divided
        <3>4. r[k] \in Nat
            BY <1>9, <2>2, <3>2, <3>3
        <3> QED
            BY <3>1, <3>4
    <2> QED
        BY <2>1, <2>2
<1>12. \A k \in 1..n : r[k] \in Nat
    <2> HIDE DEF T
    <2>1. 0..n \subseteq T
        BY <1>1, <1>10, <1>11, Reaches
    <2>2. 1..n \subseteq 0..n
        BY <1>1
    <2> QED
        BY <2>1, <2>2 DEF T
<1>13. r \in [1..n -> Nat]
    <2> HIDE DEF n
    <2>1. r = [i \in 1..n |-> r[i]]
        BY <1>8
    <2> QED
        BY <1>12, <2>1
<1>14. r[1] = index /\ \A i \in 2..n : r[i] = r[i - 1] % strides[i - 1]
    <2>1. 1 \in 1..n /\ \A i \in 2..n : i \in 1..n /\ i # 1
        BY <1>1
    <2> HIDE DEF n
    <2> QED
        BY <1>9, <2>1
<1> QED
    BY <1>13, <1>14 DEF r

\* What CellIndex has added up at each dimension.
LEMMA SumOf ==
    ASSUME NEW n \in Nat, NEW coords \in [1..n -> Nat], NEW strides,
           strides \in [1..n -> Nat \ {0}]
    PROVE  LET sum == Sum(coords, strides) IN
           /\ sum[0] = 0 /\ \A i \in 1..n : sum[i] = sum[i - 1] + coords[i] * strides[i]
           /\ CellIndex(coords, strides) = sum[n]
<1> DEFINE Is(f) == f = [i \in 0..n |-> IF i = 0 THEN 0 ELSE f[i - 1] + coords[i] * strides[i]]
           F == [x \in Nat \X (1..n) |-> x[1] + coords[x[2]] * strides[x[2]]]
           sum == Sum(coords, strides)
<1>1. Len(coords) = n
    <2>1. coords \in Seq(Nat)
        BY SeqDef
    <2>2. Len(coords) \in Nat /\ DOMAIN coords = 1..Len(coords) /\ DOMAIN coords = 1..n
        BY <2>1, LenProperties
    <2>3. 1..n = 1..Len(coords)
        BY <2>2
    <2>4. n \in 1..n \/ n = 0
        OBVIOUS
    <2>5. Len(coords) \in 1..Len(coords) \/ Len(coords) = 0
        BY <2>2
    <2> QED
        BY <2>2, <2>3, <2>4, <2>5
<1>2. sum = CHOOSE f : Is(f)
    <2>1. sum = CHOOSE f : f = [i \in 0..Len(coords) |->
                     IF i = 0 THEN 0 ELSE f[i - 1] + coords[i] * strides[i]]
        BY DEF Sum
    <2> QED
        BY <1>1, <2>1, Zenon
<1>3. F \in [Nat \X (1..n) -> Nat]
    <2>1. \A a \in Nat, k \in 1..n : a + coords[k] * strides[k] \in Nat
        <3>1. \A k \in 1..n : coords[k] \in Nat /\ strides[k] \in Nat
            OBVIOUS
        <3>2. \A k \in 1..n : coords[k] * strides[k] \in Nat
            BY <3>1
        <3> QED
            BY <3>2
    <2> QED
        BY <2>1
<1>4. PICK g \in [0..n -> Nat] : Recursed(F, n, 0, g)
    <2> HIDE DEF F
    <2> QED
        BY <1>3, Recursion
<1>5. Is(g)
    <2>1. \A k \in 1..n : k - 1 \in 0..n /\ g[k - 1] \in Nat
        OBVIOUS
    <2>2. g = [i \in 0..n |-> g[i]]
        OBVIOUS
    <2>3. g[0] = 0 /\ \A k \in 1..n : g[k] = g[k - 1] + coords[k] * strides[k]
        BY <1>4, <2>1 DEF Recursed
    <2>4. \A i \in 0..n : i = 0 \/ i \in 1..n
        OBVIOUS
    <2> HIDE DEF F
    <2>5. \A i \in 0..n : g[i] = IF i = 0 THEN 0 ELSE g[i - 1] + coords[i] * strides[i]
        BY <2>3, <2>4
    <2> QED
        BY <2>2, <2>5
<1>6. Is(sum)
    <2> HIDE DEF Is, sum
    <2> QED
        BY <1>2, <1>5, Zenon
<1>7. sum[0] = 0 /\ \A i \in 1..n : sum[i] = sum[i - 1] + coords[i] * strides[i]
    <2> HIDE DEF sum, F
    <2> QED
        BY <1>6
<1>8. CellIndex(coords, strides) = sum[n]
    BY <1>1 DEF CellIndex, Sum
<1> QED
    BY <1>7, <1>8

\* An index of the cube has coordinates, from which CellIndex finds it again.
LEMMA InsideInverts ==
    ASSUME NEW s \in Shapes, NEW index \in Nat, index < Product(s)
    PROVE  LET coords == Coordinates(index, s, Strides(s)) IN
           /\ \A i \in DOMAIN s : coords[i] \in 0..(s[i] - 1)
           /\ CellIndex(coords, Strides(s)) = index
<1> DEFINE n == Len(s)
           st == Strides(s)
           r == Remaining(index, s, st)
           coords == [i \in DOMAIN s |-> r[i] \div st[i]]
           sum == Sum(coords, st)
<1>1. n \in Nat \ {0} /\ DOMAIN s = 1..n /\ \A i \in 1..n : s[i] \in Nat \ {0}
    BY ShapeType
<1>2. /\ st \in [1..n -> Nat \ {0}] /\ st[n] = 1
      /\ \A i \in 2..n : st[i - 1] = st[i] * s[i]
    BY StridesOf
<1>3. index < st[1] * s[1]
    BY SizeOf
<1>4. /\ r \in [1..n -> Nat] /\ r[1] = index
      /\ \A i \in 2..n : r[i] = r[i - 1] % st[i - 1]
    <2> HIDE DEF st
    <2> QED
        BY <1>2, RemainingOf
<1>5. Coordinates(index, s, st) =
          IF index < 0 \/ \E i \in DOMAIN s : coords[i] >= s[i] THEN Outside ELSE coords
    <2> HIDE DEF st
    <2> QED
        BY DEF Coordinates, Remaining
<1> HIDE DEF st, r
<1>6. ASSUME NEW i \in 1..n
      PROVE  /\ r[i] \in Nat /\ st[i] \in Nat \ {0} /\ s[i] \in Nat \ {0}
             /\ r[i] < st[i] * s[i]
    <2>1. r[i] \in Nat /\ st[i] \in Nat \ {0} /\ s[i] \in Nat \ {0}
        BY <1>1, <1>2, <1>4
    <2>2. CASE i = 1
        BY <1>3, <1>4, <2>1, <2>2
    <2>3. CASE i # 1
        <3>1. i \in 2..n /\ i - 1 \in 1..n
            BY <1>1, <2>3
        <3>2. r[i - 1] \in Nat /\ st[i - 1] \in Nat \ {0}
            BY <1>2, <1>4, <3>1
        <3>3. r[i - 1] % st[i - 1] \in 0..(st[i - 1] - 1)
            BY <3>2, Divided
        <3>4. r[i] < st[i - 1] /\ st[i - 1] = st[i] * s[i]
            BY <1>2, <1>4, <3>1, <3>2, <3>3
        <3> QED
            BY <2>1, <3>4
    <2> QED
        BY <2>2, <2>3
<1>7. ASSUME NEW i \in 1..n
      PROVE  /\ coords[i] \in Nat /\ coords[i] < s[i]
             /\ r[i] = coords[i] * st[i] + (r[i] % st[i]) /\ r[i] % st[i] \in Nat
    <2>1. coords[i] = r[i] \div st[i]
        BY <1>1
    <2> HIDE DEF coords
    <2>2. r[i] \div st[i] \in Nat /\ r[i] % st[i] \in 0..(st[i] - 1)
        BY <1>6, Divided
    <2>3. r[i] = st[i] * (r[i] \div st[i]) + (r[i] % st[i])
        BY <1>6, Divided
    <2>4. r[i] \div st[i] < s[i]
        BY <1>6, Below
    <2>5. st[i] * (r[i] \div st[i]) = (r[i] \div st[i]) * st[i]
        BY <1>6, <2>2
    <2>6. r[i] % st[i] \in Nat
        BY <1>6, <2>2
    <2> QED
        BY <2>1, <2>2, <2>3, <2>4, <2>5, <2>6
<1>8. Coordinates(index, s, st) = coords
    <2> HIDE DEF coords
    <2>1. ~(index < 0) /\ ~\E i \in DOMAIN s : coords[i] >= s[i]
        BY <1>1, <1>6, <1>7
    <2> QED
        BY <1>5, <2>1
<1>9. coords \in [1..n -> Nat]
    <2>1. coords = [i \in 1..n |-> coords[i]]
        BY <1>1
    <2> HIDE DEF coords, n
    <2> QED
        BY <1>7, <2>1
<1>10. /\ sum[0] = 0 /\ \A i \in 1..n : sum[i] = sum[i - 1] + coords[i] * st[i]
       /\ CellIndex(coords, st) = sum[n]
    <2> HIDE DEF coords
    <2>1. n \in Nat
        BY <1>1
    <2> QED
        BY <1>2, <1>9, <2>1, SumOf
<1> HIDE DEF coords, sum
<1> DEFINE T == {k \in 0..n : /\ sum[k] \in Nat
                              /\ k \in 1..n => sum[k] + (r[k] % st[k]) = index}
<1>11. 0 \in T
    BY <1>1, <1>10
<1>12. ASSUME NEW k \in 1..n, k - 1 \in T PROVE k \in T
    <2> DEFINE carried == r[k] % st[k]
               share == coords[k] * st[k]
    <2>1. sum[k] = sum[k - 1] + share /\ r[k] = share + carried /\ carried \in Nat
        BY <1>7, <1>10
    <2>2. share \in Nat
        BY <1>6, <1>7
    <2> HIDE DEF carried, share
    <2>3. sum[k - 1] + r[k] = index /\ sum[k - 1] \in Nat
        <3>1. CASE k = 1
            <4>1. r[1] = index /\ sum[0] = 0 /\ k - 1 = 0
                BY <1>4, <1>10, <3>1
            <4> QED
                BY <3>1, <4>1
        <3>2. CASE k # 1
            <4>1. k \in 2..n /\ k - 1 \in 1..n
                BY <1>1, <3>2
            <4>2. sum[k - 1] + (r[k - 1] % st[k - 1]) = index
                BY <1>12, <4>1
            <4>3. r[k] = r[k - 1] % st[k - 1]
                BY <1>4, <4>1
            <4>4. sum[k - 1] \in Nat
                BY <1>12
            <4> QED
                BY <4>2, <4>3, <4>4
        <3> QED
            BY <3>1, <3>2
    <2>4. sum[k] + carried = index /\ sum[k] \in Nat
        BY <2>1, <2>2, <2>3, <1>6
    <2> QED
        BY <1>1, <2>4 DEF carried
<1>13. sum[n] + (r[n] % st[n]) = index /\ sum[n] \in Nat
    <2> HIDE DEF T
    <2>1. 0..n \subseteq T
        BY <1>1, <1>11, <1>12, Reaches
    <2>2. n \in T /\ n \in 1..n
        BY <1>1, <2>1
    <2> QED
        BY <2>2 DEF T
<1>14. sum[n] = index
    <2>1. n \in 1..n
        BY <1>1
    <2>2. r[n] % st[n] \in 0..(st[n] - 1)
        BY <1>6, <2>1, Divided
    <2>3. r[n] % st[n] = 0
        BY <1>2, <2>2
    <2> QED
        BY <1>13, <2>3
<1>15. \A i \in DOMAIN s : coords[i] \in 0..(s[i] - 1)
    BY <1>1, <1>7
<1>16. CellIndex(Coordinates(index, s, st), st) = index
    BY <1>8, <1>10, <1>14
<1> QED
    BY <1>8, <1>15, <1>16 DEF st

\* Every other index is refused.
LEMMA OutsideRefused ==
    ASSUME NEW s \in Shapes, NEW index \in Int, index < 0 \/ index >= Product(s)
    PROVE  Coordinates(index, s, Strides(s)) = Outside
<1> DEFINE n == Len(s)
           st == Strides(s)
           r == Remaining(index, s, st)
           coords == [i \in DOMAIN s |-> r[i] \div st[i]]
<1>1. Coordinates(index, s, st) =
          IF index < 0 \/ \E i \in DOMAIN s : coords[i] >= s[i] THEN Outside ELSE coords
    <2> HIDE DEF st
    <2> QED
        BY DEF Coordinates, Remaining
<1>2. n \in Nat \ {0} /\ DOMAIN s = 1..n /\ 1 \in 1..n /\ s[1] \in Nat \ {0}
    BY ShapeType
<1>3. CASE index < 0
    <2> HIDE DEF coords, st
    <2> QED
        BY <1>1, <1>3 DEF st
<1>4. CASE index \in Nat
    <2>1. st \in [1..n -> Nat \ {0}] /\ Product(s) = st[1] * s[1]
        BY StridesOf, SizeOf
    <2>2. r[1] = index
        <3> HIDE DEF st
        <3> QED
            BY <1>4, <2>1, RemainingOf
    <2> HIDE DEF st, r
    <2>3. st[1] \in Nat \ {0}
        BY <1>2, <2>1
    <2>4. index \div st[1] < s[1] <=> index < st[1] * s[1]
        BY <1>2, <1>4, <2>3, Below
    <2>5. index \div st[1] \in Nat
        BY <1>4, <2>3, Divided
    <2>6. st[1] * s[1] \in Nat
        BY <1>2, <2>3
    <2>7. coords[1] = index \div st[1]
        BY <1>2, <2>2
    <2>8. coords[1] >= s[1]
        BY <1>2, <1>4, <2>1, <2>4, <2>5, <2>6, <2>7
    <2> HIDE DEF coords
    <2>9. Coordinates(index, s, st) = Outside
        BY <1>1, <1>2, <2>8
    <2> QED
        BY <2>9 DEF st
<1> QED
    BY <1>3, <1>4

-----------------------------------------------------------------------------
(* Coordinates in a cube.                                                 *)

\* One multiple more.
LEMMA NextMultiple ==
    ASSUME NEW a \in Nat, NEW b \in Nat, NEW c \in Nat, a < c
    PROVE  a * b \in Nat /\ c * b \in Nat /\ a * b + b <= c * b /\ c * b = b * c
<1>1. (a + 1) * b <= c * b
    BY Grows
<1>2. (a + 1) * b = a * b + b /\ a * b \in Nat /\ c * b \in Nat /\ c * b = b * c
    OBVIOUS
<1> QED
    BY <1>1, <1>2

\* The coordinates of a cube of sizes s.
Coords(s) == {c \in [1..Len(s) -> Nat] : \A i \in 1..Len(s) : c[i] < s[i]}

\* The sums of CellIndex: a share for each coordinate.
Sums(s, c, sum) ==
    /\ sum \in [0..Len(s) -> Nat]
    /\ sum[0] = 0 /\ \A i \in 1..Len(s) : sum[i] = sum[i - 1] + c[i] * Strides(s)[i]
    /\ CellIndex(c, Strides(s)) = sum[Len(s)]

\* CellIndex adds up the shares of the coordinates, one after the other.
LEMMA SumsExist ==
    ASSUME NEW s \in Shapes, NEW c \in [1..Len(s) -> Nat] PROVE \E sum : Sums(s, c, sum)
<1> DEFINE n == Len(s)
           st == Strides(s)
           f == Sum(c, st)
           sum == [k \in 0..n |-> f[k]]
<1>1. n \in Nat /\ st \in [1..n -> Nat \ {0}]
    BY ShapeType, StridesOf
<1>2. /\ f[0] = 0 /\ \A i \in 1..n : f[i] = f[i - 1] + c[i] * st[i]
      /\ CellIndex(c, st) = f[n]
    <2> HIDE DEF st
    <2> QED
        BY <1>1, SumOf
<1> DEFINE T == {k \in 0..n : f[k] \in Nat}
<1> HIDE DEF st, f
<1>3. 0 \in T
    BY <1>1, <1>2
<1>4. ASSUME NEW k \in 1..n, k - 1 \in T PROVE k \in T
    <2>1. c[k] \in Nat /\ st[k] \in Nat
        BY <1>1
    <2>2. c[k] * st[k] \in Nat
        BY <2>1
    <2> QED
        BY <1>1, <1>2, <1>4, <2>2
<1>5. 0..n \subseteq T
    <2> HIDE DEF T
    <2> QED
        BY <1>1, <1>3, <1>4, Reaches
<1>6. sum \in [0..n -> Nat]
    BY <1>5
<1>7. sum[0] = 0 /\ sum[n] = f[n]
    BY <1>1, <1>2
<1>8. \A i \in 1..n : sum[i] = sum[i - 1] + c[i] * st[i]
    BY <1>1, <1>2
<1> HIDE DEF sum
<1> QED
    BY <1>2, <1>6, <1>7, <1>8 DEF Sums, st

\* The shares after a coordinate do not add up to one more of its own.
LEMMA TailOf ==
    ASSUME NEW s \in Shapes, NEW c \in Coords(s), NEW sum, Sums(s, c, sum)
    PROVE  \A i \in 1..Len(s) :
               sum[i] <= sum[Len(s)] /\ sum[Len(s)] < sum[i] + Strides(s)[i]
<1> DEFINE n == Len(s)
           st == Strides(s)
<1>1. n \in Nat \ {0} /\ \A i \in 1..n : s[i] \in Nat \ {0}
    BY ShapeType
<1>2. st \in [1..n -> Nat \ {0}] /\ st[n] = 1 /\ \A i \in 2..n : st[i - 1] = st[i] * s[i]
    BY StridesOf
<1>3. \A i \in 1..n : c[i] \in Nat /\ c[i] < s[i]
    BY DEF Coords
<1>4. /\ \A i \in 0..n : sum[i] \in Nat
      /\ \A i \in 1..n : sum[i] = sum[i - 1] + c[i] * st[i]
    BY DEF Sums
<1> HIDE DEF n, st
<1> DEFINE T == {k \in 0..n : k # 0 => sum[k] <= sum[n] /\ sum[n] < sum[k] + st[k]}
<1>5. n \in T
    BY <1>1, <1>2, <1>4
<1>6. ASSUME NEW k \in 1..n, k \in T PROVE k - 1 \in T
    <2>1. CASE k = 1
        BY <1>1, <2>1
    <2>2. CASE k # 1
        <3>1. k \in 2..n /\ k - 1 \in 1..n /\ k \in 0..n /\ k - 1 \in 0..n
            BY <1>1, <2>2
        <3>2. st[k] \in Nat /\ st[k - 1] \in Nat /\ c[k] \in Nat /\ s[k] \in Nat /\ c[k] + 1 <= s[k]
            BY <1>1, <1>2, <1>3, <3>1
        <3>3. sum[k] \in Nat /\ sum[k - 1] \in Nat /\ sum[n] \in Nat
            BY <1>1, <1>4, <3>1
        <3>4. sum[k] = sum[k - 1] + c[k] * st[k] /\ st[k - 1] = st[k] * s[k]
            BY <1>2, <1>4, <3>1
        <3>5. sum[k] <= sum[n] /\ sum[n] < sum[k] + st[k]
            BY <1>6
        <3>6. (c[k] + 1) * st[k] <= s[k] * st[k]
            BY <3>2, Grows
        <3>7. (c[k] + 1) * st[k] = c[k] * st[k] + st[k] /\ s[k] * st[k] = st[k] * s[k]
              /\ c[k] * st[k] \in Nat
            BY <3>2
        <3>8. sum[k - 1] <= sum[n]
            BY <3>3, <3>4, <3>5, <3>7
        <3>9. sum[n] < sum[k - 1] + st[k - 1]
            BY <3>2, <3>3, <3>4, <3>5, <3>6, <3>7
        <3> QED
            BY <3>1, <3>8, <3>9
    <2> QED
        BY <2>1, <2>2
<1>7. 0..n \subseteq T
    <2> HIDE DEF T
    <2> QED
        BY <1>1, <1>5, <1>6, ReachesDown
<1>8. \A i \in 1..n : i \in T /\ i # 0
    BY <1>1, <1>7
<1> QED
    BY <1>8 DEF n, st

\* A cube has a size.
LEMMA ProductType == ASSUME NEW s \in Shapes PROVE Product(s) \in Nat
<1>1. \A a, b \in Nat : a * b \in Nat
    OBVIOUS
<1>2. Strides(s)[1] \in Nat /\ s[1] \in Nat
    <2>1. 1 \in 1..Len(s)
        BY ShapeType
    <2> QED
        BY <2>1, ShapeType, StridesOf
<1> QED
    BY <1>1, <1>2, SizeOf, Zenon

\* The index of coordinates is in the cube.
LEMMA IndexInside ==
    ASSUME NEW s \in Shapes, NEW c \in Coords(s)
    PROVE  CellIndex(c, Strides(s)) \in 0..(Product(s) - 1) /\ Product(s) \in Nat
<1> DEFINE n == Len(s)
           st == Strides(s)
<1>1. n \in Nat \ {0} /\ s[1] \in Nat \ {0} /\ 1 \in 1..n
    BY ShapeType
<1>2. st \in [1..n -> Nat \ {0}] /\ Product(s) = st[1] * s[1]
    BY StridesOf, SizeOf
<1>3. c \in [1..n -> Nat] /\ c[1] \in Nat /\ c[1] + 1 <= s[1]
    BY <1>1 DEF Coords
<1>4. PICK sum : Sums(s, c, sum)
    BY <1>3, SumsExist
<1>5. sum[n] < sum[1] + st[1]
    BY <1>1, <1>4, TailOf
<1>6. /\ sum[0] = 0 /\ sum[1] = sum[1 - 1] + c[1] * st[1]
      /\ CellIndex(c, st) = sum[n] /\ sum[n] \in Nat
    BY <1>1, <1>4 DEF Sums
<1> HIDE DEF n, st
<1>7. st[1] \in Nat
    BY <1>1, <1>2
<1>8. s[1] \in Nat /\ c[1] < s[1]
    BY <1>1, <1>3
<1>9. /\ c[1] * st[1] \in Nat /\ s[1] * st[1] \in Nat
      /\ c[1] * st[1] + st[1] <= s[1] * st[1] /\ s[1] * st[1] = st[1] * s[1]
    BY <1>3, <1>7, <1>8, NextMultiple
<1>10. Product(s) \in Nat /\ sum[n] < Product(s)
    BY <1>2, <1>5, <1>6, <1>9, <1>7
<1> QED
    BY <1>6, <1>10 DEF st

\* An index of the cube has coordinates.
LEMMA CoordsOf ==
    ASSUME NEW s \in Shapes, NEW index \in 0..(Product(s) - 1)
    PROVE  /\ Coordinates(index, s, Strides(s)) \in Coords(s)
           /\ CellIndex(Coordinates(index, s, Strides(s)), Strides(s)) = index
<1> DEFINE n == Len(s)
           st == Strides(s)
           c == Coordinates(index, s, st)
<1>1. n \in Nat \ {0} /\ DOMAIN s = 1..n /\ \A i \in 1..n : s[i] \in Nat \ {0}
    BY ShapeType
<1>2. index \in Nat /\ index < Product(s)
    <2>1. Product(s) \in Nat
        BY ProductType
    <2> QED
        BY <2>1
<1>3. (\A i \in 1..n : c[i] \in 0..(s[i] - 1)) /\ CellIndex(c, st) = index
    BY <1>1, <1>2, InsideInverts
<1>4. c # Outside
    BY <1>1, <1>3 DEF Outside
<1>5. \E f : c = [i \in 1..n |-> f[i]]
    <2>1. \E r : Coordinates(index, s, st) = Outside
              \/ Coordinates(index, s, st) = [i \in DOMAIN s |-> r[i] \div st[i]]
        <3>1. \/ Coordinates(index, s, st) = Outside
              \/ Coordinates(index, s, st)
                     = [i \in DOMAIN s |-> Remaining(index, s, st)[i] \div st[i]]
            BY Zenon DEF Coordinates, Remaining
        <3> QED
            BY <3>1, Zenon
    <2>2. PICK r : c = [i \in 1..n |-> r[i] \div st[i]]
        BY <1>1, <1>4, <2>1
    <2> HIDE DEF c
    <2> DEFINE f == [i \in 1..n |-> r[i] \div st[i]]
    <2>3. c = [i \in 1..n |-> f[i]]
        BY <2>2
    <2> QED
        BY <2>3
<1> HIDE DEF c, st
<1>6. c \in [1..n -> Nat] /\ \A i \in 1..n : c[i] < s[i]
    BY <1>1, <1>3, <1>5
<1> QED
    BY <1>3, <1>6 DEF Coords, c, st

-----------------------------------------------------------------------------
(* The properties, for any sizes and limits.                               *)

\* What has been computed is the product of what was chosen.
Computed ==
    /\ sizes \in Seq(Nat) /\ \A i \in DOMAIN sizes : sizes[i] <= MaxSize
    /\ limit \in 1..MaxInt
    /\ product.error # "waiting" => product = CheckedProduct(sizes, limit)

\* The product is not yet computed, or it is CheckedProduct.
LEMMA ComputedInit == CubeInit => Computed
<1> SUFFICES ASSUME CubeInit PROVE Computed
    OBVIOUS
<1>1. PICK n \in 0..MaxLength : sizes \in [1..n -> 0..MaxSize]
    BY DEF CubeInit
<1>2. n \in Nat /\ MaxSize \in Nat
    BY SizesAssumption
<1>3. sizes \in [1..n -> Nat] /\ DOMAIN sizes = 1..n /\ \A i \in 1..n : sizes[i] <= MaxSize
    BY <1>1, <1>2
<1>4. sizes \in Seq(Nat)
    BY <1>2, <1>3, SeqDef
<1>5. limit \in 1..MaxInt /\ product.error = "waiting"
    BY SizesAssumption DEF CubeInit
<1> QED
    BY <1>3, <1>4, <1>5 DEF Computed

\* A step computes it.
LEMMA ComputedNext == Computed /\ [CubeNext]_<<sizes, limit, product>> => Computed'
BY DEF Computed, CubeNext

\* The invariant.
LEMMA AlwaysComputed == CubeSpec => []Computed
BY ComputedInit, ComputedNext, PTL DEF CubeSpec

\* CheckedProduct accepts exactly the cubes whose size is within the limit and
\* the width of integers, and returns that size; with room for one more factor it
\* never reports an overflow.
THEOREM ExactProduct == CubeSpec => []ProductIsExact
<1>1. Computed => ProductIsExact
    <2> SUFFICES ASSUME Computed, product.error # "waiting" PROVE ProductIsExact
        BY DEF ProductIsExact
    <2>1. /\ sizes \in Seq(Nat) /\ \A i \in DOMAIN sizes : sizes[i] <= MaxSize
          /\ limit \in 1..MaxInt /\ product = CheckedProduct(sizes, limit)
        BY DEF Computed
    <2>2. Exact = Product(sizes)
        BY DEF Exact, Product
    <2>3. limit * MaxSize <= MaxInt => product.error # "overflow"
        BY <2>1, SizesAssumption, LimitBeforeOverflow
    <2>4. CASE sizes = <<>>
        <3>1. PICK p : Checks(sizes, limit, p)
            BY <2>1, ChecksExist
        <3>2. product.error = "empty"
            BY <2>1, <2>4, <3>1, EmptySeq DEF Checks, Started
        <3> QED
            BY <2>3, <2>4, <3>2 DEF ProductIsExact
    <2>5. CASE sizes # <<>>
        <3>1. /\ product.error = "none" => product.count = Product(sizes)
              /\ product.error = "none"
                     <=> (\A i \in DOMAIN sizes : sizes[i] >= 1) /\ Product(sizes) <= limit
            BY <2>1, <2>5, ProductDecides
        <3>2. 0 \notin ToSet(sizes) <=> \A i \in DOMAIN sizes : sizes[i] >= 1
            <4>1. \A i \in DOMAIN sizes : sizes[i] \in Nat
                BY <2>1, LenProperties
            <4> QED
                BY <4>1 DEF ToSet
        <3> QED
            BY <2>2, <2>3, <2>5, <3>1, <3>2 DEF ProductIsExact
    <2> QED
        BY <2>4, <2>5
<1> QED
    BY <1>1, AlwaysComputed, PTL

\* Coordinates is the inverse of CellIndex on a cube of any shape, and refuses
\* every index outside it.
THEOREM CoordinatesInvert == CubeSpec => []CoordinatesInvertCellIndex
<1>1. Computed => CoordinatesInvertCellIndex
    <2> SUFFICES ASSUME Computed, product.error = "none"
                 PROVE  CoordinatesInvertCellIndex
        BY DEF CoordinatesInvertCellIndex
    <2>1. /\ sizes \in Seq(Nat) /\ limit \in 1..MaxInt
          /\ product = CheckedProduct(sizes, limit)
        BY DEF Computed
    <2>2. sizes # <<>>
        <3> SUFFICES ASSUME sizes = <<>> PROVE FALSE
            OBVIOUS
        <3>1. PICK p : Checks(sizes, limit, p)
            BY <2>1, ChecksExist
        <3> QED
            BY <2>1, <3>1, EmptySeq DEF Checks, Started
    <2>3. /\ product.count = Product(sizes) /\ Product(sizes) \in Nat
          /\ \A i \in DOMAIN sizes : sizes[i] >= 1
        BY <2>1, <2>2, ProductDecides
    <2>4. sizes \in Shapes
        <3>1. /\ Len(sizes) \in Nat /\ DOMAIN sizes = 1..Len(sizes)
              /\ sizes \in [1..Len(sizes) -> Nat]
            BY <2>1, LenProperties
        <3>2. sizes \in [1..Len(sizes) -> Nat \ {0}]
            BY <2>3, <3>1
        <3>3. sizes \in Seq(Nat \ {0})
            BY <3>1, <3>2, SeqDef
        <3> QED
            BY <2>2, <3>3 DEF Shapes
    <2>5. ASSUME NEW n \in -1..(product.count + 1), n \in 0..(product.count - 1)
          PROVE  LET coords == Coordinates(n, sizes, Strides(sizes)) IN
                 /\ \A i \in DOMAIN sizes : coords[i] \in 0..(sizes[i] - 1)
                 /\ CellIndex(coords, Strides(sizes)) = n
        <3>1. n \in Nat /\ n < Product(sizes)
            BY <2>3, <2>5
        <3> QED
            BY <2>4, <3>1, InsideInverts
    <2>6. ASSUME NEW n \in -1..(product.count + 1), n \notin 0..(product.count - 1)
          PROVE  Coordinates(n, sizes, Strides(sizes)) = Outside
        <3>1. n \in Int /\ (n < 0 \/ n >= Product(sizes))
            BY <2>3, <2>6
        <3> QED
            BY <2>4, <3>1, OutsideRefused
    <2> QED
        BY <2>5, <2>6 DEF CoordinatesInvertCellIndex
<1> QED
    BY <1>1, AlwaysComputed, PTL
================================================================================
