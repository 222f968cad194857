------------------------------ MODULE IntakeProofs ------------------------------
(***************************************************************************)
(* Proofs about what a request brings, for any tables, fields and bounds:  *)
(* that the decoder refuses duplicate keys, and only them, at any depth,   *)
(* and accepts one value; that a key is an identity; and that what is      *)
(* stored fits the columns.                                                *)
(***************************************************************************)
EXTENDS Intake, SequenceTheorems, FiniteSetTheorems, NaturalsInduction, WellFoundedInduction, TLAPS

-----------------------------------------------------------------------------
(* How deep a token lies.                                                  *)

\* Json!Depth, of any tokens.
Of(tokens, i, kinds) == {j \in 1..(i - 1) : tokens[j].kind \in kinds}
Opening == {"{", "["}
Closing == {"}", "]"}
Deep(tokens, i) == Cardinality(Of(tokens, i, Opening)) - Cardinality(Of(tokens, i, Closing))

LEMMA SameCardinality == \A S : Json!Cardinality(S) = Cardinality(S)
BY DEF Json!Cardinality, Cardinality

LEMMA DepthIsDeep == \A i : Json!Depth(i) = Deep(input, i)
BY SameCardinality, Zenon DEF Json!Depth, Deep, Of, Opening, Closing

LEMMA DepthIsDeepNext == \A i : Json!Depth(i)' = Deep(input', i)
BY SameCardinality, Zenon DEF Json!Depth, Deep, Of, Opening, Closing

LEMMA CountType ==
    ASSUME NEW tokens, NEW i \in Nat, NEW kinds
    PROVE  IsFiniteSet(Of(tokens, i, kinds)) /\ Cardinality(Of(tokens, i, kinds)) \in Nat
<1>1. IsFiniteSet(1..(i - 1))
    BY FS_Interval
<1>2. Of(tokens, i, kinds) \subseteq 1..(i - 1)
    BY DEF Of
<1> QED
    BY <1>1, <1>2, FS_Subset, FS_CardinalityType

LEMMA DeepType == ASSUME NEW tokens, NEW i \in Nat PROVE Deep(tokens, i) \in Int
<1>1. Cardinality(Of(tokens, i, Opening)) \in Nat
    BY CountType
<1>2. Cardinality(Of(tokens, i, Closing)) \in Nat
    BY CountType
<1> QED
    BY <1>1, <1>2 DEF Deep

\* Nothing is open before the first token.
LEMMA DeepFirst == ASSUME NEW tokens PROVE Deep(tokens, 1) = 0
<1>1. \A kinds : Of(tokens, 1, kinds) = {}
    BY DEF Of
<1> QED
    BY <1>1, FS_EmptySet DEF Deep

LEMMA CountNext ==
    ASSUME NEW tokens, NEW i \in Nat \ {0}, NEW kinds
    PROVE  Cardinality(Of(tokens, i + 1, kinds)) =
               Cardinality(Of(tokens, i, kinds)) + (IF tokens[i].kind \in kinds THEN 1 ELSE 0)
<1>1. CASE tokens[i].kind \in kinds
    <2>1. Of(tokens, i + 1, kinds) = Of(tokens, i, kinds) \cup {i} /\ i \notin Of(tokens, i, kinds)
        BY <1>1 DEF Of
    <2> QED
        BY <1>1, <2>1, CountType, FS_AddElement
<1>2. CASE tokens[i].kind \notin kinds
    <2>1. Of(tokens, i + 1, kinds) = Of(tokens, i, kinds)
        BY <1>2 DEF Of
    <2> QED
        BY <1>2, <2>1, CountType
<1> QED
    BY <1>1, <1>2

\* A token opens a container, closes one, or does neither.
Change(token) ==
    IF token.kind \in Opening THEN 1 ELSE IF token.kind \in Closing THEN -1 ELSE 0

LEMMA EitherKind == Opening \cap Closing = {}
BY Zenon DEF Opening, Closing

LEMMA DeepNext ==
    ASSUME NEW tokens, NEW i \in Nat \ {0}
    PROVE  Deep(tokens, i + 1) = Deep(tokens, i) + Change(tokens[i])
<1> DEFINE o == Cardinality(Of(tokens, i, Opening))
           c == Cardinality(Of(tokens, i, Closing))
<1>1. o \in Nat /\ c \in Nat
    BY CountType
<1>2. Cardinality(Of(tokens, i + 1, Opening)) = o + (IF tokens[i].kind \in Opening THEN 1 ELSE 0)
    BY CountNext
<1>3. Cardinality(Of(tokens, i + 1, Closing)) = c + (IF tokens[i].kind \in Closing THEN 1 ELSE 0)
    BY CountNext
<1> HIDE DEF o, c
<1>4. Deep(tokens, i) = o - c
    BY DEF Deep, o, c
<1>5. Deep(tokens, i + 1) = (o + (IF tokens[i].kind \in Opening THEN 1 ELSE 0))
                              - (c + (IF tokens[i].kind \in Closing THEN 1 ELSE 0))
    BY <1>2, <1>3 DEF Deep
<1> QED
    BY <1>1, <1>4, <1>5, EitherKind DEF Change

\* What the tokens that are read change.
LEMMA Changes ==
    /\ \A k : Change(Json!Key(k)) = 0
    /\ \A kind \in {"null", "scalar"} : Change(Json!Token(kind)) = 0
    /\ \A kind \in Opening : Change(Json!Token(kind)) = 1
    /\ \A kind \in Closing : Change(Json!Token(kind)) = -1
BY Zenon DEF Change, Opening, Closing, Json!Key, Json!Token

LEMMA KeyTokens ==
    /\ \A k : Json!Key(k).kind = "key" /\ Json!Key(k).key = k
    /\ \A kind \in Json!Kinds : Json!Token(kind).kind # "key"
BY Zenon DEF Json!Key, Json!Token, Json!Kinds

LEMMA KindsOf ==
    Json!Kinds = {"null", "scalar"} \cup Opening \cup Closing
BY Zenon DEF Json!Kinds, Opening, Closing

\* The depth of a token depends on those before it.
LEMMA DeepBefore ==
    ASSUME NEW tokens, NEW more, NEW i \in Nat, \A j \in 1..(i - 1) : tokens[j] = more[j]
    PROVE  Deep(tokens, i) = Deep(more, i)
<1>1. \A kinds : Of(tokens, i, kinds) = Of(more, i, kinds)
    BY DEF Of
<1> QED
    BY <1>1 DEF Deep

-----------------------------------------------------------------------------
(* The decoder.                                                            *)

Tokens == {Json!Key(k) : k \in Keys} \cup {Json!Token(kind) : kind \in Json!Kinds}
Frames == [object : BOOLEAN, inMember : BOOLEAN, seen : SUBSET Keys]

\* Two keys of one object, as Json!SameObject says it, that are equal.
Twice(tokens, i, j) ==
    /\ i < j /\ tokens[i].kind = "key" /\ tokens[j].kind = "key"
    /\ Deep(tokens, i) = Deep(tokens, j)
    /\ \A m \in i..j : Deep(tokens, m) >= Deep(tokens, i)
    /\ tokens[i].key = tokens[j].key

Duplicate(tokens) == \E i, j \in DOMAIN tokens : Twice(tokens, i, j)

\* The keys at depth d of the container that is open there at the end.
Level(tokens, d) ==
    {i \in 1..Len(tokens) :
        /\ tokens[i].kind = "key" /\ Deep(tokens, i) = d
        /\ \A m \in i..(Len(tokens) + 1) : Deep(tokens, m) >= d}

\* The stack of the recursion says what is open, and what it has seen.
Followed(tokens, frames) ==
    /\ Deep(tokens, Len(tokens) + 1) = Len(frames)
    /\ \A i \in 2..(Len(tokens) + 1) : Deep(tokens, i) >= 1
    /\ \A d \in 1..Len(frames) : frames[d].seen = {tokens[i].key : i \in Level(tokens, d)}

\* One value, which ends with its tokens.
Single(tokens) ==
    /\ tokens # <<>>
    /\ \A i \in 2..Len(tokens) : Deep(tokens, i) >= 1
    /\ Deep(tokens, Len(tokens) + 1) = 0

JsonInv ==
    /\ input \in Seq(Tokens) /\ stack \in Seq(Frames)
    /\ cause = "duplicate" <=> Duplicate(input)
    /\ phase # "refused" => cause = "none"
    /\ phase = "validating" => Followed(input, stack)
    /\ phase \in {"trailing", "decoding", "accepted"} => Single(input)

\* One more token changes the depth after it alone.
LEMMA Extended ==
    ASSUME NEW tokens \in Seq(Tokens), NEW t \in Tokens
    PROVE  /\ Append(tokens, t) \in Seq(Tokens)
           /\ Len(tokens) \in Nat /\ Len(Append(tokens, t)) = Len(tokens) + 1
           /\ \A i \in 1..Len(tokens) : Append(tokens, t)[i] = tokens[i]
           /\ Append(tokens, t)[Len(tokens) + 1] = t
           /\ \A i \in 1..(Len(tokens) + 1) : Deep(Append(tokens, t), i) = Deep(tokens, i)
           /\ Deep(Append(tokens, t), Len(tokens) + 2) = Deep(tokens, Len(tokens) + 1) + Change(t)
<1> DEFINE more == Append(tokens, t)
<1>1. /\ more \in Seq(Tokens) /\ Len(tokens) \in Nat /\ Len(more) = Len(tokens) + 1
      /\ \A i \in 1..Len(tokens) : more[i] = tokens[i]
      /\ more[Len(tokens) + 1] = t
    BY AppendProperties, LenProperties
<1> HIDE DEF more
<1>2. ASSUME NEW i \in 1..(Len(tokens) + 1) PROVE Deep(more, i) = Deep(tokens, i)
    BY <1>1, DeepBefore
<1>3. Deep(more, Len(tokens) + 1 + 1) = Deep(more, Len(tokens) + 1) + Change(more[Len(tokens) + 1])
    BY <1>1, DeepNext
<1>4. Len(tokens) + 1 + 1 = Len(tokens) + 2 /\ Len(tokens) + 1 \in 1..(Len(tokens) + 1)
    BY <1>1
<1>5. Deep(more, Len(tokens) + 2) = Deep(tokens, Len(tokens) + 1) + Change(t)
    BY <1>1, <1>2, <1>3, <1>4
<1> QED
    BY <1>1, <1>2, <1>5 DEF more

\* What is a duplicate stays one.
LEMMA TwiceBefore ==
    ASSUME NEW tokens \in Seq(Tokens), NEW t \in Tokens,
           NEW i \in 1..Len(tokens), NEW j \in 1..Len(tokens)
    PROVE  Twice(Append(tokens, t), i, j) <=> Twice(tokens, i, j)
<1> DEFINE more == Append(tokens, t)
<1>1. more[i] = tokens[i] /\ more[j] = tokens[j] /\ Len(tokens) \in Nat
    BY Extended
<1>2. \A m \in i..j : Deep(more, m) = Deep(tokens, m)
    BY Extended, <1>1
<1>3. Deep(more, i) = Deep(tokens, i) /\ Deep(more, j) = Deep(tokens, j)
    BY Extended, <1>1
<1> HIDE DEF more
<1>4. Twice(more, i, j) <=> Twice(tokens, i, j)
    BY <1>1, <1>2, <1>3 DEF Twice
<1> QED
    BY <1>4 DEF more

\* Only a key can be a duplicate.
LEMMA NoNewDuplicate ==
    ASSUME NEW tokens \in Seq(Tokens), NEW t \in Tokens, t.kind # "key"
    PROVE  Duplicate(Append(tokens, t)) = Duplicate(tokens)
<1> DEFINE more == Append(tokens, t)
<1>1. /\ DOMAIN tokens = 1..Len(tokens) /\ DOMAIN more = 1..(Len(tokens) + 1)
      /\ Len(tokens) \in Nat
    BY Extended, LenProperties
<1>2. \A i, j \in 1..Len(tokens) : Twice(more, i, j) <=> Twice(tokens, i, j)
    BY TwiceBefore
<1>3. ASSUME NEW i \in DOMAIN more, NEW j \in DOMAIN more, Twice(more, i, j)
      PROVE  i \in 1..Len(tokens) /\ j \in 1..Len(tokens)
    <2>1. more[Len(tokens) + 1].kind # "key"
        BY Extended
    <2> HIDE DEF more
    <2> QED
        BY <1>1, <1>3, <2>1 DEF Twice
<1> HIDE DEF more
<1>4. Duplicate(more) = Duplicate(tokens)
    <2>1. Duplicate(tokens) => Duplicate(more)
        BY <1>1, <1>2 DEF Duplicate
    <2>2. Duplicate(more) => Duplicate(tokens)
        BY <1>1, <1>2, <1>3 DEF Duplicate
    <2> QED
        BY <2>1, <2>2 DEF Duplicate
<1> QED
    BY <1>4 DEF more

\* What a container that stays open has seen.
LEMMA LevelNext ==
    ASSUME NEW tokens \in Seq(Tokens), NEW t \in Tokens, NEW d \in Nat \ {0},
           d <= Deep(tokens, Len(tokens) + 1), d <= Deep(tokens, Len(tokens) + 1) + Change(t)
    PROVE  {Append(tokens, t)[i].key : i \in Level(Append(tokens, t), d)} =
               {tokens[i].key : i \in Level(tokens, d)}
               \cup (IF t.kind = "key" /\ d = Deep(tokens, Len(tokens) + 1) THEN {t.key} ELSE {})
<1> DEFINE more == Append(tokens, t)
           n == Len(tokens)
<1>1. /\ n \in Nat /\ Len(more) = n + 1 /\ more[n + 1] = t
      /\ \A i \in 1..n : more[i] = tokens[i]
      /\ \A i \in 1..(n + 1) : Deep(more, i) = Deep(tokens, i)
      /\ Deep(more, n + 2) = Deep(tokens, n + 1) + Change(t)
    BY Extended
<1>2. d <= Deep(tokens, n + 1) /\ d <= Deep(tokens, n + 1) + Change(t)
    OBVIOUS
<1> HIDE DEF more, n
<1>3. ASSUME NEW i \in 1..n PROVE i \in Level(more, d) <=> i \in Level(tokens, d)
    <2>1. \A m \in i..(n + 1) : Deep(more, m) = Deep(tokens, m)
        BY <1>1
    <2>2. (\A m \in i..(n + 2) : Deep(more, m) >= d) <=> (\A m \in i..(n + 1) : Deep(tokens, m) >= d)
        <3>1. \A m \in i..(n + 2) : m \in i..(n + 1) \/ m = n + 2
            BY <1>1
        <3>2. i..(n + 1) \subseteq i..(n + 2)
            BY <1>1
        <3>3. Deep(more, n + 2) >= d
            BY <1>1, <1>2, DeepType
        <3> QED
            BY <2>1, <3>1, <3>2, <3>3
    <2>3. more[i] = tokens[i] /\ Deep(more, i) = Deep(tokens, i) /\ i \in 1..(n + 1)
        BY <1>1
    <2>4. Len(more) + 1 = n + 2 /\ Len(more) = n + 1
        BY <1>1
    <2> QED
        BY <2>2, <2>3, <2>4 DEF Level, n
<1>4. n + 1 \in Level(more, d) <=> (t.kind = "key" /\ d = Deep(tokens, n + 1))
    <2>1. \A m \in (n + 1)..(n + 2) : m = n + 1 \/ m = n + 2
        BY <1>1
    <2>2. Deep(more, n + 1) = Deep(tokens, n + 1) /\ Deep(more, n + 2) >= d /\ Deep(more, n + 1) >= d
        BY <1>1, <1>2, DeepType
    <2>3. Len(more) + 1 = n + 2 /\ n + 1 \in 1..Len(more)
        BY <1>1
    <2> QED
        BY <1>1, <2>1, <2>2, <2>3 DEF Level
<1>5. Level(more, d) \subseteq 1..n \cup {n + 1} /\ Level(tokens, d) \subseteq 1..n
    BY <1>1 DEF Level, n
<1>6. {more[i].key : i \in Level(more, d)} =
          {tokens[i].key : i \in Level(tokens, d)}
          \cup (IF t.kind = "key" /\ d = Deep(tokens, n + 1) THEN {t.key} ELSE {})
    BY <1>1, <1>3, <1>4, <1>5
<1> QED
    BY <1>6 DEF more, n

\* A container that has just been opened has no keys.
LEMMA LevelOpened ==
    ASSUME NEW tokens \in Seq(Tokens), NEW t \in Tokens, t.kind # "key"
    PROVE  Level(Append(tokens, t), Deep(tokens, Len(tokens) + 1) + 1) = {}
<1> DEFINE more == Append(tokens, t)
           n == Len(tokens)
<1>1. /\ n \in Nat /\ Len(more) = n + 1 /\ more[n + 1] = t
      /\ Deep(more, n + 1) = Deep(tokens, n + 1)
    BY Extended
<1>2. Deep(tokens, n + 1) \in Int
    BY <1>1, DeepType
<1> HIDE DEF more, n
<1> SUFFICES ASSUME NEW i \in Level(more, Deep(tokens, n + 1) + 1) PROVE FALSE
    BY DEF more, n
<1>3. i \in 1..(n + 1)
    BY <1>1 DEF Level
<1>4. n + 1 \in i..(Len(more) + 1)
    BY <1>1, <1>3
<1>5. Deep(more, n + 1) >= Deep(tokens, n + 1) + 1
    BY <1>4 DEF Level
<1> QED
    BY <1>1, <1>2, <1>5

\* The recursion follows a token that leaves a container open.
LEMMA FollowedNext ==
    ASSUME NEW tokens \in Seq(Tokens), NEW frames \in Seq(Frames), Followed(tokens, frames),
           NEW t \in Tokens, NEW after \in Seq(Frames),
           Len(after) = Len(frames) + Change(t), Len(after) # 0,
           \A d \in 1..Len(after) :
               after[d].seen =
                   IF d > Len(frames) THEN {}
                   ELSE frames[d].seen \cup (IF t.kind = "key" /\ d = Len(frames) THEN {t.key} ELSE {}),
           t.kind = "key" => Change(t) = 0
    PROVE  Followed(Append(tokens, t), after)
<1> DEFINE more == Append(tokens, t)
           n == Len(tokens)
<1>1. /\ n \in Nat /\ Len(more) = n + 1
      /\ \A i \in 1..(n + 1) : Deep(more, i) = Deep(tokens, i)
      /\ Deep(more, n + 2) = Deep(tokens, n + 1) + Change(t)
    BY Extended
<1>2. Len(frames) \in Nat /\ Len(after) \in Nat /\ Change(t) \in {-1, 0, 1}
    BY LenProperties DEF Change
<1>3. Deep(tokens, n + 1) = Len(frames)
    BY DEF Followed
<1>4. ASSUME NEW d \in 1..Len(after)
      PROVE  after[d].seen = {more[i].key : i \in Level(more, d)}
    <2>0. d \in Int
        BY <1>2
    <2>1. CASE d > Len(frames)
        <3>1. t.kind # "key" /\ d = Deep(tokens, n + 1) + 1
            BY <1>2, <1>3, <2>1
        <3>2. Level(more, d) = {}
            BY <3>1, LevelOpened
        <3> QED
            BY <2>1, <3>2
    <2>2. CASE d <= Len(frames)
        <3>1. d \in Nat \ {0} /\ d <= Deep(tokens, n + 1) /\ d <= Deep(tokens, n + 1) + Change(t)
            BY <1>2, <1>3, <2>2
        <3>2. {more[i].key : i \in Level(more, d)} =
                  {tokens[i].key : i \in Level(tokens, d)}
                  \cup (IF t.kind = "key" /\ d = Deep(tokens, n + 1) THEN {t.key} ELSE {})
            BY <3>1, LevelNext
        <3>3. frames[d].seen = {tokens[i].key : i \in Level(tokens, d)}
            BY <2>2 DEF Followed
        <3>4. after[d].seen = frames[d].seen \cup (IF t.kind = "key" /\ d = Len(frames) THEN {t.key} ELSE {})
            <4>1. ~(d > Len(frames))
                BY <1>2, <2>0, <2>2
            <4> QED
                BY <4>1
        <3> HIDE DEF more, n
        <3> QED
            BY <1>3, <3>2, <3>3, <3>4
    <2> QED
        <3>1. d > Len(frames) \/ d <= Len(frames)
            BY <1>2, <2>0
        <3> QED
            BY <2>1, <2>2, <3>1
<1>5. \A i \in 2..(n + 1) : Deep(tokens, i) >= 1
    BY DEF Followed
<1> HIDE DEF more, n
<1>6. ASSUME NEW i \in 2..(n + 2) PROVE Deep(more, i) >= 1
    <2>1. CASE i = n + 2
        BY <1>1, <1>2, <1>3, <2>1
    <2>2. CASE i # n + 2
        BY <1>1, <1>5, <2>2
    <2> QED
        BY <2>1, <2>2
<1>7. Deep(more, n + 2) = Len(after) /\ Len(more) + 1 = n + 2
    BY <1>1, <1>2, <1>3
<1>8. Followed(more, after)
    BY <1>4, <1>6, <1>7 DEF Followed
<1> QED
    BY <1>8 DEF more

\* A token after which nothing is open ends the value.
LEMMA SingleNext ==
    ASSUME NEW tokens \in Seq(Tokens), NEW frames \in Seq(Frames), Followed(tokens, frames),
           NEW t \in Tokens, Len(frames) + Change(t) = 0
    PROVE  Single(Append(tokens, t))
<1> DEFINE more == Append(tokens, t)
           n == Len(tokens)
<1>1. /\ n \in Nat /\ Len(more) = n + 1
      /\ \A i \in 1..(n + 1) : Deep(more, i) = Deep(tokens, i)
      /\ Deep(more, n + 2) = Deep(tokens, n + 1) + Change(t)
      /\ more # <<>>
    BY Extended, EmptySeq
<1>2. Deep(tokens, n + 1) = Len(frames) /\ \A i \in 2..(n + 1) : Deep(tokens, i) >= 1
    BY DEF Followed
<1> HIDE DEF more, n
<1>3. \A i \in 2..(n + 1) : Deep(more, i) >= 1
    BY <1>1, <1>2
<1>4. Len(more) + 1 = n + 2
    BY <1>1
<1>5. Single(more)
    BY <1>1, <1>2, <1>3, <1>4 DEF Single
<1> QED
    BY <1>5 DEF more

\* A token that is read, whatever the decoder does with it.
LEMMA TokensRead ==
    /\ \A k \in Keys : Json!Key(k) \in Tokens
    /\ \A kind \in Json!Kinds : Json!Token(kind) \in Tokens
BY DEF Tokens

\* The caller goes on, or the value is complete.
LEMMA ReturnStep ==
    ASSUME JsonInv, phase = "validating",
           NEW kind \in Json!Kinds, NEW frames \in Seq(Frames),
           input' = Append(input, Json!Token(kind)), Json!Return(frames),
           Len(frames) = Len(stack) + Change(Json!Token(kind)),
           \A d \in 1..Len(frames) : d <= Len(stack) /\ frames[d] = stack[d]
    PROVE  JsonInv'
<1> DEFINE t == Json!Token(kind)
<1>1. t \in Tokens /\ t.kind # "key"
    BY TokensRead, KeyTokens
<1>2. input \in Seq(Tokens) /\ stack \in Seq(Frames) /\ Followed(input, stack)
    BY DEF JsonInv
<1>3. cause = "none" /\ ~Duplicate(input)
    BY DEF JsonInv
<1> HIDE DEF t
<1>4. input' \in Seq(Tokens) /\ ~Duplicate(input')
    BY <1>1, <1>2, <1>3, Extended, NoNewDuplicate DEF t
<1>5. cause' = "none"
    BY <1>3 DEF Json!Return
<1>6. CASE frames = <<>>
    <2>1. phase' = "trailing" /\ stack' = <<>>
        BY <1>6 DEF Json!Return
    <2>2. Single(input')
        BY <1>1, <1>2, <1>6, SingleNext DEF t
    <2> QED
        BY <1>4, <1>5, <2>1, <2>2, EmptySeq DEF JsonInv
<1>7. CASE frames # <<>>
    <2>1. phase' = "validating" /\ stack' = [frames EXCEPT ![Len(frames)].inMember = FALSE]
        BY <1>7 DEF Json!Return
    <2>2. Len(frames) \in Nat \ {0} /\ frames[Len(frames)] \in Frames
        BY <1>7, EmptySeq, ElementOfSeq
    <2>3. [frames[Len(frames)] EXCEPT !.inMember = FALSE] \in Frames
        BY <2>2 DEF Frames
    <2>4. stack' = [frames EXCEPT ![Len(frames)] = [frames[Len(frames)] EXCEPT !.inMember = FALSE]]
        BY <2>1
    <2>5. /\ stack' \in Seq(Frames) /\ Len(stack') = Len(frames)
          /\ \A d \in 1..Len(frames) :
                 stack'[d] = IF d = Len(frames) THEN [frames[Len(frames)] EXCEPT !.inMember = FALSE]
                             ELSE frames[d]
        BY <2>2, <2>3, <2>4, ExceptSeq
    <2>6. \A d \in 1..Len(frames) : stack'[d].seen = frames[d].seen
        BY <2>2, <2>5 DEF Frames
    <2>7. \A d \in 1..Len(stack') : ~(d > Len(stack)) /\ stack'[d].seen = stack[d].seen
        BY <1>2, <2>5, <2>6, LenProperties
    <2>8. Followed(input', stack')
        <3>1. Len(stack') = Len(stack) + Change(t) /\ Len(stack') # 0
            BY <2>2, <2>5 DEF t
        <3>2. \A d \in 1..Len(stack') :
                  stack'[d].seen =
                      IF d > Len(stack) THEN {}
                      ELSE stack[d].seen \cup (IF t.kind = "key" /\ d = Len(stack) THEN {t.key} ELSE {})
            BY <1>1, <2>7
        <3>3. Followed(Append(input, t), stack')
            <4>1. stack' \in Seq(Frames) /\ (t.kind = "key" => Change(t) = 0)
                BY <1>1, <2>5
            <4> QED
                BY <1>1, <1>2, <3>1, <3>2, <4>1, FollowedNext
        <3> QED
            BY <3>3 DEF t
    <2> QED
        BY <1>4, <1>5, <2>1, <2>5, <2>8 DEF JsonInv
<1> QED
    BY <1>6, <1>7

LEMMA ScalarStep ==
    ASSUME JsonInv, NEW kind \in Json!Kinds, Json!ReadScalar(kind)
    PROVE  JsonInv'
<1>1. stack \in Seq(Frames)
    BY DEF JsonInv
<1>2. Change(Json!Token(kind)) = 0 /\ Len(stack) = Len(stack) + 0
    BY Changes, LenProperties, <1>1 DEF Json!ReadScalar
<1>3. \A d \in 1..Len(stack) : d <= Len(stack)
    BY LenProperties, <1>1
<1> QED
    BY <1>1, <1>2, <1>3, ReturnStep DEF Json!ReadScalar, Json!Consume

LEMMA OpeningStep ==
    ASSUME JsonInv, NEW kind \in Json!Kinds, Json!ReadOpening(kind)
    PROVE  JsonInv'
<1> DEFINE t == Json!Token(kind)
           frame == Json!Frame(kind = "{")
<1>1. kind \in Opening /\ phase = "validating" /\ phase' = phase /\ cause' = cause
    BY Zenon DEF Json!ReadOpening, Opening
<1>2. input' = Append(input, t) /\ stack' = Append(stack, frame)
    BY Zenon DEF Json!ReadOpening, Json!Consume
<1>3. t \in Tokens /\ t.kind # "key" /\ Change(t) = 1
    BY TokensRead, KeyTokens, Changes, <1>1
<1>4. frame \in Frames /\ frame.seen = {}
    <2>1. (kind = "{") \in BOOLEAN
        BY Zenon
    <2> HIDE DEF frame
    <2>2. frame = [object |-> (kind = "{"), inMember |-> FALSE, seen |-> {}]
        BY Zenon DEF frame, Json!Frame
    <2> DEFINE b == kind = "{"
    <2> HIDE DEF b
    <2>3. b \in BOOLEAN /\ frame = [object |-> b, inMember |-> FALSE, seen |-> {}]
        BY <2>1, <2>2, Zenon DEF b
    <2> QED
        BY <2>3 DEF Frames
<1> HIDE DEF t, frame
<1>5. input \in Seq(Tokens) /\ stack \in Seq(Frames) /\ Followed(input, stack)
    BY <1>1 DEF JsonInv
<1>6. cause' = "none" /\ ~Duplicate(input)
    BY <1>1 DEF JsonInv
<1>7. input' \in Seq(Tokens) /\ ~Duplicate(input')
    BY <1>2, <1>3, <1>5, <1>6, Extended, NoNewDuplicate
<1>8. /\ stack' \in Seq(Frames) /\ Len(stack') = Len(stack) + 1 /\ Len(stack) \in Nat
      /\ \A d \in 1..Len(stack) : stack'[d] = stack[d]
      /\ stack'[Len(stack) + 1] = frame
    BY <1>2, <1>4, <1>5, AppendProperties, LenProperties
<1>9. \A d \in 1..Len(stack') :
          stack'[d].seen = IF d > Len(stack) THEN {} ELSE stack[d].seen
    <2>1. ASSUME NEW d \in 1..Len(stack')
          PROVE  IF d > Len(stack) THEN stack'[d] = frame ELSE stack'[d] = stack[d]
        <3>1. d \in Int /\ (d > Len(stack) => d = Len(stack) + 1) /\ (~(d > Len(stack)) => d \in 1..Len(stack))
            BY <1>8
        <3> QED
            BY <1>8, <3>1
    <2> QED
        BY <1>4, <2>1
<1>10. Followed(input', stack')
    <2>1. Len(stack') = Len(stack) + Change(t) /\ Len(stack') # 0
        BY <1>3, <1>8
    <2>2. \A d \in 1..Len(stack') :
              stack'[d].seen =
                  IF d > Len(stack) THEN {}
                  ELSE stack[d].seen \cup (IF t.kind = "key" /\ d = Len(stack) THEN {t.key} ELSE {})
        BY <1>3, <1>9
    <2>3. Followed(Append(input, t), stack')
        BY <1>3, <1>5, <1>8, <2>1, <2>2, FollowedNext
    <2> QED
        BY <1>2, <2>3
<1> QED
    <2>1. cause' # "duplicate" /\ phase' = "validating"
        BY <1>1, <1>6
    <2> QED
        BY <1>6, <1>7, <1>8, <1>10, <2>1 DEF JsonInv

\* The calls that are not the innermost one.
LEMMA Lower ==
    ASSUME stack \in Seq(Frames), stack # <<>>
    PROVE  /\ Json!Below \in Seq(Frames) /\ Len(Json!Below) = Len(stack) - 1
           /\ \A d \in 1..(Len(stack) - 1) : Json!Below[d] = stack[d]
<1> DEFINE n == Len(stack) - 1
<1>1. Len(stack) \in Nat \ {0}
    BY EmptySeq
<1>2. 1 \in Int /\ n \in Nat /\ \A d \in 1..n : stack[d] \in Frames
    BY <1>1, ElementOfSeq
<1>3. /\ SubSeq(stack, 1, n) \in Seq(Frames)
      /\ Len(SubSeq(stack, 1, n)) = IF 1 <= n THEN n - 1 + 1 ELSE 0
      /\ \A d \in 1..(n - 1 + 1) : SubSeq(stack, 1, n)[d] = stack[1 + d - 1]
    BY <1>2, SubSeqProperties
<1> HIDE DEF n
<1>4. Len(SubSeq(stack, 1, n)) = n
    BY <1>2, <1>3
<1>5. \A d \in 1..n : SubSeq(stack, 1, n)[d] = stack[d]
    BY <1>2, <1>3
<1> QED
    BY <1>3, <1>4, <1>5 DEF n, Json!Below

LEMMA ClosingStep ==
    ASSUME JsonInv, NEW kind \in Json!Kinds, Json!ReadClosing(kind)
    PROVE  JsonInv'
<1>1. phase = "validating" /\ stack # <<>> /\ kind \in Closing
      /\ input' = Append(input, Json!Token(kind)) /\ Json!Return(Json!Below)
    BY Zenon DEF Json!ReadClosing, Json!Consume, Closing
<1>2. stack \in Seq(Frames)
    BY DEF JsonInv
<1>3. Len(stack) \in Nat \ {0}
    BY <1>1, <1>2, EmptySeq
<1>4. /\ Json!Below \in Seq(Frames) /\ Len(Json!Below) = Len(stack) - 1
      /\ \A d \in 1..(Len(stack) - 1) : Json!Below[d] = stack[d]
    BY <1>1, <1>2, Lower
<1>5. Change(Json!Token(kind)) = -1
    BY <1>1, Changes
<1>6. \A d \in 1..Len(Json!Below) : d <= Len(stack) /\ Json!Below[d] = stack[d]
    BY <1>3, <1>4
<1> QED
    BY <1>1, <1>3, <1>4, <1>5, <1>6, ReturnStep

\* A key is a duplicate where the frame on top has seen it.
LEMMA KeyDuplicate ==
    ASSUME NEW tokens \in Seq(Tokens), NEW frames \in Seq(Frames), Followed(tokens, frames),
           ~Duplicate(tokens), frames # <<>>, NEW k \in Keys
    PROVE  Duplicate(Append(tokens, Json!Key(k))) <=> k \in frames[Len(frames)].seen
<1> DEFINE t == Json!Key(k)
           more == Append(tokens, t)
           n == Len(tokens)
           N == Len(frames)
<1>1. t \in Tokens /\ t.kind = "key" /\ t.key = k
    BY TokensRead, KeyTokens
<1> HIDE DEF t
<1>2. /\ n \in Nat /\ Len(more) = n + 1 /\ more[n + 1] = t /\ more \in Seq(Tokens)
      /\ \A i \in 1..n : more[i] = tokens[i]
      /\ \A i \in 1..(n + 1) : Deep(more, i) = Deep(tokens, i)
    BY <1>1, Extended
<1>3. DOMAIN more = 1..(n + 1) /\ DOMAIN tokens = 1..n
    BY <1>2, LenProperties
<1>4. \A i, j \in 1..n : ~Twice(more, i, j)
    BY <1>1, <1>3, TwiceBefore DEF Duplicate
<1>5. N \in Nat \ {0} /\ Deep(tokens, n + 1) = N
    BY EmptySeq DEF Followed
<1>6. frames[N].seen = {tokens[i].key : i \in Level(tokens, N)}
    BY <1>5 DEF Followed
<1> HIDE DEF more, N
<1>7. ASSUME NEW i \in 1..n PROVE Twice(more, i, n + 1) <=> i \in Level(tokens, N) /\ tokens[i].key = k
    <2>1. more[i] = tokens[i] /\ more[n + 1] = t /\ i < n + 1
        BY <1>2
    <2>2. \A m \in i..(n + 1) : Deep(more, m) = Deep(tokens, m)
        BY <1>2
    <2>3. Deep(more, i) = Deep(tokens, i) /\ Deep(more, n + 1) = N
        BY <1>2, <1>5
    <2> QED
        BY <1>1, <2>1, <2>2, <2>3 DEF Twice, Level
<1>8. Level(tokens, N) \subseteq 1..n
    BY DEF Level
<1> HIDE DEF n
<1>9. ASSUME Duplicate(more) PROVE \E i \in 1..n : Twice(more, i, n + 1)
    <2>1. PICK i \in 1..(n + 1), j \in 1..(n + 1) : Twice(more, i, j)
        BY <1>3, <1>9 DEF Duplicate
    <2>2. i < j
        BY <2>1 DEF Twice
    <2>3. i \in 1..n /\ (j \in 1..n \/ j = n + 1)
        BY <1>2, <2>2
    <2> QED
        BY <1>4, <2>1, <2>3
<1>10. ASSUME NEW i \in 1..n, Twice(more, i, n + 1) PROVE Duplicate(more)
    <2>1. i \in 1..(n + 1) /\ n + 1 \in 1..(n + 1)
        BY <1>2
    <2> QED
        BY <1>3, <1>10, <2>1 DEF Duplicate
<1>11. Duplicate(more) <=> k \in frames[N].seen
    BY <1>6, <1>7, <1>8, <1>9, <1>10
<1> QED
    BY <1>11 DEF more, t, N

LEMMA KeyStep ==
    ASSUME JsonInv, NEW k \in Keys, Json!ReadKey(k)
    PROVE  JsonInv'
<1> DEFINE t == Json!Key(k)
           n == Len(stack)
<1>1. /\ phase = "validating" /\ stack # <<>> /\ input' = Append(input, t)
      /\ Json!Top = stack[n] /\ Json!Below = SubSeq(stack, 1, n - 1)
    BY DEF Json!ReadKey, Json!WantsKey, Json!Consume, Json!Top, Json!Below
<1>2. input \in Seq(Tokens) /\ stack \in Seq(Frames) /\ Followed(input, stack)
      /\ ~Duplicate(input) /\ cause = "none"
    BY <1>1 DEF JsonInv
<1>3. t \in Tokens /\ t.kind = "key" /\ t.key = k /\ Change(t) = 0
    BY TokensRead, KeyTokens, Changes
<1>4. n \in Nat \ {0} /\ stack[n] \in Frames
    BY <1>1, <1>2, EmptySeq, ElementOfSeq
<1>5. Duplicate(input') <=> k \in stack[n].seen
    BY <1>1, <1>2, KeyDuplicate
<1>6. input' \in Seq(Tokens)
    BY <1>1, <1>2, <1>3, Extended
<1>7. CASE k \in stack[n].seen
    <2>1. phase' = "refused" /\ cause' = "duplicate" /\ stack' = stack
        BY <1>1, <1>7 DEF Json!ReadKey, Json!Refuse
    <2> QED
        BY <1>2, <1>5, <1>6, <1>7, <2>1 DEF JsonInv
<1>8. CASE k \notin stack[n].seen
    <2> DEFINE top == [stack[n] EXCEPT !.inMember = TRUE, !.seen = @ \cup {k}]
    <2>1. phase' = "validating" /\ cause' = "none" /\ stack' = Append(Json!Below, top)
        BY <1>1, <1>2, <1>8 DEF Json!ReadKey
    <2>2. top \in Frames /\ top.seen = stack[n].seen \cup {k}
        BY <1>4 DEF Frames
    <2> HIDE DEF top, n
    <2>3. /\ Json!Below \in Seq(Frames) /\ Len(Json!Below) = n - 1
          /\ \A d \in 1..(n - 1) : Json!Below[d] = stack[d]
        BY <1>1, <1>2, Lower DEF n
    <2>4. /\ stack' \in Seq(Frames) /\ Len(stack') = n - 1 + 1
          /\ \A d \in 1..(n - 1) : stack'[d] = Json!Below[d]
          /\ stack'[n - 1 + 1] = top
        BY <2>1, <2>2, <2>3, AppendProperties
    <2>5. Len(stack') = n /\ stack'[n] = top /\ n - 1 + 1 = n
        BY <1>4, <2>4
    <2>6. ASSUME NEW d \in 1..n
          PROVE  stack'[d].seen = stack[d].seen \cup (IF d = n THEN {k} ELSE {})
        <3>1. CASE d = n
            BY <2>2, <2>5, <3>1
        <3>2. CASE d # n
            <4>1. d \in 1..(n - 1)
                BY <1>4, <3>2
            <4> QED
                BY <2>3, <2>4, <3>2, <4>1
        <3> QED
            BY <3>1, <3>2
    <2>7. \A d \in 1..Len(stack') :
              stack'[d].seen =
                  IF d > Len(stack) THEN {}
                  ELSE stack[d].seen \cup (IF t.kind = "key" /\ d = Len(stack) THEN {t.key} ELSE {})
        <3>1. \A d \in 1..n : ~(d > n)
            BY <1>4
        <3> QED
            BY <1>3, <2>5, <2>6, <3>1 DEF n
    <2>8. Len(stack') = Len(stack) + Change(t) /\ Len(stack') # 0 /\ (t.kind = "key" => Change(t) = 0)
        BY <1>3, <1>4, <2>5 DEF n
    <2>9. Followed(Append(input, t), stack')
        <3>1. stack' \in Seq(Frames) /\ t \in Tokens
            BY <1>3, <2>4
        <3>2. input \in Seq(Tokens) /\ stack \in Seq(Frames) /\ Followed(input, stack)
            BY <1>2
        <3> HIDE DEF t
        <3> QED
            BY <2>7, <2>8, <3>1, <3>2, FollowedNext
    <2> QED
        BY <1>1, <1>5, <1>6, <1>8, <2>1, <2>4, <2>9 DEF JsonInv
<1> QED
    BY <1>7, <1>8

LEMMA TrailingStep ==
    ASSUME JsonInv, NEW kind \in Json!Kinds, Json!ReadTrailing(kind)
    PROVE  JsonInv'
<1>1. /\ phase = "trailing" /\ phase' = "refused" /\ cause' = "trailing" /\ stack' = stack
      /\ input' = Append(input, Json!Token(kind))
    BY DEF Json!ReadTrailing, Json!Consume, Json!Refuse
<1>2. Json!Token(kind) \in Tokens /\ Json!Token(kind).kind # "key"
    BY TokensRead, KeyTokens
<1>3. input \in Seq(Tokens) /\ stack \in Seq(Frames) /\ ~Duplicate(input)
    BY <1>1 DEF JsonInv
<1>4. input' \in Seq(Tokens) /\ ~Duplicate(input')
    BY <1>1, <1>2, <1>3, Extended, NoNewDuplicate
<1> QED
    BY <1>1, <1>3, <1>4 DEF JsonInv

\* Steps that read nothing.
LEMMA QuietStep ==
    ASSUME JsonInv, Json!ReadFails \/ Json!ReadEnd \/ Json!Decode \/ UNCHANGED Json!vars
    PROVE  JsonInv'
<1>1. CASE Json!ReadFails
    <2>1. phase = "validating" /\ phase' = "refused" /\ cause' = "syntax" /\ stack' = stack /\ input' = input
        BY <1>1 DEF Json!ReadFails, Json!Refuse
    <2> QED
        BY <2>1 DEF JsonInv
<1>2. CASE Json!ReadEnd
    <2>1. phase = "trailing" /\ phase' = "decoding" /\ UNCHANGED <<input, stack, cause>>
        BY <1>2 DEF Json!ReadEnd
    <2> QED
        BY <2>1 DEF JsonInv
<1>3. CASE Json!Decode
    <2>1. /\ phase = "decoding" /\ stack' = stack /\ input' = input
          /\ \/ phase' = "accepted" /\ cause' = cause
             \/ phase' = "refused" /\ cause' = "structure"
        BY <1>3, Zenon DEF Json!Decode, Json!Refuse
    <2> QED
        BY <2>1 DEF JsonInv
<1>4. CASE UNCHANGED Json!vars
    BY <1>4 DEF JsonInv, Json!vars
<1> QED
    BY <1>1, <1>2, <1>3, <1>4

LEMMA InitJson == IntakeInit => JsonInv
<1> SUFFICES ASSUME IntakeInit PROVE JsonInv
    OBVIOUS
<1>1. input = <<>> /\ stack = <<>> /\ phase = "validating" /\ cause = "none"
    BY DEF IntakeInit, Json!Init
<1>2. input \in Seq(Tokens) /\ stack \in Seq(Frames) /\ Len(input) = 0 /\ Len(stack) = 0
    BY <1>1, EmptySeq
<1>3. ~Duplicate(input)
    BY <1>2, LenProperties DEF Duplicate, Twice
<1>4. Followed(input, stack)
    BY <1>2, DeepFirst DEF Followed
<1> QED
    BY <1>1, <1>2, <1>3, <1>4 DEF JsonInv

LEMMA NextJson == JsonInv /\ [IntakeNext]_<<vars, document, decoded>> => JsonInv'
<1> SUFFICES ASSUME JsonInv, [IntakeNext]_<<vars, document, decoded>> PROVE JsonInv'
    OBVIOUS
<1>1. CASE Decoding
    <2>1. ASSUME NEW kind \in Json!Kinds, Json!ReadScalar(kind) PROVE JsonInv'
        BY <2>1, ScalarStep
    <2>2. ASSUME NEW kind \in Json!Kinds, Json!ReadOpening(kind) PROVE JsonInv'
        BY <2>2, OpeningStep
    <2>3. ASSUME NEW kind \in Json!Kinds, Json!ReadClosing(kind) PROVE JsonInv'
        BY <2>3, ClosingStep
    <2>4. ASSUME NEW kind \in Json!Kinds, Json!ReadTrailing(kind) PROVE JsonInv'
        BY <2>4, TrailingStep
    <2>5. ASSUME NEW k \in Keys, Json!ReadKey(k) PROVE JsonInv'
        BY <2>5, KeyStep
    <2>6. CASE Json!ReadFails \/ Json!ReadEnd \/ Json!Decode \/ Json!Finished
        BY <2>6, QuietStep DEF Json!Finished
    <2> QED
        BY <1>1, <2>1, <2>2, <2>3, <2>4, <2>5, <2>6 DEF Decoding, Json!Next
<1>2. CASE Decoded
    <2>1. input' = <<>> /\ stack' = <<>> /\ phase' = "gone" /\ cause' = "none"
        BY <1>2 DEF Decoded
    <2>2. input' \in Seq(Tokens) /\ stack' \in Seq(Frames) /\ Len(input') = 0
        BY <2>1, EmptySeq
    <2>3. ~Duplicate(input')
        BY <2>2, LenProperties DEF Duplicate, Twice
    <2> QED
        BY <2>1, <2>2, <2>3 DEF JsonInv
<1>3. CASE Normalizing \/ UNCHANGED <<vars, document, decoded>>
    BY <1>3, QuietStep DEF Normalizing, document, Json!vars
<1> QED
    BY <1>1, <1>2, <1>3 DEF IntakeNext

LEMMA JsonAlways == IntakeSpec => []JsonInv
BY InitJson, NextJson, PTL DEF IntakeSpec

\* "Duplicate keys are rejected", and only they, in documents of any length
\* and depth: the keys that the frame on top has seen are the keys of the one
\* object that is open there, so objects beside or inside each other may share
\* keys.
THEOREM OnlyDuplicates == IntakeSpec => []DuplicatesRefused
<1>1. JsonInv => DuplicatesRefused
    <2> SUFFICES ASSUME JsonInv PROVE DuplicatesRefused
        OBVIOUS
    <2>1. cause = "duplicate" <=> Duplicate(input)
        BY DEF JsonInv
    <2>2. Duplicate(input) <=>
              \E i, j \in DOMAIN input : Json!SameObject(i, j) /\ input[i].key = input[j].key
        BY DepthIsDeep, Zenon DEF Duplicate, Twice, Json!SameObject
    <2> QED
        BY <2>1, <2>2, Zenon DEF DuplicatesRefused, Json!DuplicatesRefused
<1> QED
    BY <1>1, JsonAlways, PTL

\* "Trailing JSON is rejected": what is accepted is one value, which nothing
\* follows, for documents of any length.
THEOREM NothingTrails == IntakeSpec => []OneValue
<1>1. JsonInv => OneValue
    <2> SUFFICES ASSUME JsonInv, phase = "accepted" PROVE Json!OneValue
        BY DEF OneValue, Json!OneValue
    <2>1. Single(input) /\ input \in Seq(Tokens)
        BY DEF JsonInv
    <2>2. ASSUME NEW i \in DOMAIN input, Deep(input, i) = 0 PROVE i = 1
        BY <2>1, <2>2, LenProperties DEF Single
    <2> QED
        BY <2>1, <2>2, DepthIsDeep, Zenon DEF Single, Json!OneValue
<1> QED
    BY <1>1, JsonAlways, PTL

-----------------------------------------------------------------------------
(* A round of NormalizeCode.                                               *)

Character == DOMAIN Folded
Strings == Seq(Character)
Tables == [Character -> Strings]

\* A set of numbers has a smallest one.
Less == {p \in Nat \X Nat : p[1] < p[2]}

LEMMA Smallest ==
    ASSUME NEW S \in SUBSET Nat, S # {}
    PROVE  \E n \in S : \A m \in S : n <= m
<1>1. IsWellFoundedOn(Less, Nat)
    BY NatLessThanWellFounded DEF OpToRel, Less
<1>2. \A a, b \in Nat : <<a, b>> \in Less <=> a < b
    BY DEF Less
<1>3. \E x \in S : \A y \in S : ~(<<y, x>> \in Less)
    BY <1>1, WFMin
<1>4. PICK x \in S : \A y \in S : ~(<<y, x>> \in Less)
    BY <1>3
<1>5. \A m \in S : ~(m < x)
    BY <1>2, <1>4, Zenon
<1>6. \A m \in S : x <= m
    BY <1>5
<1> QED
    BY <1>6

\* A bounded one has a largest.
LEMMA Largest ==
    ASSUME NEW bound \in Nat, NEW S \in SUBSET 0..bound, S # {}
    PROVE  \E n \in S : \A m \in S : n >= m
<1> DEFINE T == {bound - m : m \in S}
<1>1. T \in SUBSET Nat /\ T # {}
    <2>1. \A m \in S : m \in 0..bound
        OBVIOUS
    <2>2. \A m \in 0..bound : bound - m \in Nat
        OBVIOUS
    <2> QED
        BY <2>1, <2>2
<1>2. PICK k \in T : \A j \in T : k <= j
    BY <1>1, Smallest
<1>3. PICK n \in S : k = bound - n
    BY <1>2
<1>4. ASSUME NEW m \in S PROVE n >= m
    BY <1>2, <1>3
<1> QED
    BY <1>4

\* What Each computes, without its last step.
Walk(s, table, f) ==
    f = [i \in 0..Len(s) |-> IF i = 0 THEN <<>> ELSE f[i - 1] \o table[s[i]]]

\* Its first n steps.
Begun(s, table, n, g) ==
    /\ g \in [0..n -> Strings]
    /\ g[0] = <<>>
    /\ \A i \in 1..n : g[i] = g[i - 1] \o table[s[i]]

LEMMA Replaced ==
    ASSUME NEW table \in Tables, NEW s \in Strings, NEW i \in 1..Len(s)
    PROVE  table[s[i]] \in Strings
BY ElementOfSeq DEF Tables, Strings

\* One character is replaced after another: there is no smallest number of
\* steps that cannot be taken.
LEMMA WalkBegins ==
    ASSUME NEW table \in Tables, NEW s \in Strings, NEW n \in 0..Len(s)
    PROVE  \E g : Begun(s, table, n, g)
<1> DEFINE Stuck == {m \in 0..Len(s) : ~\E g : Begun(s, table, m, g)}
<1>1. Len(s) \in Nat
    BY LenProperties DEF Strings
<1> SUFFICES ASSUME Stuck # {} PROVE FALSE
    OBVIOUS
<1>2. Stuck \in SUBSET Nat
    BY <1>1
<1>3. PICK m \in Stuck : \A k \in Stuck : m <= k
    BY <1>2, Smallest
<1>4. m \in 0..Len(s) /\ ~\E g : Begun(s, table, m, g)
    BY <1>3
<1>5. CASE m = 0
    <2> DEFINE g == [i \in 0..0 |-> <<>>]
    <2>1. <<>> \in Strings
        BY EmptySeq DEF Strings
    <2>2. Begun(s, table, 0, g)
        BY <2>1 DEF Begun
    <2> QED
        BY <1>4, <1>5, <2>2
<1>6. CASE m # 0
    <2>1. m - 1 \in 0..Len(s) /\ m - 1 < m /\ m \in 1..Len(s)
        BY <1>1, <1>4, <1>6
    <2>2. m - 1 \notin Stuck
        BY <1>1, <1>3, <1>4, <2>1
    <2>3. PICK g : Begun(s, table, m - 1, g)
        BY <2>1, <2>2
    <2> DEFINE h == [i \in 0..m |-> IF i = m THEN g[m - 1] \o table[s[m]] ELSE g[i]]
    <2>4. \A i \in 0..(m - 1) : g[i] \in Strings
        BY <2>3 DEF Begun
    <2>5. g[m - 1] \o table[s[m]] \in Strings
        <3>1. g[m - 1] \in Strings /\ table[s[m]] \in Strings
            BY <1>1, <2>1, <2>4, Replaced
        <3> QED
            BY <3>1, ConcatProperties DEF Strings
    <2>6. h \in [0..m -> Strings]
        BY <1>1, <1>4, <2>4, <2>5
    <2>7. h[0] = <<>>
        BY <1>1, <1>4, <1>6, <2>3 DEF Begun
    <2>8. ASSUME NEW i \in 1..m PROVE h[i] = h[i - 1] \o table[s[i]]
        <3>1. CASE i = m
            BY <1>1, <1>4, <2>1, <3>1
        <3>2. CASE i # m
            <4>1. i \in 1..(m - 1) /\ i \in 0..m /\ i - 1 \in 0..m /\ i - 1 # m
                BY <1>1, <1>4, <3>2
            <4>2. g[i] = g[i - 1] \o table[s[i]]
                BY <2>3, <4>1 DEF Begun
            <4> QED
                BY <3>2, <4>1, <4>2
        <3> QED
            BY <3>1, <3>2
    <2>9. Begun(s, table, m, h)
        BY <2>6, <2>7, <2>8 DEF Begun
    <2> QED
        BY <1>4, <2>9
<1> QED
    BY <1>5, <1>6

\* Each returns a string, and nothing for nothing.
LEMMA EachReturns ==
    ASSUME NEW table \in Tables, NEW s \in Strings
    PROVE  Each(s, table) \in Strings /\ (s = <<>> => Each(s, table) = <<>>)
<1> DEFINE f == CHOOSE g : Walk(s, table, g)
           n == Len(s)
<1>1. Each(s, table) = f[n]
    BY DEF Each, Walk
<1>2. n \in Nat
    BY LenProperties DEF Strings
<1>3. \E g : Walk(s, table, g)
    <2>1. PICK g : Begun(s, table, n, g)
        BY <1>2, WalkBegins
    <2> DEFINE h == [i \in 0..n |-> IF i = 0 THEN <<>> ELSE g[i - 1] \o table[s[i]]]
    <2>2. g \in [0..n -> Strings] /\ h = [i \in 0..n |-> h[i]] /\ g = [i \in 0..n |-> g[i]]
        BY <2>1 DEF Begun
    <2>3. \A i \in 0..n : g[i] = h[i]
        <3> TAKE i \in 0..n
        <3>1. i = 0 \/ i \in 1..n
            BY <1>2
        <3> QED
            BY <2>1, <3>1 DEF Begun
    <2>4. g = h
        BY <2>2, <2>3
    <2> QED
        BY <2>4 DEF Walk
<1>4. Walk(s, table, f)
    BY <1>3
<1> HIDE DEF f, n
<1>5. f[0] = <<>> /\ \A i \in 1..n : f[i] = f[i - 1] \o table[s[i]]
    BY <1>2, <1>4 DEF Walk, n
<1> DEFINE Bad == {m \in 0..n : f[m] \notin Strings}
<1>6. Bad = {}
    <2> SUFFICES ASSUME Bad # {} PROVE FALSE
        OBVIOUS
    <2>1. Bad \in SUBSET Nat
        BY <1>2
    <2>2. PICK m \in Bad : \A k \in Bad : m <= k
        BY <2>1, Smallest
    <2>3. m # 0 /\ m \in 0..n /\ f[m] \notin Strings
        BY <1>5, <2>2, EmptySeq DEF Strings
    <2>4. m \in 1..n /\ m - 1 \in 0..n /\ ~(m <= m - 1)
        BY <1>2, <2>3
    <2>5. f[m - 1] \in Strings
        BY <2>2, <2>4
    <2>6. table[s[m]] \in Strings
        BY <2>4, Replaced DEF n
    <2>7. f[m - 1] \o table[s[m]] \in Strings
        BY <2>5, <2>6, ConcatProperties DEF Strings
    <2> QED
        BY <1>5, <2>3, <2>4, <2>7
<1>7. f[n] \in Strings
    BY <1>2, <1>6
<1>8. s = <<>> => n = 0
    BY EmptySeq DEF n
<1> QED
    BY <1>1, <1>5, <1>7, <1>8 DEF n

\* So does Trim.
LEMMA TrimReturns ==
    ASSUME NEW s \in Strings
    PROVE  Trim(s) \in Strings /\ (s = <<>> => Trim(s) = <<>>)
<1> DEFINE text == {i \in DOMAIN s : s[i] \notin Space}
<1>1. DOMAIN s = 1..Len(s) /\ Len(s) \in Nat
    BY LenProperties DEF Strings
<1>2. CASE text = {}
    BY <1>2, EmptySeq DEF Trim, Strings
<1>3. CASE text # {}
    <2>1. PICK low \in text : \A i \in text : low <= i
        <3>1. text \in SUBSET Nat
            BY <1>1
        <3> HIDE DEF text
        <3> QED
            BY <1>3, <3>1, Smallest
    <2> HIDE DEF text
    <2>2. Min(text) \in text
        BY <2>1 DEF Min
    <2>3. Max(text) \in text
        <3>1. text \in SUBSET 0..Len(s)
            BY <1>1 DEF text
        <3>2. PICK high \in text : \A i \in text : high >= i
            BY <1>1, <1>3, <3>1, Largest
        <3> QED
            BY <3>2 DEF Max
    <2>4. Min(text) \in 1..Len(s) /\ Max(text) \in 1..Len(s)
        BY <1>1, <2>2, <2>3 DEF text
    <2>5. \A i \in Min(text)..Max(text) : s[i] \in Character
        BY <1>1, <2>4, ElementOfSeq DEF Strings
    <2>6. SubSeq(s, Min(text), Max(text)) \in Strings
        BY <2>4, <2>5, SubSeqProperties DEF Strings
    <2>7. Trim(s) = SubSeq(s, Min(text), Max(text))
        BY <1>3 DEF Trim, text
    <2>8. s # <<>>
        BY <1>1, <2>4, EmptySeq DEF Strings
    <2> QED
        BY <2>6, <2>7, <2>8
<1> QED
    BY <1>2, <1>3

\* A round takes strings to strings, and no string to no string.
LEMMA RoundReturns ==
    ASSUME NEW s \in Strings
    PROVE  NormalizationRound(s) \in Strings /\ (s = <<>> => NormalizationRound(s) = <<>>)
<1>1. Decomposed \in Tables /\ Folded \in Tables
    BY TablesAssumption DEF Tables, Strings, Character
<1>2. \A t \in Strings :
          /\ NFKC(t) \in Strings /\ (t = <<>> => NFKC(t) = <<>>)
          /\ Fold(t) \in Strings /\ (t = <<>> => Fold(t) = <<>>)
          /\ Trim(t) \in Strings /\ (t = <<>> => Trim(t) = <<>>)
    BY <1>1, EachReturns, TrimReturns DEF NFKC, Fold
<1> QED
    BY <1>2 DEF NormalizationRound

-----------------------------------------------------------------------------
(* Codes.                                                                  *)

\* What NormalizeCode(s) leaves alone, and must accept.
Fixed(s) == NormalizationRound(s) = s /\ s # <<>> /\ Len(s) <= MaxCodeBytes

\* Keys are fixed, a fixed spelling is its own key and is never refused, and
\* the search does not leave a fixed spelling.
IInv ==
    /\ \A c \in codes : Fixed(c.key) /\ (Fixed(c.spelling) => c.key = c.spelling)
    /\ \A s \in refused : ~Fixed(s)
    /\ stage = "searching" =>
           Len(spelling) <= MaxCodeBytes
           /\ (NormalizationRound(spelling) = spelling => key = spelling /\ round = 0)

\* A step of NormalizeCode or of the decoder.
LEMMA StepOfEither == [IntakeNext]_<<vars, document, decoded>> => [Next]_vars
BY DEF IntakeNext, Decoding, Decoded, Normalizing, vars

LEMMA InitIInv == IntakeInit => IInv
BY DEF IntakeInit, Init, IInv

LEMMA NextIInv == IInv /\ [Next]_vars => IInv'
<1> SUFFICES ASSUME IInv, [Next]_vars PROVE IInv'
    OBVIOUS
<1> USE DEF IInv, Fixed
<1>1. CASE \E s \in Spelling \cup {c.key : c \in codes} : NormalizeCode(s)
    BY <1>1 DEF NormalizeCode
<1>2. CASE Search
    BY <1>2, RoundsAssumption DEF Search, Converged
<1>3. CASE Accept
    BY <1>3 DEF Accept, Acceptable, Converged
<1>4. CASE Refuse
    BY <1>4, RoundsAssumption DEF Refuse, Acceptable, Converged
<1>5. CASE Finished \/ UNCHANGED vars
    BY <1>5 DEF Finished, vars
<1> QED
    BY <1>1, <1>2, <1>3, <1>4, <1>5 DEF Next

\* Normalizing a key that NormalizeCode returned returns that key: one logical
\* code is never stored under two identities.
THEOREM Identities == IntakeSpec => []KeysAreIdentities
<1>1. IInv => KeysAreIdentities
    BY DEF IInv, KeysAreIdentities, Fixed
<1> QED
    BY <1>1, InitIInv, NextIInv, StepOfEither, PTL DEF IntakeSpec

\* What is searched for and what is returned are strings; only the empty
\* spelling has the empty key on the way, and nothing too long is searched for.
FitInv ==
    /\ key \in Strings
    /\ stage = "searching" =>
           /\ spelling \in Strings /\ Len(spelling) <= MaxCodeBytes
           /\ spelling = <<>> => key = <<>>
    /\ \A c \in codes :
           /\ c.key \in Strings /\ c.key # <<>> /\ Len(c.key) <= MaxCodeBytes
           /\ c.spelling \in Strings /\ c.spelling # <<>> /\ Len(c.spelling) <= MaxCodeBytes

LEMMA InitFit == IntakeInit => FitInv
BY EmptySeq DEF IntakeInit, Init, FitInv, Strings

LEMMA NextFit == FitInv /\ [Next]_vars => FitInv'
<1> SUFFICES ASSUME FitInv, [Next]_vars PROVE FitInv'
    OBVIOUS
<1> USE DEF FitInv
<1>1. CASE \E s \in Spelling \cup {c.key : c \in codes} : NormalizeCode(s)
    <2>1. PICK s \in Spelling \cup {c.key : c \in codes} : NormalizeCode(s)
        BY <1>1
    <2>2. s \in Strings
        BY TablesAssumption DEF Strings, Character
    <2> QED
        BY <2>1, <2>2 DEF NormalizeCode
<1>2. CASE Search
    BY <1>2, RoundReturns DEF Search
<1>3. CASE Accept
    BY <1>3 DEF Accept, Acceptable
<1>4. CASE Refuse
    BY <1>4 DEF Refuse
<1>5. CASE Finished \/ UNCHANGED vars
    BY <1>5 DEF Finished, vars
<1> QED
    BY <1>1, <1>2, <1>3, <1>4, <1>5 DEF Next

\* Whatever the tables make of a spelling, neither it nor its key is empty or
\* longer than the columns they are stored in.
THEOREM Fits == IntakeSpec => []KeysFitColumns
<1>1. FitInv => KeysFitColumns
    <2> SUFFICES ASSUME FitInv, NEW c \in codes
                 PROVE  Len(c.key) \in 1..MaxCodeBytes /\ Len(c.spelling) \in 1..MaxCodeBytes
        BY DEF KeysFitColumns
    <2>1. \A s \in Strings : s # <<>> => Len(s) \in Nat \ {0}
        BY EmptySeq DEF Strings
    <2>2. Len(c.key) \in Nat \ {0} /\ Len(c.spelling) \in Nat \ {0}
        BY <2>1 DEF FitInv
    <2> QED
        BY <2>2, CodesAssumption DEF FitInv
<1> QED
    BY <1>1, InitFit, NextFit, StepOfEither, PTL DEF IntakeSpec
=============================================================================
