------------------------------- MODULE StrictJson -------------------------------
(***************************************************************************)
(* DecodeStrict of internal/jsonx/json.go: a first pass reads all tokens   *)
(* by recursive descent and looks for duplicate keys, then nothing may     *)
(* follow, and a second pass decodes into a structure without unknown      *)
(* fields.  The recursion is a stack of what each call has seen.           *)
(*                                                                         *)
(* The tokenizer of encoding/json is external: it tells keys from strings, *)
(* checks commas and colons, and fails where the input is not JSON.        *)
(***************************************************************************)
EXTENDS Integers, Sequences, FiniteSets

CONSTANTS Keys,      \* the spellings of keys in the input
          Fields,    \* the fields of the structure: spellings too
          Folded,    \* by key: its lower-case spelling
          MaxTokens  \* bound: length of the input

VARIABLES input, \* the tokens read
          stack, \* by call of validateValue: what it reads, and its seen keys
          phase, \* "validating", "trailing", "decoding", "accepted" or "refused"
          cause  \* of a refusal

vars == <<input, stack, phase, cause>>

Init == input = <<>> /\ stack = <<>> /\ phase = "validating" /\ cause = "none"

Key(k) == [kind |-> "key", key |-> k]
Token(kind) == [kind |-> kind]
Kinds == {"{", "}", "[", "]", "null", "scalar"}

Top == stack[Len(stack)]
Below == SubSeq(stack, 1, Len(stack) - 1)

\* A key is expected inside an object, between its members.
WantsKey == stack # <<>> /\ Top.object /\ ~Top.inMember
WantsValue == ~WantsKey

Consume(token) ==
    /\ Len(input) < MaxTokens
    /\ input' = Append(input, token)

Refuse(why) == phase' = "refused" /\ cause' = why /\ UNCHANGED stack

\* A value has been read: its caller, if there is one, goes on.
Return(frames) ==
    /\ IF frames = <<>> THEN phase' = "trailing" /\ stack' = <<>>
       ELSE stack' = [frames EXCEPT ![Len(frames)].inMember = FALSE] /\ UNCHANGED phase
    /\ UNCHANGED cause

ReadScalar(kind) ==
    /\ phase = "validating" /\ WantsValue /\ kind \in {"null", "scalar"}
    /\ Consume(Token(kind)) /\ Return(stack)

\* Mutant of Frame: an object goes on with the keys of the one around it.
FrameOf(object) ==
    [object |-> object, inMember |-> FALSE, seen |-> IF stack = <<>> THEN {} ELSE Top.seen]

Frame(object) == [object |-> object, inMember |-> FALSE, seen |-> {}]

ReadOpening(kind) ==
    /\ phase = "validating" /\ WantsValue /\ kind \in {"{", "["}
    /\ Consume(Token(kind))
    /\ stack' = Append(stack, Frame(kind = "{"))
    /\ UNCHANGED <<phase, cause>>

ReadKey(k) ==
    /\ phase = "validating" /\ WantsKey
    /\ Consume(Key(k))
    /\ IF k \in Top.seen THEN Refuse("duplicate")
       ELSE /\ stack' = Append(Below, [Top EXCEPT !.inMember = TRUE, !.seen = @ \cup {k}])
            /\ UNCHANGED <<phase, cause>>

ReadClosing(kind) ==
    /\ phase = "validating" /\ stack # <<>> /\ ~Top.inMember
    /\ kind = IF Top.object THEN "}" ELSE "]"
    /\ Consume(Token(kind)) /\ Return(Below)

\* The tokenizer fails, or the input ends inside a value.
ReadFails == phase = "validating" /\ Refuse("syntax") /\ UNCHANGED input

\* Mutant of ReadTrailing: what follows the value is skipped.
SkipTrailing(kind) ==
    /\ phase = "trailing" /\ Consume(Token(kind))
    /\ phase' = "decoding" /\ UNCHANGED <<stack, cause>>

ReadTrailing(kind) ==
    /\ phase = "trailing" /\ Consume(Token(kind))
    /\ Refuse("trailing")

ReadEnd == phase = "trailing" /\ phase' = "decoding" /\ UNCHANGED <<input, stack, cause>>

-----------------------------------------------------------------------------
(* The second pass.                                                        *)

\* How deep a token lies: containers that are open before it.
Depth(i) ==
    LET count(kinds) == Cardinality({j \in 1..(i - 1) : input[j].kind \in kinds})
    IN  count({"{", "["}) - count({"}", "]"})

\* The keys of the outermost object.
Members == {i \in DOMAIN input : input[i].kind = "key" /\ Depth(i) = 1}

\* encoding/json finds fields by their name in any case, and the last wins.
Known(k) == \E f \in Fields : Folded[k] = Folded[f]

Decode ==
    /\ phase = "decoding"
    /\ IF input[1].kind \in {"{", "null"} /\ \A i \in Members : Known(input[i].key)
       THEN phase' = "accepted" /\ UNCHANGED <<stack, cause>>
       ELSE Refuse("structure")
    /\ UNCHANGED input

Finished == phase \in {"accepted", "refused"} /\ UNCHANGED vars

Next ==
    \/ \E kind \in Kinds : ReadScalar(kind) \/ ReadOpening(kind) \/ ReadClosing(kind) \/ ReadTrailing(kind)
    \/ \E k \in Keys : ReadKey(k)
    \/ ReadFails \/ ReadEnd \/ Decode \/ Finished

Spec == Init /\ [][Next]_vars

-----------------------------------------------------------------------------
\* Two keys are members of one object: they lie equally deep, and nothing
\* between them lies less deep.
SameObject(i, j) ==
    /\ i < j /\ input[i].kind = "key" /\ input[j].kind = "key" /\ Depth(i) = Depth(j)
    /\ \A m \in i..j : Depth(m) >= Depth(i)

\* "Duplicate keys are rejected", and only they: input is refused for a
\* duplicate where one object, at any depth, has one key twice, while objects
\* beside each other or inside each other may share keys.
DuplicatesRefused ==
    (cause = "duplicate") =
        \E i, j \in DOMAIN input : SameObject(i, j) /\ input[i].key = input[j].key

\* "Trailing JSON is rejected": what is accepted is one value, which ends with
\* the input.
OneValue ==
    phase = "accepted" =>
        /\ input # <<>>
        /\ \A i \in DOMAIN input : Depth(i) = 0 => i = 1
        /\ Depth(Len(input) + 1) = 0

\* "Unknown fields are rejected": every member of what is accepted is a field.
UnknownRefused == phase = "accepted" => \A i \in Members : input[i].key \in Fields
=============================================================================
