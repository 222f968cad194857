------------------------------- MODULE Normalize -------------------------------
(***************************************************************************)
(* NormalizeCode of internal/domain/normalize.go: the bounded search for a *)
(* string that a round of trimming, compatibility decomposition and case   *)
(* folding leaves alone.  Codes are normalized one after another, as       *)
(* requests name them.                                                     *)
(*                                                                         *)
(* A string is a sequence of characters, each of one byte.  The tables of  *)
(* golang.org/x/text are constants, any functions from a character to what *)
(* replaces it; canonical composition is left out.                         *)
(***************************************************************************)
EXTENDS SequencesExt

CONSTANTS Spelling,   \* the strings that are submitted
          Space,      \* the characters of unicode.IsSpace
          Decomposed, \* norm.NFKC, by character
          Folded,     \* cases.Fold, by character
          MaxCodeBytes, MaxNormalizationRounds, \* model.go, normalize.go
          MaxCodes    \* bound: how many codes are normalized

ASSUME RoundsAssumption == MaxNormalizationRounds \in Nat \ {0}
ASSUME CodesAssumption == MaxCodeBytes \in Nat /\ MaxCodes \in Nat
\* The tables are total: they replace every character, by characters.
ASSUME TablesAssumption ==
    LET Character == DOMAIN Folded
    IN  /\ Folded \in [Character -> Seq(Character)]
        /\ Decomposed \in [Character -> Seq(Character)]
        /\ Spelling \subseteq Seq(Character)

VARIABLES stage,    \* "idle", or "searching" inside NormalizeCode
          spelling, \* its argument
          key,      \* the candidate
          round,    \* rounds that are over
          codes,    \* the codes it has returned
          refused   \* the spellings it has refused

vars == <<stage, spelling, key, round, codes, refused>>

-----------------------------------------------------------------------------
\* Mutant of Trim: only leading space.
TrimLeft(s) ==
    LET text == {i \in DOMAIN s : s[i] \notin Space}
    IN  IF text = {} THEN <<>> ELSE SubSeq(s, Min(text), Len(s))

\* strings.TrimFunc(s, unicode.IsSpace)
Trim(s) ==
    LET text == {i \in DOMAIN s : s[i] \notin Space}
    IN  IF text = {} THEN <<>> ELSE SubSeq(s, Min(text), Max(text))

Each(s, table) ==
    LET replaced[i \in 0..Len(s)] == IF i = 0 THEN <<>> ELSE replaced[i - 1] \o table[s[i]]
    IN  replaced[Len(s)]
NFKC(s) == Each(s, Decomposed)
Fold(s) == Each(s, Folded)

NormalizationRound(s) == Trim(NFKC(Fold(NFKC(Trim(s)))))

-----------------------------------------------------------------------------
Init ==
    /\ stage = "idle"
    /\ spelling = <<>> /\ key = <<>> /\ round = 0
    /\ codes = {} /\ refused = {}

\* A code is submitted: a new spelling, or a key that was answered before.
NormalizeCode(s) ==
    /\ stage = "idle"
    /\ Cardinality(codes) + Cardinality(refused) < MaxCodes
    /\ spelling' = s
    /\ IF Len(s) <= MaxCodeBytes
       THEN stage' = "searching" /\ key' = s /\ round' = 0 /\ UNCHANGED refused
       ELSE refused' = refused \cup {s} /\ UNCHANGED <<stage, key, round>>
    /\ UNCHANGED codes

\* Mutant of Converged: the last round's result is taken as it is.
ConvergedOrTired == NormalizationRound(key) = key \/ round = MaxNormalizationRounds

\* A round that changes nothing within the bound.
Converged == round < MaxNormalizationRounds /\ NormalizationRound(key) = key

Search ==
    /\ stage = "searching" /\ round < MaxNormalizationRounds /\ ~Converged
    /\ key' = NormalizationRound(key)
    /\ round' = round + 1
    /\ UNCHANGED <<stage, spelling, codes, refused>>

\* Mutant of Acceptable: only the submitted spelling is measured.
AcceptableSpelling == key # <<>> /\ Len(spelling) <= MaxCodeBytes

Acceptable == key # <<>> /\ Len(key) <= MaxCodeBytes

Accept ==
    /\ stage = "searching" /\ Converged /\ Acceptable
    /\ codes' = codes \cup {[spelling |-> spelling, key |-> key]}
    /\ stage' = "idle"
    /\ UNCHANGED <<spelling, key, round, refused>>

Refuse ==
    /\ stage = "searching"
    /\ \/ Converged /\ ~Acceptable
       \/ round = MaxNormalizationRounds /\ ~Converged
    /\ refused' = refused \cup {spelling}
    /\ stage' = "idle"
    /\ UNCHANGED <<spelling, key, round, codes>>

Finished ==
    /\ stage = "idle" /\ Cardinality(codes) + Cardinality(refused) >= MaxCodes
    /\ UNCHANGED vars

Next ==
    \/ \E s \in Spelling \cup {c.key : c \in codes} : NormalizeCode(s)
    \/ Search \/ Accept \/ Refuse \/ Finished

Spec == Init /\ [][Next]_vars

-----------------------------------------------------------------------------
\* "Normalizing a normalized key returns the key itself, so one logical code
\* can never be stored under two identities": a key that is submitted as a
\* spelling is accepted, and names what it is the key of.
KeysAreIdentities ==
    \A c \in codes :
        /\ c.key \notin refused
        /\ \A d \in codes : d.spelling = c.key => d.key = c.key

\* What is stored fits the columns: the length checks of the schema.
KeysFitColumns ==
    \A c \in codes : Len(c.key) \in 1..MaxCodeBytes /\ Len(c.spelling) \in 1..MaxCodeBytes
=============================================================================
