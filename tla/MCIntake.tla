-------------------------------- MODULE MCIntake --------------------------------
(***************************************************************************)
(* Intake with documents of at most nine tokens, of which an object in an  *)
(* object with a key of the outer one after it takes seven, and codes of   *)
(* at most two characters, of nine, and one that is too long.  The tables  *)
(* hold a mark that decomposes into space and a combining mark (like       *)
(* U+00B8), a ligature that grows, a chain of foldings that decompose into *)
(* further upper-case letters, and a circle.                               *)
(***************************************************************************)
EXTENDS Intake, TLC

MCKeys == {"value", "VALUE", "other"}
MCFields == {"value"}
MCFoldedKey == [k \in MCKeys |-> IF k = "VALUE" THEN "value" ELSE k]

MCSpace == {" "}

\* "~" is the cedilla, "," its combining form; "&" is a ligature of three.
MCDecomposed ==
    "~" :> <<" ", ",">> @@ "&" :> <<"a", "a", "a">> @@ "c" :> <<"B">> @@ "b" :> <<"A">>
    @@ [x \in {" ", ",", "a", "A", "B", "C", "u", "U"} |-> <<x>>]

\* B and C fold to letters that decompose; u and U fold into each other.
MCFolded ==
    "A" :> <<"a">> @@ "B" :> <<"b">> @@ "C" :> <<"c">> @@ "u" :> <<"U">> @@ "U" :> <<"u">>
    @@ [x \in {" ", ",", "a", "b", "c", "~", "&"} |-> <<x>>]

MCSpelling ==
    BoundedSeq({" ", "~", "&", "a", "A", "B", "C", "u"}, 2) \cup {<<"a", "a", "a", "a">>}
=============================================================================
