--------------------------------- MODULE Intake ---------------------------------
(***************************************************************************)
(* What a request brings: its document is decoded by DecodeStrict, and     *)
(* only then are the codes in it normalized, one after another, with those *)
(* of later requests (ParseReplacement and ParseSelection of payload.go).  *)
(* Nothing of the document's bytes is kept beside its codes.               *)
(***************************************************************************)
EXTENDS Normalize

CONSTANTS Keys, Fields, FoldedKey, MaxTokens \* see StrictJson

ASSUME DocumentAssumption ==
    FoldedKey \in [Keys -> Keys] /\ Fields \subseteq Keys /\ MaxTokens \in Nat

VARIABLES input, stack, phase, cause, \* see StrictJson
          decoded \* has the document been decoded?

document == <<input, stack, phase, cause>>

Json == INSTANCE StrictJson WITH Folded <- FoldedKey

IntakeInit == Init /\ Json!Init /\ decoded = FALSE

Decoding == ~decoded /\ Json!Next /\ UNCHANGED <<vars, decoded>>

\* The decoder returns; a refused document ends its request.
Decoded ==
    /\ ~decoded /\ phase = "accepted"
    /\ decoded' = TRUE
    /\ input' = <<>> /\ stack' = <<>> /\ phase' = "gone" /\ cause' = "none"
    /\ UNCHANGED vars

Normalizing == decoded /\ Next /\ UNCHANGED <<document, decoded>>

IntakeNext == Decoding \/ Decoded \/ Normalizing

IntakeSpec == IntakeInit /\ [][IntakeNext]_<<vars, document, decoded>>

-----------------------------------------------------------------------------
\* "Duplicate keys are rejected", and only they, at any depth of a document.
DuplicatesRefused == Json!DuplicatesRefused

\* "Trailing JSON is rejected": a document that is accepted is one value, which
\* ends with its input.
OneValue == Json!OneValue

\* "Unknown fields are rejected": every member of a document that is accepted is
\* a field of the structure.
UnknownRefused == Json!UnknownRefused
=============================================================================
