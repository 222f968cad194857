SPECIFICATION Spec
CONSTANTS
    Request <- MCRequest
    MaxRequestBytes = 2
INVARIANTS CallsAreAcceptable  AnswerTellsEffect OneAnswer
