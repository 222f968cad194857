SPECIFICATION FairSpec
CONSTANTS
    none = none
    bad = bad
    Unset = none
    Malformed = bad
    Max32 = 7
    Max64 = 31
    MinTokenBytes = 3
    SchemaMaxCells = 5
    MaxPort = 6
    Fallback <- MCFallback
    Environment <- MCEnvironment
    Requests = {r1, r2}
    MaxSignals = 2
INVARIANTS OpenedAsAsked  CleanExitAnswersAll
PROPERTIES SignalEnds
