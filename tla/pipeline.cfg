SPECIFICATION Spec
CONSTANTS
    MaxInt = 63
    KeyOf <- Keyed
    MaxDimensions = 3
    MaxCells = 6
    MaxCellCount = 6
    Body <- Bodies
    Selection <- Selections
    Format <- Formats
INVARIANTS
    StoredAsSubmitted
    RowsSatisfyChecks
    QueryAnswersSelection
    ResponseMeansView
\* A submission is refused or answered once.
CHECK_DEADLOCK FALSE
