SPECIFICATION CubeSpec
CONSTANTS
    MaxInt = 31
    MaxSize = 4
    MaxLength = 4
    Limit <- Limits
INVARIANTS
    ProductIsExact
    CoordinatesInvertCellIndex
\* One computation each.
CHECK_DEADLOCK FALSE
