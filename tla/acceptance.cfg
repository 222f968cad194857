SPECIFICATION FairSpec
CONSTANTS
    MaxInt = 1000
    Side = 3
    Faults = {"none", "keep", "merge", "truncate", "order", "tear"}
INVARIANTS TrustedReport FailsForCause
PROPERTIES DriverEnds
