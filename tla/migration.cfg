SPECIFICATION FairSpec
CONSTANTS
    old = old
    new = new
    back = back
    oldApi = oldApi
    newApi = newApi
    NoJob = NoJob
    Jobs = {old, new, back}
    Apis = {oldApi, newApi}
    Files <- MCFiles
    Target <- MCTarget
    Expected <- MCExpected
INVARIANTS NoConflict SchemaMatchesVersion SuccessMeansSchema ServedSchemaStays
PROPERTIES ForwardOnly JobsEnd
