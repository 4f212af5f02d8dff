SPECIFICATION BlobsSpec
CONSTANTS
    NumRequests = 3
    Digests = {x, y, z}
    MaxLength = 3
    Lists <- ListsOfDigests
    Modes = {"data", "directory", "outputs"}
INVARIANTS
    NothingIsForgotten
    ReportedOnce
    FutureIsUntouched
    EveryDigestHasAStatus
    OkMeansIntact
CHECK_DEADLOCK FALSE
