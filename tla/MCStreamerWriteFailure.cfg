SPECIFICATION Spec
CONSTANTS
    BufferSize = 3
    MinBatch = 1
    MaxFile = 3
    RetryLimit = 1
INVARIANT WriteFailureIsSurvived
CHECK_DEADLOCK FALSE
