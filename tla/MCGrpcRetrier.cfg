SPECIFICATION Spec
CONSTANTS
    RetryLimit = 2
    ErrorCodes = {"UNAVAILABLE", "ABORTED", "NOT_FOUND"}
    ExtraRetryable = {"ABORTED"}
    DelayBase = 100
    ServerDelays = {0, 7, 9}
INVARIANTS
    OnlyRetryableIsRetried
    ReturnValueIsTheVerdict
    BackoffIsExponential
