SPECIFICATION TransferSpec
CONSTANTS
    Blob <- MCBlob
    SourceData <- MCSourceData
    Copies <- MCCopies
    OldFiles <- MCOldFiles
    ChunkSize = 2
    RetryLimit = 2
    ErrorCodes = {"UNAVAILABLE", "INVALID_ARGUMENT"}
INVARIANT IntactFileHasNoUnexpectedEof
CHECK_DEADLOCK FALSE
