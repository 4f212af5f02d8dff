SPECIFICATION Spec
CONSTANTS
    SIZEOF_ESTIMATED_TOP_LEVEL_GRPC_CONTAINER = 2
    PER_BLOB_METADATA_SIZE = 1
    DefaultMaxBatchTotalSize = 9
    ServerLimits = {0, 2, 5, 8, 12}
    SizeMod = 32
    MaxBlobSize = 8
    MaxDigests = 4
    Inputs <- MCInputs
    BytesUpTo <- MCBytesUpTo
INVARIANTS
    BatchesFit
    BatchesPartition
    RestIsTooLarge
    BatchesAreMaximal
CHECK_DEADLOCK FALSE
