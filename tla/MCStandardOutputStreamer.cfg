SPECIFICATION Spec
CONSTANTS
    BufferSize = 4
    MinBatch = 1
    MaxFile = 5
    RetryLimit = 1
INVARIANTS
    WriterIsNotShared
    LogIsContiguous
    StopTrueMeansCommitted
    NothingLostOnTheWay
PROPERTIES
    StopEnds
    BatchIsDelivered
CHECK_DEADLOCK FALSE
