SPECIFICATION FairSpec
CONSTANTS
    Buffers = {b1, b2}
    MaxCalls = 2
    MaxTransfers = 2
CHECK_DEADLOCK FALSE
INVARIANT TypeOK
INVARIANT DefinedAfterTransfers
INVARIANT CopiedInOrder
INVARIANT BufferOutlivesTransfers
PROPERTY TransfersComplete
PROPERTY DestructorReturns
INVARIANT CleanUpIsSafe
