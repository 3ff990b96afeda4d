SPECIFICATION Spec
CONSTANTS
    SizeMax = 255
    Hosts = {1, 2}
    t1 = t1
    t2 = t2
    Threads = {t1, t2}
    NumBuffers = 3
    MaxVersion = 1
    MaxArgs = 1
    MinEntries = 1
    Alignment = 2
    Bytes = 1
    MaxDirtyRanges = 1
    MergeGapBytes = 0
    CopyOverheadBytes = 1
    DirtyRanges = TRUE
    PoolOrder = TRUE
    Semantics = "kZeroCopy"
    ForceCopy = TRUE
    Ops = {"delete"}
CHECK_DEADLOCK FALSE
INVARIANT ReadsSeeHostData
