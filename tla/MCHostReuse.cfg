SPECIFICATION Spec
CONSTANTS
    SizeMax = 255
    Hosts = {1, 2}
    t1 = t1
    t2 = t2
    Threads = {t1, t2}
    NumBuffers = 3
    MaxVersion = 1
    MaxArgs = 1
    MinEntries = 1
    Alignment = 2
    Bytes = 1
    MaxDirtyRanges = 1
    MergeGapBytes = 0
    CopyOverheadBytes = 1
    DirtyRanges = TRUE
    PoolOrder = TRUE
    Semantics = "kZeroCopy"
    ForceCopy = FALSE
    Ops = {"delete", "faults", "flushed_to_host", "reshape"}
SYMMETRY ThreadSymmetry
CHECK_DEADLOCK FALSE
INVARIANT TypeOK
INVARIANT ReadsSeeHostData
INVARIANT BuffersAreBacked
INVARIANT ValidSlotsHoldHostData
INVARIANT CachedViewHasOneHolder
INVARIANT CopyPlanIsCorrect
