SPECIFICATION Spec
CONSTANTS
    Model = "kSynchronous"
    Devices = {d1}
    NumBuffers = 2
    Slots = {c1, c2}
    Workers = 1
    MaxArgs = 1
    MaxFutures = 4
    Ops = {"from_host", "execute", "donate", "error", "to_literal", "ready", "delete", "release", "faults"}
SYMMETRY MemorySymmetry
CHECK_DEADLOCK FALSE
INVARIANT OneOwner
INVARIANT ReadyKeepsContents
INVARIANT ReadsSeeContents
INVARIANT LetGoIsQuiescent
