SPECIFICATION Spec
CONSTANTS
    Model = "kComputeSynchronized"
    Devices = {d1, d2}
    NumBuffers = 3
    Slots = {c1, c2}
    Workers = 2
    MaxArgs = 2
    MaxFutures = 1
    Ops = {"from_host", "copy", "delete", "execute", "donate", "to_literal"}
SYMMETRY MemorySymmetry
CHECK_DEADLOCK FALSE
INVARIANT TypeOK
INVARIANT AccessesAreSafe
INVARIANT TasksHaveMemory
