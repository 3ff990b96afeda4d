SPECIFICATION Spec
CONSTANTS
    Model = "kComputeSynchronized"
    Devices = {d1}
    NumBuffers = 3
    Slots = {c1}
    Workers = 2
    MaxArgs = 1
    MaxFutures = 1
    Ops = {"from_host", "to_literal", "control", "delete"}
CHECK_DEADLOCK FALSE
INVARIANT ReadsSeeContents
