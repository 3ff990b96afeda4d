SPECIFICATION Spec
CONSTANTS
    Model = "kComputeSynchronized"
    Devices = {d1}
    NumBuffers = 2
    Slots = {c1}
    Workers = 1
    MaxArgs = 1
    MaxFutures = 1
    Ops = {"from_host", "control", "ready"}
CHECK_DEADLOCK FALSE
INVARIANT DependencyErrorForwarded
