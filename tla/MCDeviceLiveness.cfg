SPECIFICATION FairSpec
CONSTANTS
    Model = "kComputeSynchronized"
    Devices = {d1}
    NumBuffers = 3
    Slots = {c1}
    Workers = 1
    MaxArgs = 1
    MaxFutures = 2
    Ops = {"from_host", "error", "execute", "donate", "to_literal", "ready", "delete", "control", "faults"}
CHECK_DEADLOCK FALSE
INVARIANT ReadyAfterDependency
PROPERTY FuturesResolve
PROPERTY DeletedIsFreed
