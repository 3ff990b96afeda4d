CONSTANTS
    a = a
    b = b
    t1 = t1
    t2 = t2
    Threads = {t1, t2}
    Buffers = {a, b}
    Calls <- OrderedCalls
    MaxInflight = 1
SPECIFICATION FairSpec
INVARIANTS
    TypeOK
    HoldsAreCounted
    HoldsProtect
    ReservationsAccounted
    MemoryTakenOnce
PROPERTY CallsReturn
