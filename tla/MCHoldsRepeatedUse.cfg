CONSTANTS
    a = a
    b = b
    t1 = t1
    t2 = t2
    Threads = {t1, t2}
    Buffers = {a, b}
    Calls <- RepeatedUse
    MaxInflight = 1
SPECIFICATION FairSpec
CHECK_DEADLOCK FALSE
PROPERTY DonationWaitCompletes
