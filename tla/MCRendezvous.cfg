CONSTANTS
    Threads = {t1, t2, t3}
    MaxCalls = 2
SPECIFICATION FairSpec
CHECK_DEADLOCK FALSE
INVARIANT TypeOK
INVARIANT UseCountIsExact
PROPERTY Implements
PROPERTY CallsReturn
INVARIANT RoundsSeparate
