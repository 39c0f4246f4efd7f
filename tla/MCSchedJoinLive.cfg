CONSTANTS
    i = i
    m = m
    t1 = t1
    Threads <- MCThreads
    Idle = i
    Main = m
    MaxTime = 2
    Delays = {0, 1}
    TenSeconds = 10
SPECIFICATION FairSpec

PROPERTY JoinHandshake
