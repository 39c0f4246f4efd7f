CONSTANTS
    i = i
    m = m
    t1 = t1
    Threads <- MCThreads
    Idle = i
    Main = m
    MaxTime = 3
    Delays = {0, 1}
    TenSeconds = 10
SPECIFICATION Spec
INVARIANT TypeOK
INVARIANT ThreadListsConsistent
INVARIANT SleepConsistent
INVARIANT JoinProtocolSafe
PROPERTY NoOvertake
PROPERTY SleepResultSound
