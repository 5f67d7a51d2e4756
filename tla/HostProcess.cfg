SPECIFICATION FairHostSpec
CONSTANTS
    Proc = {p1, p2}
    NoLockfile = {{}, {p2}}
    Nobody = Nobody
INVARIANTS
    HostTypeOK
    LockExcludes
    StaleLockHasCause
    NetworkUpIsExact
PROPERTIES
    TermEndsProcess
    DeadNetworkStopsDhcp
CHECK_DEADLOCK FALSE
