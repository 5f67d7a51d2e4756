SPECIFICATION ClusterSpec
CONSTANTS
    v1 = v1
    v2 = v2
    a1 = a1
    a2 = a2
    b1 = b1
    x1 = x1
    x2 = x2
    VM = {v1, v2}
    Agent = {x1}
    VmActor = {a1, b1}
    VmOf <- MCVmOf
    Size = {1}
    Capacity <- MCCapacity
    None = None
    MaxUsed = 1
    MailboxBound = 1
    MaxFaults = 0
    MaxCrashes = 1
    MaxFailures = 1
    FaultKind = {}
INVARIANTS
    RamNotOvercommitted
CHECK_DEADLOCK FALSE
