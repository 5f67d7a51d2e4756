SPECIFICATION ClusterFairSpec
CONSTANTS
    v1 = v1
    v2 = v2
    a1 = a1
    a2 = a2
    b1 = b1
    x1 = x1
    x2 = x2
    VM = {v1}
    Agent = {x1}
    VmActor = {a1, a2}
    VmOf <- MCVmOf
    Size = {1}
    Capacity <- MCCapacity
    None = None
    MaxUsed = 1
    MailboxBound = 2
    MaxFaults = 1
    MaxCrashes = 1
    MaxFailures = 2
    FaultKind <- AnyFault
PROPERTIES
    AbsentPlacementExpires
CHECK_DEADLOCK FALSE
