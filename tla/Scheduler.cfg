SPECIFICATION MCSpec
CONSTANTS
    v1 = v1
    v2 = v2
    a1 = a1
    b1 = b1
    x1 = x1
    x2 = x2
    VM = {v1, v2}
    Agent = {x1, x2}
    VmActor = {a1, b1}
    VmOf <- MCVmOf
    Size = {1}
    Capacity <- MCCapacity
    None = None
    MaxUsed = 1
    UintMax = 7
    I64Min <- MCI64Min
    I64Max = 3
    NoValue = NoValue
    VmMetadata <- MCVmMetadata
    Candidate <- MCCandidate
    Request <- MCRequest
SYMMETRY Symmetry
INVARIANTS
    SchedTypeOK
    PlacementHasIntent
    OneEntryPerAgent
    PendingCacheCoherent
    IndexWithinStatus
    PlacesWheneverPossible
    ChoiceIndependentOfOrder
CHECK_DEADLOCK FALSE
