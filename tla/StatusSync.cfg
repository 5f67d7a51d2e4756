SPECIFICATION MCSpec
CONSTANTS
    VM = {v1, v2}
    Size = {1, 2}
    HistoryLimit = 2
    NoVM = NoVM
    ActorId = {a1, a2, a3}
    MaxRevision = 5
    None = None
    MailboxBound = 2
    MaxLosses = 1
    SyncActors = {a1, a2}
    SyncSizes = {1}
    SyncRevisions = 3
INVARIANTS
    TypeOK
    ProtocolInv
    CacheIsAgentPast
    UsageCurrentAtRevision
    UsageIsSumOfMembers
    EntryActorAccountedFor
    UnlistedActorIsStopping
PROPERTY
    ViewSpec
    EventuallyInSync
CHECK_DEADLOCK FALSE
