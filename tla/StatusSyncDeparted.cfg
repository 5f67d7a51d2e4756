SPECIFICATION FairSpec
CONSTANTS
    VM = {v1}
    Size = {1}
    HistoryLimit = 1
    NoVM = NoVM
    ActorId = {a1}
    MaxRevision = 1
    None = None
    MailboxBound = 2
    MaxLosses = 0
PROPERTY
    DepartedAgentForgotten
CHECK_DEADLOCK FALSE
