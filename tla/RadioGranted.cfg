SPECIFICATION FairQSpec
CONSTANTS
    Owners = {worker, host}
    Clients = {worker}
    Worker = worker
    NoOwner = none
    GenMax = 2
    EpochLast = 20
    EpochMax = 3
    SampleAttempts = 1
    MaxRetries = 0
    QueueMax = 1
    LateReplies = FALSE
    Explored = {"maintenance", "recovery"}
PROPERTY MaintenanceGranted
INVARIANT GrantStays
