SPECIFICATION QSpec
CONSTANTS
    Owners = {worker, host}
    Clients = {worker, host}
    Worker = worker
    NoOwner = none
    GenMax = 2
    EpochLast = 20
    EpochMax = 4
    SampleAttempts = 2
    MaxRetries = 0
    QueueMax = 1
    LateReplies = FALSE
    Explored = {"game", "lose"}
INVARIANT OperationRadioSilent
