CONSTANTS
    Owners = {staging, relay, uplink}
    LeasedOwners = {staging}
    PreparedOwners = {relay}
    NoOwner = NoOwner
    Tasks = {t1, t2, t3}
    NoTask = NoTask
    GenMax = 3
    EpochLast = 20
    EpochMax = 7
    MaxRetries = 2
    QueueMax = 3
    Explored = {"busy", "refuse", "lose", "unasked", "refresh"}
    Threshold = 2
    FaultMax = 4
    Commands = 1
    Scanners = {"s1"}
    LineMax = 2
    Requests = 2
    Faults = 1
    Starts = 2
    Losses = 1
    Resets = 1
    Busy = 1
    SelfMax = 1
    ScannerResets = 1
    BadgeResets = 1
    Works = 1
SPECIFICATION FairSpec
INVARIANTS TypeOK OneOwner LeaseBalanced StreamUndisturbed RestartInterruptsNothing AcknowledgedIsSo
           UnderstoodAsMeant
PROPERTIES ImplementsExclusiveUse NothingBehindTheBack CommandsSettle
CHECK_DEADLOCK FALSE
