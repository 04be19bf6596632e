SPECIFICATION FairSpec
CONSTANTS
    Chunks = 2
    RelayMax = 2
    RetryLimit = 1
    SendMax = 2
    FaultMax = 2
INVARIANTS
    OkMeansRunning
PROPERTIES
    RelayPasses
