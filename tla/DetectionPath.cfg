CONSTANTS
    Air <- TheAir
    WifiSlots = 2
    Tracks = 1
    Period = 2
    Brief = 1
    Delta = 5
    MoveMin = 6
    Samples = 4
    Budget = 1
    Frames = 3
    Sights <- TheSights
    SsidSlots = 1
    ApSlots = 2
    Lately = 1
    Quiet = 1
    Observations = 4
    Kind <- TheKinds
    RateSlots = 1
    QMax = 2
    UMax = 2
    WireMax = 1
    Detections = 2
    Stops = 1
    AutoStart = 1
    Sightings = 2
    Attacks = 1
    Restarts = 1
    ShownFor = 1
    Things = 2
    Reports = 2
    QueueMax = 1
    BatchMax = 2
    BacklogMax = 1
    SwitchAt = 2
    Fits = 1
    Faults = 1
    Outages = 2
    PeerIds = {"p"}
    Self = "me"
    PeerSlots = 1
    Window = 3
    Rate = 4
    Quorum = 2
    SeqMod = 2
    PeerTime = 4
    Packets = 2
    Seeds = 1
    Eggs = 1
    Nearness = {2, 3}
    Losses = 1
    Resets = 1
    TimeMax = 3
SPECIFICATION FairSpec
INVARIANTS EvidenceIsReal GameStaysSound
PROPERTIES PromisesHold ThreatsAreShown FlowReturns
CHECK_DEADLOCK FALSE
