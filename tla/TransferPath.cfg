SPECIFICATION FairPartSpec
CONSTANTS
    Sizes = {4, 7}
    Credit = 3
    Descriptor = 2
    RetryLimit = 2
    MaxWrite = 2
    MaxBegins = 2
    MaxRefusals = 1
    MaxBusy = 1
    ImageSize = 5
    ImageCredit = 2
    PortRead = 3
    Restarts = 1
    Troubles = 3
    Intruders = 1
    Kinds = {"status", "brief"}
    WireMax = 2
    UartRead = 1
    Boots = 2
    Fences = 1
    Events = 1
    HttpRequests = 2
    Checks = 1
    Relays = 1
    NodeFaults = 1
    Investigations = 2
    HostFaults = 2
    Starts = 3
    Chunks = 3
    UsbFaults = 2
INVARIANTS ReleasedAtRest SelectionStands SelectedIsWhole WindowsAgree OneTerminal WholeAndFresh
PROPERTIES TransferEnds NothingStaysBehind TransfersSettle
CHECK_DEADLOCK FALSE
