SPECIFICATION Spec
CONSTANTS
    MaxAttempts = 2
    MaxProbes = 1
    Masks = {{"wifi"}}
    Silent = {}
    Channels = {"usb", "http"}
    Scenarios <- SafetyScenarios
INVARIANTS JournalSound DurableFirst
PROPERTIES DoneStaysDone
