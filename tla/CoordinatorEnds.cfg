SPECIFICATION FairSpec
CONSTANTS
    MaxAttempts = 1
    MaxProbes = 1
    Masks = {{"wifi"}}
    Silent = {}
    Channels = {"usb", "http"}
    Scenarios <- EndScenarios
PROPERTIES
    CampaignEnds
