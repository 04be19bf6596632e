SPECIFICATION FairSpec
CONSTANTS
    MaxAttempts = 1
    MaxProbes = 1
    Masks = {{"wifi"}}
    Silent = {"wifi"}
    Channels = {"usb", "http"}
    Scenarios <- SilentScenarios
PROPERTIES
    CampaignEnds
