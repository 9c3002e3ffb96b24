CONSTANTS
    MaxModuleSize = 3
    MaxCompletedBytes = 100
    MaxInFlightBytes = 100
    DIIs <- TwoDIIs
    PMTs <- AllPMTs
    Listeners = {"l"}
    EventBuffer = 2
    StoreBytes = 100
    MaxEvents = 6
SPECIFICATION BroadcastSpec
INVARIANTS
    AnnouncementsKept
CHECK_DEADLOCK FALSE
