CONSTANTS
    c1 = c1
    c2 = c2
    viewer = viewer
    v1 = v1
    v2 = v2
    s1 = s1
    s2 = s2
    u1 = u1
    u2 = u2
    reader1 = reader1
    NumTuners = 2
    Config <- TwoTuners
    Types = {"GR", "BS"}
    Clients = {c1, c2}
    Request <- JobAndSatellite
    Admins = {}
    Viewers = {viewer}
    Priority <- ViewerPriority
    Unsignalled = {}
    MaxDevices = 2
    MaxRefs = 2
    Watchers = {v1, v2}
    Wanted <- WantedBy
    Unknown = {v2}
    BufferSize = 1
    MaxPackets = 2
    Lengths = {4, 6, 10}
    SectionCount = 2
    MaxBytes = 20
    PayloadSize = 5
    CounterLimit = 2
    MaxLosses = 2
    MaxRepeats = 1
    EndGrace = 1
    WatchInterval = 3
    StaleAfter = 10
    Timeouts = {1, 4}
    Forever = 20
    Groups = {"basic", "extended"}
    LastTable = 1
    LastSegment = 2
    SegmentSize = 2
    Editions <- ThreeEditions
    Versions = {0, 1, 2, 3}
    Services = {s1, s2}
    CandidateCount = 2
    RemoteCandidates = {2}
    SectionBuffer = 1
    MaxAired = 2
    Updaters = {u1, u2}
    ProgramIDs = {1}
    ProgramValues <- TwoPrograms
    Cutoff = 2
    EventReaders = {reader1}
    ReaderBuffer = 1
    LogCapacity = 2
    MaxBatch = 2
    MaxUpdates = 2
    MaxModuleSize = 3
    MaxCompletedBytes = 3
    MaxInFlightBytes = 4
    DIIs <- CrowdedDIIs
    PMTs <- AllPMTs
    Listeners = {"l"}
    EventBuffer = 1
    StoreBytes = 4
    MaxEvents = 6
SPECIFICATION DataSpec
INVARIANTS
    NoGhostUsers
    StreamIsWhole
    IntactSectionsAssembled
    GateCloses
    ReadyMeansComplete
    CollectedIsStored
    EventsExactlyOnce
    EventsReplayStore
    BudgetsExact
    ServedIsWhole
    SubscribersMissNothing
CHECK_DEADLOCK FALSE
