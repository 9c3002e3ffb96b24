CONSTANTS
    a = a
    b = b
    ch1 = ch1
    tuner1 = tuner1
    o1 = o1
    o2 = o2
    Keys = {ch1}
    Callers = {a, b}
    Want <- OneChannel
    MaxSessions = 3
    MaxAttempts = 2
    ShutsDown = TRUE
    Acquirers = {a, b}
    Tuners = {tuner1}
    Routes <- MCRoutes
    Waits <- MCWaits
    TypeOf <- MCType
    MaxSources = 2
    PoolStops = TRUE
    Observers = {o1, o2}
    EITKeys = {"k"}
    Prints = {1, 2}
    QueueLimit = 2
    DDBLimit = 1
    Restartable = FALSE
    MaxSections = 3
    MaxDemuxers = 1
SPECIFICATION PathSpec
INVARIANTS
    SingleFlight
    SubscribersServed
    ShutdownDrains
    PoolMapExact
    NobodyWatchesNothing
    FingerprintIsBacked
    BacklogIsFinished
PROPERTIES
    RequestsAnswered
    ShutdownEndsStreams
    StoppedSourceLeaves
    ObserversReturn
CHECK_DEADLOCK FALSE
