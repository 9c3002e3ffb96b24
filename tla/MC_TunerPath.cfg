CONSTANTS
    c1 = c1
    c2 = c2
    admin = admin
    viewer = viewer
    w1 = w1
    w2 = w2
    s1 = s1
    s2 = s2
    NumTuners = 1
    Config <- RetryTuner
    Types = {"GR"}
    Clients = {c1, c2}
    Request <- JobAndViewer
    Admins = {admin}
    Viewers = {}
    Priority <- ViewerPriority
    Unsignalled <- SecondProcess
    MaxDevices = 2
    MaxRefs = 0
    Writers = {w1, w2}
    Subs = {s1, s2}
    Leavers = {s1}
    QueueSize = 1
    MaxWrites <- WritesOf
    MaxBuffers = 3
SPECIFICATION TunerPathSpec
INVARIANTS
    TypeOK
    ReservationExclusive
    StatusBelongsToReservation
    NoLostWakeup
    StopEndsProcess
    ChunksAccounted
    ClosedIsUnreachable
PROPERTIES
    ImplementsFanout
CHECK_DEADLOCK FALSE
