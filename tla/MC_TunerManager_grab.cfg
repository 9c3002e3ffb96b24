CONSTANTS
    c1 = c1
    c2 = c2
    admin = admin
    viewer = viewer
    NumTuners = 1
    Config <- PlainTuner
    Types = {"GR"}
    Clients = {c1, c2}
    Request <- JobAndViewer
    Admins = {admin}
    Viewers = {}
    Priority <- ViewerPriority
    Unsignalled <- FirstProcess
    MaxDevices = 2
    MaxRefs = 0
SPECIFICATION Spec
INVARIANTS
    OneProcessPerTuner
CHECK_DEADLOCK FALSE
