CONSTANTS
    Observers = {o1, o2}
    EITKeys = {"k"}
    Prints = {1, 2}
    QueueLimit = 2
    DDBLimit = 1
    Restartable = TRUE
    MaxSections = 1
    MaxDemuxers = 2
SPECIFICATION SectionSpec
INVARIANTS
    BacklogIsFinished
CHECK_DEADLOCK FALSE
