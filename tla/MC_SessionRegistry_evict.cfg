CONSTANTS
    a = a
    b = b
    ch1 = ch1
    Keys = {ch1}
    Callers = {a, b}
    Want <- OneChannel
    MaxSessions = 3
    MaxAttempts = 2
    ShutsDown = FALSE
SPECIFICATION Spec
PROPERTIES
    NewerSessionKept
CHECK_DEADLOCK FALSE
