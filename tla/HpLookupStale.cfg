SPECIFICATION Spec
CONSTANTS
    Timeout = 45
    InnerText = 30
    StaleLock = 300
INVARIANT
    NeverRobbed
CHECK_DEADLOCK FALSE
