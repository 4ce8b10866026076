SPECIFICATION Spec
CONSTANTS
    viewer = viewer
    sweeper = sweeper
    first = first
    Callers = {viewer}
    Sweeper = sweeper
    List <- OneSerial
    Cap = 1
    MaxJobs = 1
    Hopeless = {first}
    Shared = {}
PROPERTY CheckingInWork
CHECK_DEADLOCK FALSE
