SPECIFICATION FairSpec
CONSTANTS
    l1 = l1
    l2 = l2
    Lanes <- OneLane
    Tickets = {1}
    Addresses = {1}
    HasCentroid = {1}
    Unroutable = {}
    Answered = {}
    Uploaded <- NothingUploaded
    MaxAttempts = 2
    SweepLimit = 1
    RouteLimit = 1
    LanesMayStall = FALSE
    MaxUploads = 1
    MaxExpiries = 0
    MaxOutages = 1
    MaxFailures = 0
PROPERTIES OutageHeals
