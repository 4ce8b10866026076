SPECIFICATION FairSpec
CONSTANTS
    l1 = l1
    l2 = l2
    Lanes <- TwoLanes
    Tickets = {1, 2, 3}
    Addresses = {1, 2, 3}
    HasCentroid = {2}
    Unroutable = {1}
    Answered = {1, 2}
    Uploaded <- ThinOneFirst
    MaxAttempts = 2
    SweepLimit = 2
    RouteLimit = 2
    LanesMayStall = FALSE
    MaxUploads = 1
    MaxExpiries = 0
    MaxOutages = 0
    MaxFailures = 0
INVARIANTS OwnRow PointBacked
PROPERTIES CentroidsUpgrade WorkOrdersSettle BacklogDrains DoneIsTerminal
