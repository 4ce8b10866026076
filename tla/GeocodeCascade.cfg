SPECIFICATION Spec
CONSTANTS
    l1 = l1
    l2 = l2
    Lanes <- TwoLanes
    Tickets = {1}
    Addresses = {1}
    HasCentroid = {1}
    Unroutable = {}
    Answered = {}
    Uploaded <- NothingUploaded
    MaxAttempts = 2
    SweepLimit = 1
    RouteLimit = 1
    LanesMayStall = TRUE
    MaxUploads = 2
    MaxExpiries = 1
    MaxOutages = 1
    MaxFailures = 1
SYMMETRY LaneSymmetry
INVARIANTS TypeOK RowCoherent ForeignKey AttemptsBounded PointBacked
PROPERTIES NeverDowngraded
