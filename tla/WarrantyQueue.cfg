SPECIFICATION Spec
CONSTANTS
    l1 = l1
    l2 = l2
    j1 = j1
    j2 = j2
    s1 = s1
    blank = blank
    NoItem = NoItem
    Jobs = {j1, j2}
    Serials = {s1}
    BlankSerials = {}
    Lanes = {l1, l2}
    MaxAttempts = 2
    RetryMaxAttempts = 3
    MaxResets = 1
    MaxCrashes = 1
    MaxDbErrors = 1
SYMMETRY LaneSymmetry
INVARIANTS
    TypeOK
    RowCoherent
    ExclusiveClaim
    AttemptsBounded
    NoLateFetch
    AnswersAreCached
    AnswersAgree
    FetchesBounded
PROPERTY
    OnlyRetryReopens
CHECK_DEADLOCK FALSE
