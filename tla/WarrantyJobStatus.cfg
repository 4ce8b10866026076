SPECIFICATION JobFairSpec
CONSTANTS
    l1 = l1
    l2 = l2
    j1 = j1
    s1 = s1
    r1 = r1
    r2 = r2
    NoItem = NoItem
    NoJob = NoJob
    Jobs = {j1}
    Serials = {s1}
    BlankSerials = {}
    Lanes = {l1}
    Readers = {r1, r2}
    MaxAttempts = 2
    RetryMaxAttempts = 2
    MaxResets = 1
    MaxCrashes = 1
    MaxDbErrors = 0
CHECK_DEADLOCK FALSE
INVARIANTS
    JobTypeOK
    CompletedStands
    FileWhole
PROPERTY
    ItemsSettle
