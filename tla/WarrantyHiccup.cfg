SPECIFICATION FairSpec
CONSTANTS
    l1 = l1
    l2 = l2
    j1 = j1
    j2 = j2
    s1 = s1
    blank = blank
    NoItem = NoItem
    Jobs = {j1}
    Serials = {s1}
    BlankSerials = {}
    Lanes = {l1, l2}
    MaxAttempts = 2
    RetryMaxAttempts = 2
    MaxResets = 0
    MaxCrashes = 0
    MaxDbErrors = 1
PROPERTY
    ItemsSettle
CHECK_DEADLOCK FALSE
