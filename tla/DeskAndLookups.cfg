SPECIFICATION AllSpec
CONSTANTS
    r1 = r1
    r2 = r2
    r3 = r3
    Kinds = {"PART", "VISIT"}
    Orders = {"w1"}
    Years = {"25-26"}
    Requests = {r1, r2, r3}
    Nobody = Nobody
    NoJob = NoJob
    Elsewhere = "other"
    MaxQuotes = 2
    Callers = {"viewer", "sweeper"}
    Sweeper = "sweeper"
    Cap = 2
    MaxJobs = 2
    Hopeless = {"first"}
    Shared = {"second"}
    Timeout = 45
    InnerText = 30
    StaleLock = 300
INVARIANTS
    TypeOK NumbersDense ApprovedOnce
    ListTypeOK OverrunBounded
    LookupTypeOK AnsweredOnlyLanded
PROPERTIES
    DecisionStands RequestEnds
    ListFills
CHECK_DEADLOCK FALSE
