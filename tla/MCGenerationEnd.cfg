SPECIFICATION FairSpec
CONSTANTS
    Member = {g, m}
    Guest = {g}
    Leaver = {}
    Job = {j1, j2}
    Key = {k}
    Slot = {s1, s2}
    Cost = 1
    Opening = 1
    Claim = {}
    Clawback = {}
    Adjustment = {}
    Adjusted = {}
    MaxAttempts = 2
    MaxDeaths = 1
    LeaseOutlivesRun = TRUE
    None = None
PROPERTIES
    JobsEnd
    RefundArrives
    KeepsPromise
CHECK_DEADLOCK FALSE
