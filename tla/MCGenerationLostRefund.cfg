SPECIFICATION FairSpec
CONSTANTS
    Member = {g, m}
    Guest = {g}
    Leaver = {}
    Job = {j1}
    Key = {k}
    Slot = {s1}
    Cost = 1
    Opening = 1
    Claim = {}
    Clawback = {}
    Adjustment = {}
    Adjusted = {}
    MaxAttempts = 2
    MaxDeaths = 1
    LeaseOutlivesRun = TRUE
    None = None
PROPERTIES
    FailureIsRefunded
CHECK_DEADLOCK FALSE
