SPECIFICATION Spec
CONSTANTS
    Member = {g, m}
    Guest = {g}
    Leaver = {m}
    Job = {j1, j2}
    Key = {k1, k2}
    Slot = {s1, s2}
    Cost = 1
    Opening = 1
    Claim = {1}
    Clawback = {}
    Adjustment = {}
    Adjusted = {}
    MaxAttempts = 2
    MaxDeaths = 1
    LeaseOutlivesRun = TRUE
    None = None
INVARIANTS
    TypeOK
    JobIsPaid
    RefundedOnceAndFailed
    OneJobPerIntent
PROPERTIES
    OnlyCancelledReturn
SYMMETRY Exchangeable
CHECK_DEADLOCK FALSE
