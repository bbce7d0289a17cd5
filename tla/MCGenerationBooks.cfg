SPECIFICATION Spec
CONSTANTS
    Member = {g, m}
    Guest = {g}
    Leaver = {m}
    Job = {j1}
    Key = {k}
    Slot = {s1, s2}
    Cost = 1
    Opening = 1
    Claim = {}
    Clawback = {2}
    Adjustment = {1}
    Adjusted = {g}
    MaxAttempts = 1
    MaxDeaths = 0
    LeaseOutlivesRun = FALSE
    None = None
INVARIANTS
    BalanceIsLedgerSum
    SucceededHasResult
SYMMETRY Exchangeable
CHECK_DEADLOCK FALSE
