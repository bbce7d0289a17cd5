SPECIFICATION FairSpec
CONSTANTS
    Member = {m1}
    Proc = {p1, p2}
    Key = {grantKey, chargeKey1, chargeKey2}
    ChargeKey = {chargeKey1, chargeKey2}
    NoProc = NoProc
    Delta <- MCDelta
INVARIANTS
    TypeOK
PROPERTIES
    TrueMeansPosted
    KeepsLedger
    CallsAnswered
