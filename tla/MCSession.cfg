CONSTANTS
  t1 = t1
  u1 = u1
  u2 = u2
  Tab = {t1}
  Task = {u1, u2}
  Ops = {"query", "login", "callback", "logout", "withdraw", "retry", "reload", "arrive"}
  MaxAct = 3
  MaxFault = 1
SPECIFICATION FairSpec
INVARIANTS TypeOK RejectedWithReason
PROPERTIES LiveMemberKept CallsEnd TokenComesBack
CHECK_DEADLOCK FALSE
