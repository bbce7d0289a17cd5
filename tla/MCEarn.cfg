SPECIFICATION FairSpec
CONSTANTS
  Member = {me, other}
  Me = me
  Code = {c1, c2}
  Account = {a1}
  AccountOf <- MCAccountOf
  None = None
  MaxCall = 2
  MaxAct = 1
  MaxFault = 1
INVARIANTS
  TypeOK
  CodePaysOne
PROPERTIES
  HeardIsShown
CHECK_DEADLOCK FALSE
