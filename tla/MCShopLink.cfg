SPECIFICATION Spec
CONSTANTS
  Member = {me, other}
  Me = me
  Shop = {s1, s2}
  Phone = {p1, p2}
  Stranger = p2
  Target = {p1, p2, s1}
  Accounts <- MCAccounts
  None = None
  Limit = 2
  MaxCall = 3
  MaxAct = 1
  MaxFault = 1
INVARIANTS
  TypeOK
  CodeLinksOnce
  SoleOwner
CHECK_DEADLOCK FALSE
