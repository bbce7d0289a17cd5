SPECIFICATION Spec
CONSTANTS
  Member = {m1, m2}
  Shop = {s1}
  Order = {o1}
  Sync = {cron, run}
  Cron = cron
  Lookback = 2
  Chunk = 1
  Price = {1, 2}
  Default = 1
  None = None
  MaxDay = 1
  MaxAct = 1
  MaxFault = 1
INVARIANTS
  TypeOK
  OrderPaysOne
  ClawbackMatches
  TokenIsGood
CHECK_DEADLOCK FALSE
SYMMETRY Exchangeable
