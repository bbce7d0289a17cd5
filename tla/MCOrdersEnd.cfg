SPECIFICATION FairSpec
CONSTANTS
  Member = {m1}
  Shop = {s1}
  Order = {o1}
  Sync = {cron, run}
  Cron = cron
  Lookback = 2
  Chunk = 1
  Price = {1, 2}
  Default = 1
  None = None
  MaxDay = 2
  MaxAct = 0
  MaxFault = 2
PROPERTIES OwedIsPosted
CHECK_DEADLOCK FALSE
