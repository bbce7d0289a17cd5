SPECIFICATION FairSpec
CONSTANTS
  MaxPress = 2
  MaxUpload = 1
  MaxAct = 3
  MaxFault = 1
INVARIANTS
  TypeOK
  PaidOnce
  AnswerIsAsked
PROPERTIES
  BarKeepsItsJob
  EndIsShown
CHECK_DEADLOCK FALSE
