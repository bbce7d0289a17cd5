SPECIFICATION FairSpec
CONSTANTS
  NResult = 2
  OfPet = {1, 2}
  Late = {2}
  PageSize = 1
  Limit = 1
  MaxAct = 3
  MaxFault = 1
INVARIANTS
  TypeOK
  ListIsSound
  NeverRefused
  RememberedIsGone
PROPERTIES
  DeletedLeaves
CHECK_DEADLOCK FALSE
