SPECIFICATION FairSpec
CONSTANTS
  Results = {"fail"}
  MaxGets = 2
  MaxPuts = 1
  MaxLoops = 1
INVARIANTS
  TypeOK
  RollbackAfterEnd
PROPERTIES
  SettledPage
  KillEnds
CHECK_DEADLOCK FALSE
