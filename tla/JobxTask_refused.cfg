SPECIFICATION FairSpec
CONSTANTS
  u1 = u1
  u2 = u2
  Uuids = {u1}
  NoTask = NoTask
  NumBatches = 1
  HasPrev <- NoneHasPrev
  PrevOnline = TRUE
  Online = TRUE
  RollbackMode = "PartialReverseRollback"
  ExitOnFail <- NoTasks
  Api = FALSE
  Refuses = TRUE
  Patient = TRUE
  MaxPosts = 1
  Meddled <- NoTasks
  Hasty <- NoBatches
  LongTasks <- AllTasks
PROPERTIES ClaimedEnds
CHECK_DEADLOCK FALSE
