SPECIFICATION FairSpec
CONSTANTS
  u1 = u1
  u2 = u2
  Uuids = {u1}
  NoTask = NoTask
  NumBatches = 2
  HasPrev <- NoneHasPrev
  PrevOnline = FALSE
  Online = TRUE
  RollbackMode = "PartialReverseRollback"
  ExitOnFail <- NoTasks
  Api = TRUE
  Refuses = FALSE
  Patient = TRUE
  MaxPosts = 2
  Meddled <- NoTasks
  Hasty <- NoBatches
  LongTasks <- AllTasks
PROPERTIES ClaimedEnds
CHECK_DEADLOCK FALSE
