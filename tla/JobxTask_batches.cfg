SPECIFICATION Spec
CONSTANTS
  u1 = u1
  u2 = u2
  Uuids = {u1}
  NoTask = NoTask
  NumBatches = 2
  HasPrev <- AllHavePrev
  PrevOnline = TRUE
  Online = TRUE
  RollbackMode = "PartialReverseRollback"
  ExitOnFail <- Rollbacks
  Api = FALSE
  Refuses = TRUE
  Patient = TRUE
  MaxPosts = 1
  Meddled <- Deploys
  Hasty <- FirstBatch
  LongTasks <- NoTasks
INVARIANTS TypeOK BatchesInTurn CancelledNeverRuns VerdictHonest
  RollbackCovers
PROPERTIES VersionOfSuccess KeepsLifecycle RefusedNotRolledBack
CHECK_DEADLOCK FALSE
