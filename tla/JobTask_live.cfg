SPECIFICATION FairSpec
CONSTANTS
  t1 = t1 t2 = t2 t3 = t3 p1 = p1 p2 = p2 p3 = p3 n1 = n1 n2 = n2 j1 = j1 m1 = m1
  NoPid = NoPid NoTask = NoTask NoMutex = NoMutex
  Tasks = {t1}
  Pids = {p1, p2}
  Jobs = {j1}
  NumSteps = 1
  Nodes = {n1}
  Mutexes = {}
  InJob <- AllInJob
  JobOf <- SameJob
  MutexOf <- NoMutexes
  KindOf <- CmdOnly
  StepPause <- AllPause
  Filterable = {}
  BuildinSteps = {}
  ExitOnFail = FALSE
  Versioned = {}
  Prints <- PrintsNone
  JobLimit = 2
  LongTasks = {t1}
  Meddled = {}
  Maintains = TRUE
  MaxRetry = 1
  MaxLost = 0
PROPERTIES
  ClaimedEnds
  TaskTaken
