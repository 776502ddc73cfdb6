SPECIFICATION Spec
CONSTANTS
  t1 = t1 t2 = t2 t3 = t3 p1 = p1 p2 = p2 p3 = p3 n1 = n1 n2 = n2 j1 = j1 m1 = m1
  NoPid = NoPid NoTask = NoTask NoMutex = NoMutex
  Tasks = {t1, t2}
  Pids = {p1, p2}
  Jobs = {j1}
  NumSteps = 1
  Nodes = {n1}
  Mutexes = {m1}
  InJob <- AllInJob
  JobOf <- SameJob
  MutexOf <- SameMutex
  KindOf <- CmdOnly
  StepPause <- NoPause
  Filterable = {}
  BuildinSteps = {}
  ExitOnFail = FALSE
  Versioned = {}
  Prints <- PrintsNone
  JobLimit = 3
  LongTasks = {}
  Meddled = {}
  Maintains = FALSE
  MaxRetry = 1
  MaxLost = 0
SYMMETRY TaskPidSymmetry
INVARIANTS
  MutexExclusive
