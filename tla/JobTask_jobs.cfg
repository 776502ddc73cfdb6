SPECIFICATION Spec
CONSTANTS
  t1 = t1 t2 = t2 t3 = t3 p1 = p1 p2 = p2 p3 = p3 n1 = n1 n2 = n2 j1 = j1 m1 = m1
  NoPid = NoPid NoTask = NoTask NoMutex = NoMutex
  Tasks = {t1, t2, t3}
  Pids = {p1, p2}
  Jobs = {j1}
  NumSteps = 1
  Nodes = {n1}
  Mutexes = {m1}
  InJob <- LastLone
  JobOf <- SameJob
  MutexOf <- SameMutex
  KindOf <- CmdAndScp
  StepPause <- NoPause
  Filterable = {}
  BuildinSteps = {1}
  ExitOnFail = TRUE
  Versioned = {t1}
  Prints <- PrintsLone
  JobLimit = 2
  LongTasks = {}
  Meddled = {}
  Maintains = FALSE
  MaxRetry = 1
  MaxLost = 0
SYMMETRY PidSymmetry
INVARIANTS
  LimitKept
  MutexExclusive
  VersionIsLastRun
