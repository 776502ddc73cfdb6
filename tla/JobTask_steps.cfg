SPECIFICATION Spec
CONSTANTS
  t1 = t1 t2 = t2 t3 = t3 p1 = p1 p2 = p2 p3 = p3 n1 = n1 n2 = n2 j1 = j1 m1 = m1
  NoPid = NoPid NoTask = NoTask NoMutex = NoMutex
  Tasks = {t1}
  Pids = {p1, p2}
  Jobs = {j1}
  NumSteps = 3
  Nodes = {n1, n2}
  Mutexes = {}
  InJob <- AllInJob
  JobOf <- SameJob
  MutexOf <- NoMutexes
  KindOf <- Pipeline
  StepPause <- FirstPauses
  Filterable = {2}
  BuildinSteps = {2}
  ExitOnFail = FALSE
  Versioned = {t1}
  Prints <- PrintsCmd
  JobLimit = 2
  LongTasks = {}
  Meddled = {t1}
  Maintains = FALSE
  MaxRetry = 1
  MaxLost = 2
SYMMETRY PidNodeSymmetry
INVARIANTS
  TypeOK
  OneWorker
  StepProtocol
  RetryDiscipline
  WaitingMeansAsking
  VersionHonest
PROPERTIES
  OwnerWrites
  KeepsLifecycle
