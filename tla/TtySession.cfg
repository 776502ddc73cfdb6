SPECIFICATION Spec
CONSTANTS
  g1 = g1
  i1 = i1
  i2 = i2
  NoId = NoId
  NoTab = NoTab
  Pages = {g1}
  Ids = {i1, i2}
  MaxTabs = 3
  MaxConns = 2
  MaxData = 1
  LimitPerUser = 2
  LimitGlobal = 2
SYMMETRY IdSymmetry
INVARIANTS
  TypeOK
  OwnTerminal
  AgreeAtRest
  NoShellForgotten
CHECK_DEADLOCK FALSE
