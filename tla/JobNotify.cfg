SPECIFICATION FairSpec
CONSTANTS
  t1 = t1 d1 = d1 d2 = d2
  NoRow = NoRow
  Tasks = {t1}
  Daemons = {d1, d2}
  MaxMishaps = 2
  MaxResets = 3
INVARIANTS TypeOK ToldOnce
PROPERTIES UsersTold
CHECK_DEADLOCK FALSE
