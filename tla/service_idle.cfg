SPECIFICATION FairSpec
CONSTANTS
  c1 = c1
  c2 = c2
  Clients = {c1}
  Tasks = {t1}
  Asks <- MCSubmits
  NoTask = NoTask
  MaxConnects = 1
  StoreFails = FALSE
PROPERTIES
  IdleExits
CHECK_DEADLOCK FALSE
