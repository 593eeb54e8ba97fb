SPECIFICATION FairSpec
CONSTANTS
  c1 = c1
  c2 = c2
  Clients = {c1, c2}
  Tasks = {t1}
  Asks <- MCAsks
  NoTask = NoTask
  MaxConnects = 2
  StoreFails = TRUE
PROPERTIES
  ExitsEmpty
  DrainIsFinal
  StopEnds
  CheckExits
CHECK_DEADLOCK FALSE
