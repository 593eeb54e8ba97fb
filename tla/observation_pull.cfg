SPECIFICATION Spec
CONSTANTS
  f1 = f1
  f2 = f2
  base = base
  a = a
  b = b
  Paths = {f1, f2}
  Contents = {base, a, b}
  Base = base
  Material <- Compact
  Readers = {r1}
  MaxReports = 2
  MaxNotices = 2
  MaxPull = 1
  MaxRevision = 3
  Idle = Idle
  Budgets <- ReadersAlone
  Batches <- OneByOne
INVARIANT NothingLost
CHECK_DEADLOCK FALSE
