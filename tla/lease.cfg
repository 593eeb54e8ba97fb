SPECIFICATION FairSpec
CONSTANTS
  Processes = {p1, p2, p3}
  Former = {p3}
  Inodes = {n1, n2, n3}
  NoProcess = NoProcess
  NoInode = NoInode
INVARIANTS OneHolder OwnerKeepsLock LockIsOwned
PROPERTIES GuardReturns
CHECK_DEADLOCK FALSE
