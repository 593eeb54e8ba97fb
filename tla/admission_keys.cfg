SPECIFICATION FairSpec
CONSTANTS
  k1 = k1
  k2 = k2
  i1 = i1
  i2 = i2
  alice = alice
  bob = bob
  Tasks = {t1, t2}
  Keys = {k1}
  Intents = {i1, i2}
  NoKey = NoKey
  NoIntent = NoIntent
  NoTaskId = NoTaskId
  Boot = Boot
  OwnerOf <- TwoOwners
  MaxWorkers = 1
  MaxQueued = 0
  FormsOf <- BothForms
  StoreFails = TRUE
  MaxCrashes = 1
INVARIANTS
  StoresAgree
PROPERTIES
  KeepsContract
  CancelEnds
CHECK_DEADLOCK FALSE
