SPECIFICATION Spec
CONSTANTS
  k1 = k1
  k2 = k2
  i1 = i1
  i2 = i2
  alice = alice
  bob = bob
  Tasks = {t1, t2}
  Keys = {k1}
  Intents = {i1}
  NoKey = NoKey
  NoIntent = NoIntent
  NoTaskId = NoTaskId
  Boot = Boot
  OwnerOf <- OneOwner
  MaxWorkers = 1
  MaxQueued = 1
  FormsOf <- OneForm
  StoreFails = FALSE
  MaxCrashes = 2
INVARIANTS
  NeverStartedKept
CHECK_DEADLOCK FALSE
