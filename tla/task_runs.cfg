SPECIFICATION FairSpec
CONSTANTS
  alice = alice
  bob = bob
  ownerA = ownerA
  ownerB = ownerB
  k1 = k1
  k2 = k2
  k3 = k3
  i1 = i1
  op1 = op1
  Clients = {alice, bob}
  OwnerOf <- OneEach
  FirstOwner = ownerA
  Keys = {k1, k2}
  Inputs = {}
  Operations = {op1}
  MaxReceipts = 2
  NoClient = NoClient
  MaxPending = 1
  NoInput = NoInput
  MaxTurns = 2
  MaxCrashes = 2
INVARIANTS
  CompletionProven
PROPERTIES
  KeepsContract
  CancelSettles
  ReturnSettles
CHECK_DEADLOCK FALSE
