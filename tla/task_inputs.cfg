SPECIFICATION Spec
CONSTANTS
  alice = alice
  bob = bob
  ownerA = ownerA
  ownerB = ownerB
  k1 = k1
  k2 = k2
  k3 = k3
  i1 = i1
  op1 = op1
  Clients = {alice, bob}
  OwnerOf <- OneEach
  FirstOwner = ownerA
  Keys = {k1, k2, k3}
  Inputs = {i1}
  Operations = {}
  MaxReceipts = 2
  NoClient = NoClient
  MaxPending = 1
  NoInput = NoInput
  MaxTurns = 1
  MaxCrashes = 1
SYMMETRY KeySymmetry
INVARIANTS
  TypeOK
  RecordDecodes
  ClaimsCurrent
  ReceiptsTruthful
  CancelAlwaysFits
  CancelWins
  ResultAgrees
  TerminalHasResult
  AnswerAfterIntent
  NeverReplayed
  UncertaintyFreezes
CHECK_DEADLOCK FALSE
