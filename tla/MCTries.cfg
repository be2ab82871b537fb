CONSTANTS
  Resources = {r1}
  Values = {v1}
  Accounts = {a1, a2}
  Predeployed = {a1}
  Slots = {s1, s2}
  MaxWord = 1
  None = None
  Lost = Lost
  MaxTxs = 2
  MaxCalls = 2
  MaxHeight = 2
  MaxCrashes = 1
SPECIFICATION Spec
SYMMETRY SlotSymmetry
INVARIANTS
  RootsReadable
  CleanProofs
  CleanCallAtTip
PROPERTY
  ImplementsVersionedStore
CHECK_DEADLOCK FALSE
