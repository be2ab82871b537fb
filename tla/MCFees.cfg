\* Blocks of up to three of five transactions, any number of blocks.
SPECIFICATION Spec
CONSTANTS
  None = None
  Panicked = Panicked
  Txs <- MCTxs
  Elasticity = 2
  Denominator = 2
  U64Max = 6
  GasLimits = {1, 4}
  GenesisFee = 3
  Intrinsic = 1
  MaxLogs = 1
  MaxAttributes = 2
  MaxPool = 1
\* After a panic the actor is gone.
CHECK_DEADLOCK FALSE
INVARIANTS
  AccountsBalance
  LogsNumbered
  CleanReceiptMatchesListing
PROPERTY
  FeeAnswersDemand
