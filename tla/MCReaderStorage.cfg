SPECIFICATION Spec
CONSTANTS
  Txs = {t1}
  None = None
  MaxBlocks = 1
  MaxListed = 1
  Window = 1
INVARIANT ReaderHandlesConnected
