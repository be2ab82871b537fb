SPECIFICATION Spec
CONSTANTS
  Txs = {t1, t2}
  None = None
  MaxBlocks = 2
  MaxListed = 2
  Window = 1
INVARIANTS AnswersComplete CleanLocated
PROPERTIES AnswersNeverRegress ReceiptLeadsToBlock
