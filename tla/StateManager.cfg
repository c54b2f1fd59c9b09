CONSTANTS
  x = x
  y = y
  Tx <- MCTx
  Payloads <- MCPayloads
  Radix = 3
  BatchTag = 1
  CanFail = TRUE
  MaxBlocks = 3
  MaxBatches = 1
  MaxCrashes = 2
SPECIFICATION Spec
INVARIANTS
  ChainIntact
  StatesAvailable
  TipAgrees
  TxIndexExact
PROPERTIES
  BlocksFinal
  ChainAdvances
