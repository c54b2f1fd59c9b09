CONSTANTS
  x = x
  y = y
  Tx <- MCTx
  Payloads <- MCPayloads
  Radix = 256
  BatchTag = 116
  CanFail = TRUE
  MaxBlocks = 3
  MaxBatches = 1
  MaxCrashes = 2
SPECIFICATION Spec
INVARIANTS
  GenesisFundsPresent
