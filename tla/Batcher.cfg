CONSTANTS
  x = x
  Tx <- MCTx
  Payloads <- MCPayloads
  Radix = 256
  BatchTag = 116
  CanFail = TRUE
  MaxBlocks = 3
  MaxBatches = 3
  MaxCrashes = 1
  Sizes <- MCSizes
  L1Fails = TRUE
  MaxLost = 1
SPECIFICATION Spec
INVARIANTS
  L1MatchesChain
  SessionTilesChain
  RecordsMatchL1
PROPERTIES
  EveryBlockPosted
CHECK_DEADLOCK FALSE
