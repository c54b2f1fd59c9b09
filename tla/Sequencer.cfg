CONSTANTS
  a0 = a0
  a1 = a1
  ax = ax
  b0 = b0
  Tx <- MCTx
  Gas <- MCGas
  GasPrice <- MCGasPrice
  Scores <- MCScores
  Weight = 30
  MaxSize = 4
  Calls <- MCCalls
  W = 65536
  Accounts <- MCAccounts
  Coinbase = "seq"
  Sender <- MCSender
  To <- MCTo
  Nonce <- MCNonce
  Value <- MCValue
  EvmGas <- MCEvmGas
  Refund <- MCRefund
  Intrinsic <- MCIntrinsic
  Reverts <- MCReverts
  Genesis <- MCGenesis
  BlockGasLimit = 7
  CanFail = TRUE
  MaxSubmits <- MCMaxSubmits
SPECIFICATION Spec
INVARIANTS
  TypeOK
  IncludedOnce
  NoncesConsecutive
  AcceptedNotLost
  SupplyConserved
  ReceiptsComplete
  RootsCommit
PROPERTIES
  ExecutableIncluded
