CONSTANTS
  W = 65536
  S = 20
  MinGas = 2
  MaxGas = 8
  InitialGas = 4
  MinTx = 1
  MaxTx = 10
  InitialTx = 5
  AdjustStepBps = 2000
  AlphaInv = 5
  MinFee = 8
  MaxFee = 32
  InitialFee = 16
  Discounts = {0, 2500, 9999, 10000}
  BlockGasLimit = 4
SPECIFICATION Spec
INVARIANTS
  TypeOK
  LimitsInRange
  FeeInRange
PROPERTIES
  FeeMovesSlowly
  IdleComesToRest
  BusyOutgrowsExecutor
