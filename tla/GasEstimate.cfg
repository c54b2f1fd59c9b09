CONSTANTS
  MaxBlocks = 1
  Needs = {0, 5, 8, 13, 20, 21}
  Calls <- MCCalls
  BlockGasLimit = 20
  CallFloor = 4
  CreateFloor = 8
  CallDefault = 6
  CreateDefault = 12
  W = 65536
SPECIFICATION Spec
INVARIANTS
  EstimateExact
PROPERTIES
  EstimateReturns
