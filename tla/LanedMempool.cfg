CONSTANTS
  t1 = t1
  t2 = t2
  t3 = t3
  t4 = t4
  Tx <- MCTx
  Gas <- MCGas
  GasPrice <- MCPrice
  Scores <- MCScores
  Weight = 30
  MaxSize = 3
  Calls <- MCCalls
  W = 65536
SPECIFICATION Spec
INVARIANTS
  TypeOK
  KnownMatchesLanes
  BatchDisjoint
  CapacityRespected
  BatchWithinLimits
  BestFirst
PROPERTIES
  PopReturns
  ImplementsContract
