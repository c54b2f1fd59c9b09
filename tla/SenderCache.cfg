CONSTANTS
  c1 = c1
  c2 = c2
  Callers = {c1, c2}
  Addrs = {"alice"}
  ScoreResults <- MCScoreResults
  Discounts <- MCDiscounts
  TTL = 2
  Timeout = 2
SPECIFICATION Spec
INVARIANTS
  WorthIsRecent
PROPERTIES
  LookupsConverge
