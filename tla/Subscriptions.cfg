CONSTANTS
  c1 = c1
  c2 = c2
  NoConn = NoConn
  Conns = {c1, c2}
  SubTypes = {"newHeads", "logs"}
  Feeds = {"newHeads"}
  MaxSubs = 2
SPECIFICATION Spec
CHECK_DEADLOCK FALSE
INVARIANTS
  SilentAfterUnsubscribe
  NobodyMissed
PROPERTIES
  BrokenLeave
  RequestsAnswered
