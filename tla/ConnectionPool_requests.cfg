SPECIFICATION FairSpec
CONSTANTS
  Request = {r1, r2, r3}
  Process = {p1, p2}
  Row = {k1}
  PoolSize = 1
  MaxOverflow = 1
  None = None
  MaxOutages = 1
  MaxKills = 1
INVARIANTS
  ConnectionsAreAccountedFor
  OnlyOutagesFail
PROPERTIES
  EveryRequestEnds
CHECK_DEADLOCK FALSE
