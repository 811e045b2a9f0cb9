SPECIFICATION FairSpec
CONSTANTS
  Session = {s1, s2}
  Total = 3
  Amount = {1, 2}
  MaxCalls = 3
  None = None
INVARIANTS
  TypeOK
  CommittedWithinTotal
  BalancedUnlessOverlapped
PROPERTIES
  EveryFlushReturns
