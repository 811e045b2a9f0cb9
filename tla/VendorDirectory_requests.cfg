SPECIFICATION FairSpec
CONSTANTS
  Vendor = {v1, v2}
  Code = {c1, c2}
  Status = {"active"}
  Order = {o1}
  Request = {r1, r2, r3}
  Faulty = {r1}
  StepsKept = TRUE
  Cleanup = Cleanup
  None = None
INVARIANTS
  CodesAreUnique
  NothingDangles
PROPERTIES
  OnlyOldRowsArePurged
  PurgedUnlessBlocked
