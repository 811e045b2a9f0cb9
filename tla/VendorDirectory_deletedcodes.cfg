SPECIFICATION Spec
CONSTANTS
  Vendor = {v1, v2}
  Code = {c1}
  Status = {"active"}
  Order = {o1}
  Request = {r1, r2}
  Faulty = {}
  StepsKept = TRUE
  Cleanup = Cleanup
  None = None
PROPERTIES
  DeletedCodesAreFree
