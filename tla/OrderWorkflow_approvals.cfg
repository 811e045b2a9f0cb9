SPECIFICATION Spec
CONSTANTS
  ana = ana
  bruno = bruno
  r1 = r1
  r2 = r2
  r3 = r3
  Order = {o1}
  User = {ana, bruno}
  Request = {r1}
  Role <- RoleOf
  ApprovalLimit <- LimitOf
  Amount = {1}
  Router = {"approvals"}
  Reason = {"motivo", ""}
  AuditLogColumns <- AsBuilt
  Faulty = {}
  None = None
INVARIANTS
  NoServerError
