SPECIFICATION FairSpec
CONSTANTS
  ana = ana
  bruno = bruno
  r1 = r1
  r2 = r2
  r3 = r3
  Order = {o1}
  User = {ana, bruno}
  Request = {r1, r2, r3}
  Role <- RoleOf
  ApprovalLimit <- LimitOf
  Amount = {1, 2}
  Router = {"approvals", "purchase_orders"}
  Reason = {"", "motivo"}
  AuditLogColumns <- Mixed
  Faulty = {r2}
  None = None
INVARIANTS
  TypeOK
  PastExplainsRow
  PendingUpdateIsCurrent
  AnswerMatchesDatabase
  DecisionAndAuditTogether
  DecisionsByEntitledUsers
  StepsExplainStatus
PROPERTIES
  IllegalOnlyWhenStale
  ImplementsLifecycle
  EveryRequestIsAnswered
