SPECIFICATION Spec
CONSTANTS
  User = {u0, u1, u2}
  Admin = u0
  Email = {e0, e1, e2}
  Username = {n0, n1, n2}
  AdminEmail = e0
  AdminUsername = n0
  Secret = {"clave", ""}
  AdminSecret = "clave"
  Empty = ""
  TooLong = {}
  Padded = {FALSE}
  Role = {"requester"}
  AccessLife = 1
  RefreshLife = 2
  Request = {r1, r2}
  Faulty = {r1, r2}
  None = None
SYMMETRY AccountSymmetry
INVARIANTS
  AccountsAreUnique
  DeactivationSticks
  HoldersHaveLoggedIn
PROPERTIES
  OnlyAdminsCreate
