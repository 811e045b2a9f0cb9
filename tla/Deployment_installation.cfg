SPECIFICATION Spec
CONSTANTS
  Server = {v1}
  Seeder = {s1}
  Upgrade = {u1}
  Downgrade = {}
  None = None
  Api = Api
  MaxFaults = 0
  MaxRestarts = 0
INVARIANTS
  SeedSucceedsAfterUpgrade
CHECK_DEADLOCK FALSE
