SPECIFICATION Spec
CONSTANTS
  Server = {v1, v2}
  Seeder = {s1, s2}
  Upgrade = {u1}
  Downgrade = {d1}
  None = None
  Api = Api
  MaxFaults = 1
  MaxRestarts = 1
SYMMETRY Symmetry
INVARIANTS
  TypeOK
  TablesAreThere
  SeedsAreWhole
CHECK_DEADLOCK FALSE
