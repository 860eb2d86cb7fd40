SPECIFICATION Spec
CONSTANTS
  Users = {u1}
  Requests = {r1, r2, r3}
  Lifetime = 2
  Retention = 1
  NoToken = NoToken
  NoRow = NoRow
  Horizon = 4
SYMMETRY RequestSymmetry
CHECK_DEADLOCK FALSE
INVARIANTS
  SteadyDeviceStays
PROPERTIES
  RevokedIsFinal
  NoServiceAfterLogout
  PruneDropsOnlyDead
