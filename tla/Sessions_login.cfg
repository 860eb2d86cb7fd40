SPECIFICATION Spec
CONSTANTS
  Users = {u1, u2}
  Requests = {r1, r2, r3}
  Lifetime = 2
  Retention = 1
  NoToken = NoToken
  NoRow = NoRow
  Horizon = 3
SYMMETRY Symmetry
CHECK_DEADLOCK FALSE
PROPERTIES
  LoginTakesEffect
