SPECIFICATION Spec
CONSTANTS
  Buckets = {"rate", "quota", "off"}
  Limit <- MCLimit
  Window <- MCWindow
  Routes <- MCRoutes
  Requests = {r1, r2, r3}
  Retention = 4
  Patience = 1
  Horizon = 8
SYMMETRY RequestSymmetry
CHECK_DEADLOCK FALSE
INVARIANTS
  WindowBound
  NothingSweptEarly
PROPERTIES
  DenialIsEarned
