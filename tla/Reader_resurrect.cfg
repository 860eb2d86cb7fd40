SPECIFICATION Spec
CONSTANTS
  Pages = {p, q}
  Stored = {p}
  None = None
  MaxVersion = 2
  MaxCalls = 2
  Budget = 1
PROPERTY
  NeverResurrects
CHECK_DEADLOCK FALSE
