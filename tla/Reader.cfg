SPECIFICATION Spec
CONSTANTS
  Pages = {p, q}
  Stored = {p}
  None = None
  MaxVersion = 2
  MaxCalls = 2
  Budget = 1
INVARIANTS
  TypeOK
  OnlyLateEntries
  StoredHasOwnPage
PROPERTIES
  EditsHaveCause
  PollEnds
CHECK_DEADLOCK FALSE
