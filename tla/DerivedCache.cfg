SPECIFICATION CopySpec
CONSTANTS
  Requests = {r1, r2, r3, r4}
  NoFile = NoFile
SYMMETRY RequestSymmetry
CHECK_DEADLOCK FALSE
INVARIANTS
  PartHasCause
  PartNeedsAnother
