SPECIFICATION Spec
CONSTANTS
  Songs = {"old", "new"}
  OldPages <- TwoPages
  Requests = {r1, r2, r3}
  Nobody = Nobody
  NoRow = NoRow
SYMMETRY RequestSymmetry
CHECK_DEADLOCK FALSE
INVARIANTS
  TypeOK
  PagesDistinct
  RowHasOriginal
  OrphanHasCause
PROPERTIES
  ImplementsSongPages
