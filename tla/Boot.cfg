SPECIFICATION Spec
CONSTANTS
  Emails = {a, b}
  Unset = Unset
SYMMETRY Symmetry
INVARIANTS
  TypeOK
  SongsSurvive
  FailureHasCause
  RecordedIsReady
PROPERTIES
  CutIsLeftAlone
