SPECIFICATION Spec
CONSTANTS
  Songs = {song1}
  Scans = {s1, s2}
  SongOf <- OneSongOf
  Keys = {k1}
  Requests = {r1, r2, r3}
  NoKey = NoKey
  NoRow = NoRow
SYMMETRY RequestSymmetry
CHECK_DEADLOCK FALSE
INVARIANTS
  TypeOK
  SingleFlight
  StartedKeyHasCause
  CompletedKeyHasRun
  TranscriptionMatchesHistory
  AnswerIsOfOwnPage
  AcknowledgedSaveIsKept
PROPERTIES
  SeenReviewIsKept
