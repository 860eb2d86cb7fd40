SPECIFICATION FairSpec
CONSTANTS
  Songs = {song1}
  Scans = {s1, s2}
  SongOf <- OneSongOf
  Keys = {k1, k2}
  Requests = {r1, r2}
  NoKey = NoKey
  NoRow = NoRow
CHECK_DEADLOCK FALSE
PROPERTIES
  KeySettles
  ImplementsIdempotentKey
