CONSTANTS
  x = x
  y = y
  Ids = {i1, i2, i3}
  Bytes = {x, y}
  NoHash = NoHash
  Bodies <- MCBodies
  MaxVid = 3
  DigestLen = 2
  DigestOf <- MCDigestOf
  NoText = NoText
  NoUuid = NoUuid
  Plain <- MCPlain
SPECIFICATION CoreSpec
SYMMETRY HandlesAreAlike
CHECK_DEADLOCK FALSE
INVARIANTS  DigestExactlyWhenFixed VersionIdNamesOneBody ChainsAreOldestFirst
INVARIANTS  AcceptedRowsAreRecords DigestTextsAgree
PROPERTY FixedIsFrozen
