CONSTANTS
  b1 = b1
  b2 = b2
  Ids = {i1}
  Bytes = {b1, b2}
  NoHash = NoHash
  Bodies <- OneInlineOneBlob
  MaxVid = 2
  Creators = {c1, c2}
  Procs = {p1, p2}
  Ops = {"new", "save", "find", "list_by_creator", "add_version", "transition_to_fixed"}
  Ticks = {0}
  MaxClock = 0
SPECIFICATION FairSpec
CHECK_DEADLOCK FALSE
INVARIANTS HashExactlyWhenFixed StoredVersionsMatchHeld AcknowledgedFixHolds SealedBodyIsFossil FindsAreWhole ListsAreWhole
PROPERTIES CallsReturn
