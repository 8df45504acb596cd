CONSTANTS
  b1 = b1
  b2 = b2
  Ids = {i1}
  Bytes = {b1, b2}
  NoHash = NoHash
  Bodies <- OneBlob
  MaxVid = 3
  Creators = {c1}
  Procs = {p1, p2}
  Ops = {"new", "save", "transition_to_fixed"}
  Ticks = {0, 1}
  MaxClock = 0
SPECIFICATION Spec
CHECK_DEADLOCK FALSE
PROPERTY SealedHashNeverChanges
