CONSTANTS
  b1 = b1
  b2 = b2
  Ids = {i1, i2}
  Bytes = {b1}
  NoHash = NoHash
  Bodies <- OneBlob
  MaxVid = 3
  Creators = {c1}
  Procs = {p1, p2}
  Ops = {"new", "update", "snapshot", "fix", "save", "save_snapshot", "add_version", "transition_to_fixed"}
  Ticks = {0}
  MaxClock = 0
SPECIFICATION Spec
SYMMETRY CallersAreAlike
CHECK_DEADLOCK FALSE
INVARIANTS  SnapshotsNeverCollide SnapshotsAreLinked
