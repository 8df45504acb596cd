CONSTANTS
  b1 = b1
  b2 = b2
  Ids = {i1}
  Bytes = {b1, b2}
  NoHash = NoHash
  Malformed = Malformed
  Oversized = Oversized
  Bodies <- OneOfEach
  MaxVid = 3
  Creators = {c1}
  Procs = {p1, p2}
  Ops = {"find", "save", "add_version", "transition_to_fixed"}
  Requests = {"post", "put", "fix"}
  Deploys = {TRUE}
  Ticks = {1}
  MaxClock = 4
SPECIFICATION ApiSpec
CHECK_DEADLOCK FALSE
PROPERTIES OnlyMutableRecordsGrow
