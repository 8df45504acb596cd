CONSTANTS
  b1 = b1
  b2 = b2
  Ids = {i1}
  Bytes = {b1, b2}
  NoHash = NoHash
  Malformed = Malformed
  Oversized = Oversized
  Bodies <- OneOfEach
  MaxVid = 3
  Creators = {c1}
  Procs = {p1}
  Ops = {"find", "save", "add_version", "transition_to_fixed"}
  Requests = {"get", "post", "put", "fix", "asset"}
  Deploys = {TRUE, FALSE}
  Ticks = {1}
  MaxClock = 6
SPECIFICATION FairApiSpec
CHECK_DEADLOCK FALSE
INVARIANTS ApiTypeOK
PROPERTIES ImplementsLifecycle RequestsReturn RetriedFixSucceeds
