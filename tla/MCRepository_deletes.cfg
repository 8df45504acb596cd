CONSTANTS
  b1 = b1
  b2 = b2
  Ids = {i1}
  Bytes = {b1}
  NoHash = NoHash
  Bodies <- OneBlob
  MaxVid = 3
  Creators = {c1}
  Procs = {p1, p2}
  Ops = {"new", "save", "list_by_creator", "add_version", "transition_to_fixed", "delete"}
  Ticks = {0, 1}
  MaxClock = 1
SPECIFICATION Spec
SYMMETRY CallersAreAlike
CHECK_DEADLOCK FALSE
INVARIANTS  EveryRecordHasAVersion
PROPERTIES FixedNeverReverts StoredVersionsSurvive
