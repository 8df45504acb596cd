CONSTANTS
  alice = alice
  bob = bob
  k1 = k1
  k2 = k2
  Callers = {p1, p2}
  Subs = {alice, bob}
  UserIds = {u1, u2, u3}
  Servers = {s1, s2}
  Envs <- MCEnvs
  Keys = {k1, k2}
  KeySets <- MCKeySets
  Tokens <- MCTokens
  NoToken = NoToken
  NoKid = NoKid
  NoServer = NoServer
  NoSub = NoSub
  NoUser = NoUser
SPECIFICATION GateSpec
SYMMETRY ProcessesAreAlike
CHECK_DEADLOCK FALSE
INVARIANTS GateTypeOK  RaceLosersRecover ServersAreWholeOrNot AdmittedAreProvisioned UsersWereVouchedFor
 
