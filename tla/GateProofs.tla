----------------------------- MODULE GateProofs -----------------------------
(***************************************************************************)
(* Proofs about Provisioning and Gate.                                     *)
(*                                                                         *)
(* Provisioning, for any number of requests, subs and UUIDs: every answer  *)
(* names a row of its sub, the one row once the index is there, and the    *)
(* loser of a race for the index finds the winner's row.  The invariant of *)
(* the runs is not inductive: that a CREATE adds a row whose id no other   *)
(* row has rests on the freshness of the UUIDs that are minted but not yet *)
(* stored (CreatesAreFresh), and that a loser recovers on the rows never   *)
(* going away (LosersSeeTheRow).                                           *)
(*                                                                         *)
(* Gate, for any number of servers, environments, keys and tokens besides: *)
(* each of its steps is a step of Provisioning or none, a server that      *)
(* listens is configured as a whole or not at all, and what passes the     *)
(* layers has been provisioned under its own token's sub.  The last is not *)
(* inductive.  Between two layers of a request, other requests, crashes    *)
(* and deployments happen, so each place on its way needs to say what is   *)
(* still true there (RequestOK): the server of a request is up as it was   *)
(* or down for good, the call of upsert_or_user in flight is the one for   *)
(* its token, and nothing is attached before it.                           *)
(***************************************************************************)
EXTENDS Gate, TLAPS

(* A UUID that waits to be stored is minted, in no row, and nobody else's. *)
CreatesAreFresh ==
  \A p \in Callers : up[p].pc = "create" =>
    /\ up[p].id \in minted
    /\ \A r \in orUser : r.id # up[p].id
    /\ \A q \in Callers : q # p /\ up[q].pc = "create" => up[q].id # up[p].id

RowsAreMinted == \A r \in orUser : r.id \in minted

(* The row that a loser lost to is there, and its call has not been taken  *)
(* for malformed.                                                          *)
LosersSeeTheRow ==
  \A p \in Callers : up[p].lostRace =>
    /\ Rows(up[p].sub) # {}
    /\ up[p].ret # "malformed"

(* A call under way has no answer yet.                                     *)
NoAnswerYet == \A p \in Callers : up[p].pc # "idle" => up[p].ret = "none"

IInv ==
  /\ TypeOK /\ AnswersAgree
  /\ CreatesAreFresh /\ RowsAreMinted /\ LosersSeeTheRow /\ NoAnswerYet

-----------------------------------------------------------------------------
LEMMA IInvInitially == Init => IInv
<1> SUFFICES ASSUME Init PROVE IInv OBVIOUS
<1>1. TypeOK
  BY SubsAssumption, UserIdsAssumption DEF Init, TypeOK, Upsert, NoCall
<1>2. QED
  BY <1>1 DEF Init, NoCall, IInv, AnswersAgree, OneRowEach, CreatesAreFresh, RowsAreMinted,
              LosersSeeTheRow, NoAnswerYet

LEMMA StartUpsertStep ==
  ASSUME IInv, NEW p \in Callers, NEW s \in Subs, StartUpsert(p, s)
  PROVE  IInv'
<1> USE DEF IInv
<1>1. TypeOK' BY DEF TypeOK, Upsert, StartUpsert
<1>2. /\ \A q \in Callers \ {p} : up'[q] = up[q]
      /\ up'[p].pc = "lookup" /\ up'[p].ret = "none" /\ up'[p].lostRace = FALSE
  BY DEF TypeOK, Upsert, StartUpsert
<1>3. orUser' = orUser /\ indexed' = indexed /\ minted' = minted BY DEF StartUpsert
<1>4. QED
  BY <1>1, <1>2, <1>3 DEF AnswersAgree, OneRowEach, CreatesAreFresh, RowsAreMinted,
                          LosersSeeTheRow, NoAnswerYet, Rows

(* One call moves on: the others stay as they are.                         *)
LEMMA OneCallMoves ==
  ASSUME up \in [Callers -> Upsert], NEW p \in Callers, NEW u \in Upsert,
         up' = [up EXCEPT ![p] = u]
  PROVE  /\ up' \in [Callers -> Upsert]
         /\ up'[p] = u /\ \A q \in Callers \ {p} : up'[q] = up[q]
OBVIOUS

(* A call that ends without a row of its own leaves the table alone; it is *)
(* answered with the id of a row of its sub, or with an error.             *)
LEMMA AnswerStep ==
  ASSUME IInv, NEW p \in Callers,
         orUser' = orUser, indexed' = indexed, minted' = minted,
         \/ \E r \in Rows(up[p].sub) : AnswerOk(p, r.id)
         \/ AnswerErr(p, "error")
         \/ Rows(up[p].sub) = {} /\ AnswerErr(p, "malformed")
  PROVE  IInv'
<1> USE DEF IInv
<1>1. CASE \E r \in Rows(up[p].sub) : AnswerOk(p, r.id)
  <2> PICK r \in Rows(up[p].sub) : AnswerOk(p, r.id) BY <1>1
  <2>1. r \in orUser /\ r.sub = up[p].sub /\ r.id \in UserIds /\ r = [id |-> r.id, sub |-> up[p].sub]
    BY DEF Rows, TypeOK
  <2> DEFINE u == [up[p] EXCEPT !.pc = "idle", !.id = r.id, !.ret = "ok"]
  <2>8. up \in [Callers -> Upsert] /\ up[p] \in Upsert BY DEF TypeOK
  <2>9. u \in Upsert /\ u.pc = "idle" /\ u.ret = "ok" /\ u.id = r.id
        /\ u.sub = up[p].sub /\ u.lostRace = up[p].lostRace
    BY <2>1, <2>8 DEF Upsert
  <2>10. up' = [up EXCEPT ![p] = u] BY <2>8 DEF AnswerOk
  <2> HIDE DEF u
  <2>2. TypeOK' BY <2>8, <2>9, <2>10, OneCallMoves DEF TypeOK
  <2>3. /\ \A q \in Callers \ {p} : up'[q] = up[q]
        /\ up'[p].pc = "idle" /\ up'[p].ret = "ok" /\ up'[p].id = r.id
        /\ up'[p].sub = up[p].sub /\ up'[p].lostRace = up[p].lostRace
    BY <2>8, <2>9, <2>10, OneCallMoves
  <2>4. AnswersAgree' BY <2>1, <2>3 DEF AnswersAgree, OneRowEach
  <2>5. CreatesAreFresh' /\ RowsAreMinted' /\ NoAnswerYet'
    BY <2>3 DEF CreatesAreFresh, RowsAreMinted, NoAnswerYet
  <2>6. LosersSeeTheRow' BY <2>3 DEF LosersSeeTheRow, Rows
  <2>7. QED BY <2>2, <2>4, <2>5, <2>6
<1>2. CASE \/ AnswerErr(p, "error")
           \/ Rows(up[p].sub) = {} /\ AnswerErr(p, "malformed")
  <2>1. PICK ret \in {"error", "malformed"} :
          AnswerErr(p, ret) /\ (ret = "malformed" => Rows(up[p].sub) = {})
    BY <1>2
  <2>2. TypeOK' BY <2>1 DEF TypeOK, Upsert, AnswerErr
  <2>3. /\ \A q \in Callers \ {p} : up'[q] = up[q]
        /\ up'[p].pc = "idle" /\ up'[p].ret = ret /\ up'[p].id = up[p].id
        /\ up'[p].sub = up[p].sub /\ up'[p].lostRace = up[p].lostRace
    BY <2>1 DEF TypeOK, Upsert, AnswerErr
  <2>4. AnswersAgree' BY <2>3 DEF AnswersAgree, OneRowEach
  <2>5. CreatesAreFresh' /\ RowsAreMinted' /\ NoAnswerYet'
    BY <2>3 DEF CreatesAreFresh, RowsAreMinted, NoAnswerYet
  <2>6. LosersSeeTheRow' BY <2>1, <2>3 DEF LosersSeeTheRow, Rows
  <2>7. QED BY <2>2, <2>4, <2>5, <2>6
<1>3. QED BY <1>1, <1>2

LEMMA EndUpsertStep ==
  ASSUME IInv, NEW p \in Callers, EndUpsert(p)
  PROVE  IInv'
<1> USE DEF IInv
<1>1. NoCall \in Upsert BY SubsAssumption, UserIdsAssumption DEF NoCall, Upsert
<1>2. orUser' = orUser /\ indexed' = indexed /\ minted' = minted BY DEF EndUpsert
<1>3. TypeOK' BY <1>1, <1>2 DEF TypeOK, EndUpsert
<1>4. /\ \A q \in Callers \ {p} : up'[q] = up[q]
      /\ up'[p].pc = "idle" /\ up'[p].ret = "none" /\ up'[p].lostRace = FALSE
  BY DEF TypeOK, EndUpsert, NoCall
<1>5. QED
  BY <1>2, <1>3, <1>4 DEF AnswersAgree, OneRowEach, CreatesAreFresh, RowsAreMinted,
                          LosersSeeTheRow, NoAnswerYet, Rows

LEMMA LookupStep ==
  ASSUME IInv, NEW p \in Callers, Lookup(p)
  PROVE  IInv'
<1> USE DEF IInv
<1>1. CASE \E r \in Rows(up[p].sub) : AnswerOk(p, r.id) /\ UNCHANGED minted
  BY <1>1, AnswerStep DEF Lookup
<1>2. ASSUME NEW new \in UserIds \ minted,
             up' = [up EXCEPT ![p].pc = "create", ![p].id = new],
             minted' = minted \cup {new}, orUser' = orUser, indexed' = indexed,
             up[p].pc = "lookup"
      PROVE  IInv'
  <2>0. orUser' = orUser /\ indexed' = indexed /\ minted' = minted \cup {new} BY <1>2
  <2> DEFINE u == [up[p] EXCEPT !.pc = "create", !.id = new]
  <2>10. up \in [Callers -> Upsert] /\ up[p] \in Upsert BY DEF TypeOK
  <2>11. u \in Upsert /\ u.pc = "create" /\ u.ret = up[p].ret /\ u.id = new
         /\ u.sub = up[p].sub /\ u.lostRace = up[p].lostRace
    BY <2>10 DEF Upsert
  <2>12. up' = [up EXCEPT ![p] = u] BY <1>2, <2>10
  <2> HIDE DEF u
  <2>1. TypeOK' BY <2>0, <2>10, <2>11, <2>12, OneCallMoves DEF TypeOK
  <2>2. /\ \A q \in Callers \ {p} : up'[q] = up[q]
        /\ up'[p].pc = "create" /\ up'[p].ret = up[p].ret /\ up'[p].id = new
        /\ up'[p].sub = up[p].sub
    BY <2>10, <2>11, <2>12, OneCallMoves
  <2>3. up[p].ret = "none" BY <1>2 DEF NoAnswerYet
  <2>8. up'[p].lostRace => up[p].lostRace BY <2>10, <2>11, <2>12, OneCallMoves
  <2>4. AnswersAgree' BY <2>0, <2>2, <2>3 DEF AnswersAgree, OneRowEach
  <2>5. CreatesAreFresh' BY <2>0, <2>2 DEF CreatesAreFresh, RowsAreMinted
  <2>6. RowsAreMinted' /\ NoAnswerYet' BY <2>0, <2>2, <2>3 DEF RowsAreMinted, NoAnswerYet
  <2>7. LosersSeeTheRow' BY <2>0, <2>2, <2>8 DEF LosersSeeTheRow, Rows
  <2>9. QED BY <2>1, <2>4, <2>5, <2>6, <2>7
<1>3. QED BY <1>1, <1>2 DEF Lookup

LEMMA CreateUserStep ==
  ASSUME IInv, NEW p \in Callers, CreateUser(p)
  PROVE  IInv'
<1> USE DEF IInv
<1>0. /\ up[p].pc = "create" /\ up[p].ret = "none"
      /\ minted' = minted /\ indexed' = indexed
  BY DEF CreateUser, NoAnswerYet
<1>1. ASSUME indexed => Rows(up[p].sub) = {},
             orUser' = orUser \cup {[id |-> up[p].id, sub |-> up[p].sub]},
             AnswerOk(p, up[p].id) \/ AnswerErr(p, "error")
      PROVE  IInv'
  <2> DEFINE row == [id |-> up[p].id, sub |-> up[p].sub]
  <2>1. row \in [id : UserIds, sub : Subs] BY DEF TypeOK, Upsert
  <2>2. TypeOK' BY <1>0, <1>1, <2>1 DEF TypeOK, Upsert, AnswerOk, AnswerErr
  <2>3. /\ \A q \in Callers \ {p} : up'[q] = up[q]
        /\ up'[p].pc = "idle" /\ up'[p].ret \in {"ok", "error"} /\ up'[p].id = up[p].id
        /\ up'[p].sub = up[p].sub /\ up'[p].lostRace = up[p].lostRace
    BY <1>1 DEF TypeOK, Upsert, AnswerOk, AnswerErr
  <2>4. /\ indexed => \A r \in orUser : r.sub # row.sub
        /\ \A r \in orUser : r.id # row.id
    BY <1>0, <1>1 DEF Rows, CreatesAreFresh
  <2>5. AnswersAgree'
    <3>1. \A q \in Callers : up'[q].ret = "ok" => [id |-> up'[q].id, sub |-> up'[q].sub] \in orUser'
      BY <1>1, <2>3 DEF AnswersAgree
    <3>2. \A r, s \in orUser' : r.id = s.id => r = s
      BY <1>1, <2>4 DEF AnswersAgree
    <3>3. indexed' => OneRowEach'
      BY <1>0, <1>1, <2>4 DEF AnswersAgree, OneRowEach
    <3>4. QED BY <3>1, <3>2, <3>3 DEF AnswersAgree
  <2>6. CreatesAreFresh' BY <1>0, <1>1, <2>3 DEF CreatesAreFresh
  <2>7. RowsAreMinted' BY <1>0, <1>1 DEF RowsAreMinted, CreatesAreFresh
  <2>8. NoAnswerYet' BY <2>3 DEF NoAnswerYet
  <2>9. LosersSeeTheRow'
    <3>1. \A sub : Rows(sub) \subseteq Rows(sub)' BY <1>1 DEF Rows
    <3>2. QED BY <2>3, <3>1 DEF LosersSeeTheRow
  <2>10. QED BY <2>2, <2>5, <2>6, <2>7, <2>8, <2>9
<1>2. ASSUME orUser' = orUser,
             \/ /\ Rows(up[p].sub) # {}
                /\ up' = [up EXCEPT ![p].pc = "recover", ![p].lostRace = TRUE]
             \/ Goto(p, "recover")
      PROVE  IInv'
  <2>1. TypeOK' BY <1>0, <1>2 DEF TypeOK, Upsert, Goto
  <2>2. /\ \A q \in Callers \ {p} : up'[q] = up[q]
        /\ up'[p].pc = "recover" /\ up'[p].ret = up[p].ret
        /\ up'[p].sub = up[p].sub
        /\ up'[p].lostRace => up[p].lostRace \/ Rows(up[p].sub) # {}
    BY <1>2 DEF TypeOK, Upsert, Goto
  <2>3. AnswersAgree' BY <1>0, <1>2, <2>2 DEF AnswersAgree, OneRowEach
  <2>4. CreatesAreFresh' /\ RowsAreMinted' /\ NoAnswerYet'
    BY <1>0, <1>2, <2>2 DEF CreatesAreFresh, RowsAreMinted, NoAnswerYet
  <2>5. LosersSeeTheRow' BY <1>0, <1>2, <2>2 DEF LosersSeeTheRow, Rows
  <2>6. QED BY <2>1, <2>3, <2>4, <2>5
<1>3. QED BY <1>1, <1>2 DEF CreateUser

(* The index is accepted only over rows that it suits.                     *)
LEMMA DefineIndexStep ==
  ASSUME IInv, DefineIndex
  PROVE  IInv'
<1>1. orUser' = orUser /\ minted' = minted /\ up' = up BY DEF DefineIndex
<1>2. indexed' \in BOOLEAN BY DEF IInv, TypeOK, DefineIndex
<1>3. TypeOK' BY <1>1, <1>2 DEF IInv, TypeOK
<1>4. indexed' => OneRowEach' BY <1>1 DEF DefineIndex, IInv, AnswersAgree, OneRowEach
<1>5. AnswersAgree' BY <1>1, <1>4 DEF IInv, AnswersAgree
<1>6. QED
  BY <1>1, <1>3, <1>5 DEF IInv, CreatesAreFresh, RowsAreMinted, LosersSeeTheRow,
                          NoAnswerYet, Rows

LEMMA IInvStep == IInv /\ [Next]_vars => IInv'
<1> SUFFICES ASSUME IInv, [Next]_vars PROVE IInv' OBVIOUS
<1>1. ASSUME NEW p \in Callers, Recover(p) PROVE IInv'
  BY <1>1, AnswerStep DEF Recover
<1>2. ASSUME NEW p \in Callers, FailUpsert(p) PROVE IInv'
  BY <1>2, AnswerStep DEF FailUpsert
<1>3. CASE UNCHANGED vars
  BY <1>3 DEF vars, IInv, TypeOK, AnswersAgree, OneRowEach, CreatesAreFresh, RowsAreMinted,
              LosersSeeTheRow, NoAnswerYet, Rows
<1>4. QED
  BY <1>1, <1>2, <1>3, StartUpsertStep, LookupStep, CreateUserStep, DefineIndexStep,
     EndUpsertStep
  DEF Next, UpsertQuery

-----------------------------------------------------------------------------
(* Whatever parallel first requests do, everyone who is answered Ok for a  *)
(* sub is answered with the id of a row of it, and that is its one row     *)
(* from the moment the UNIQUE index is there.                              *)
THEOREM OneSubOneUser == Spec => [](TypeOK /\ AnswersAgree)
BY IInvInitially, IInvStep, PTL DEF Spec, IInv

(* repository.rs calls it structurally impossible that a caller who lost   *)
(* the race finds no row, and so it is.                                    *)
THEOREM LosersFindTheWinner == Spec => []RaceLosersRecover
<1>1. IInv => RaceLosersRecover BY DEF IInv, LosersSeeTheRow, RaceLosersRecover
<1>2. QED BY <1>1, IInvInitially, IInvStep, PTL DEF Spec

-----------------------------------------------------------------------------
(* Start-up and gate.                                                      *)

(* What main has settled of a server when it gets to a phase.              *)
AuthSettled(s) ==
  /\ s.env.auth \in {{}, AuthVars}
  /\ s.auth = "some" <=> s.env.auth # {}

StorageSettled(s) ==
  /\ s.env.storage \in {{}, StorageVars}
  /\ s.storage = "some" <=> s.env.storage # {}

WholeSoFar(s) ==
  /\ s.phase \in {"connect", "schema", "auth", "jwks"} => s.auth = "none"
  /\ s.phase = "jwks" => s.env.auth = AuthVars
  /\ s.phase \in {"storage", "bind", "serving"} => AuthSettled(s)
  /\ s.phase \in {"connect", "schema", "auth", "jwks", "storage"} => s.storage = "none"
  /\ s.phase \in {"bind", "serving"} => StorageSettled(s)

ServersOK ==
  /\ StartupTypeOK
  /\ \A n \in Servers : WholeSoFar(server[n])

InOrder(token) == token \in Tokens /\ token.valid /\ token.kid # NoKid

RequestOK(p) ==
  /\ gate[p] \in Request
  /\ ~At(p, "idle") =>
       /\ gate[p].server \in Servers
       /\ InPhase(gate[p].server, "down") \/ InPhase(gate[p].server, "serving")
  /\ At(p, "idle") \/ At(p, "verify") \/ At(p, "provision") => gate[p].claims = NoSub
  /\ At(p, "provision") =>
       /\ InOrder(gate[p].token)
       /\ up[p].sub = gate[p].token.sub
       /\ Alive(p) => Enforces(p)
  /\ At(p, "scope") \/ At(p, "handler") =>
       (Alive(p) => (Enforces(p) <=> gate[p].claims # NoSub))
  /\ gate[p].claims # NoSub =>
       [id |-> gate[p].orUser, sub |-> gate[p].token.sub] \in orUser
  /\ up[p].pc # "idle" => At(p, "provision")

RequestsOK == gate \in [Callers -> Request] /\ \A p \in Callers : RequestOK(p)

GInv == IInv /\ ServersOK /\ UsersWereVouchedFor /\ RequestsOK

-----------------------------------------------------------------------------
LEMMA FreshTyped ==
  ASSUME NEW env \in Envs
  PROVE  Fresh(env) \in Server /\ WholeSoFar(Fresh(env))
BY DEF Fresh, Server, Phases, Booting, WholeSoFar

LEMMA GoneTyped == Gone \in Server /\ Gone.phase = "down"
<1>1. (CHOOSE env \in Envs : TRUE) \in Envs BY EnvsAssumption
<1>2. QED BY <1>1, FreshTyped DEF Gone, Fresh, Server, Phases, Booting

(* A step of one server keeps the others as they are.                      *)
LEMMA ServerSteps ==
  ASSUME ServersOK, NEW n \in Servers, NEW s \in Server, WholeSoFar(s),
         Step(n, s), tenant' \in KeySets
  PROVE  ServersOK'
BY DEF ServersOK, StartupTypeOK, Step

LEMMA BootStepKeeps ==
  ASSUME ServersOK, NEW n \in Servers, BootStep(n)
  PROVE  ServersOK' /\ server[n].phase \in Booting
<1>0. server[n] \in Server /\ WholeSoFar(server[n]) /\ tenant \in KeySets
      /\ tenant \subseteq Keys
  BY KeySetsAssumption DEF ServersOK, StartupTypeOK
<1>1. PICK s \in Server : Step(n, s) /\ WholeSoFar(s)
  <2>1. CASE Connect(n) \/ ApplySchema(n)
    <3>1. \E phase \in {"schema", "auth"} : Advance(n, phase)
      BY <2>1 DEF Connect, ApplySchema
    <3>2. PICK phase \in {"schema", "auth"} : Step(n, [server[n] EXCEPT !.phase = phase])
      BY <3>1 DEF Advance
    <3>3. QED
      BY <1>0, <2>1, <3>2 DEF Connect, ApplySchema, InPhase, Server, Phases, Booting, WholeSoFar
  <2>2. CASE ResolveAuth(n)
    <3>1. PICK phase \in {"storage", "jwks"} :
            /\ Step(n, [server[n] EXCEPT !.phase = phase])
            /\ server[n].phase = "auth"
            /\ server[n].env.auth = IF phase = "jwks" THEN AuthVars ELSE {}
      BY <2>2 DEF ResolveAuth, Advance, InPhase
    <3>2. QED
      BY <1>0, <3>1 DEF Server, Phases, Booting, WholeSoFar, AuthSettled, AuthVars
  <2>3. CASE FetchJwks(n)
    <3>1. server[n].phase = "jwks" BY <2>3 DEF FetchJwks, InPhase
    <3>2. DEFINE s == [server[n] EXCEPT !.phase = "storage", !.auth = "some", !.jwks = tenant]
    <3>3. s \in Server /\ Step(n, s)
      BY <1>0, <2>3 DEF FetchJwks, Server, Phases, Booting
    <3>4. s.phase = "storage" /\ s.auth = "some" /\ s.jwks = tenant
          /\ s.env = server[n].env /\ s.storage = server[n].storage
      BY <1>0 DEF Server
    <3>5. WholeSoFar(s)
      BY <1>0, <3>1, <3>4 DEF WholeSoFar, AuthSettled, AuthVars
    <3>6. QED BY <3>3, <3>5
  <2>4. CASE ResolveStorage(n)
    <3>1. server[n].phase = "storage" BY <2>4 DEF ResolveStorage, InPhase
    <3>2. CASE server[n].env.storage = {} /\ Advance(n, "bind")
      BY <1>0, <3>1, <3>2
      DEF Advance, Server, Phases, Booting, WholeSoFar, AuthSettled, StorageSettled
    <3>3. CASE /\ server[n].env.storage = StorageVars
               /\ Step(n, [server[n] EXCEPT !.phase = "bind", !.storage = "some"])
      <4> DEFINE s == [server[n] EXCEPT !.phase = "bind", !.storage = "some"]
      <4>1. s \in Server BY <1>0 DEF Server, Phases, Booting
      <4>2. s.phase = "bind" /\ s.storage = "some" /\ s.env = server[n].env
            /\ s.auth = server[n].auth /\ s.jwks = server[n].jwks
        BY <1>0 DEF Server
      <4>3. WholeSoFar(s)
        BY <1>0, <3>1, <3>3, <4>2 DEF WholeSoFar, AuthSettled, StorageSettled, StorageVars
      <4>4. QED BY <3>3, <4>1, <4>3
    <3>4. QED BY <2>4, <3>2, <3>3 DEF ResolveStorage
  <2>5. CASE Bind(n)
    BY <1>0, <2>5
    DEF Bind, Advance, InPhase, Server, Phases, Booting, WholeSoFar, AuthSettled, StorageSettled
  <2>6. QED BY <2>1, <2>2, <2>3, <2>4, <2>5 DEF BootStep
<1>2. server[n].phase \in Booting
  BY DEF BootStep, Connect, ApplySchema, ResolveAuth, FetchJwks, ResolveStorage, Bind, InPhase,
         Booting
<1>3. tenant' = tenant
  BY DEF BootStep, Connect, ApplySchema, ResolveAuth, FetchJwks, ResolveStorage, Bind
<1>4. QED BY <1>0, <1>1, <1>2, <1>3, ServerSteps

LEMMA LaunchKeeps ==
  ASSUME ServersOK, NEW n \in Servers, NEW env \in Envs, Launch(n, env)
  PROVE  ServersOK'
BY FreshTyped, ServerSteps DEF Launch, ServersOK, StartupTypeOK

LEMMA StopKeeps ==
  ASSUME ServersOK, NEW n \in Servers, Stop(n)
  PROVE  ServersOK' /\ server'[n].phase = "down"
<1>1. WholeSoFar(Gone) BY GoneTyped DEF WholeSoFar
<1>2. ServersOK' BY <1>1, GoneTyped, ServerSteps DEF Stop, ServersOK, StartupTypeOK
<1>3. server'[n] = Gone BY DEF Stop, Step, ServersOK, StartupTypeOK
<1>4. QED BY <1>2, <1>3, GoneTyped

-----------------------------------------------------------------------------
LEMMA NoRequestTyped == NoRequest \in Request
BY DEF NoRequest, Request, Routers

(* A step that lets one request go on, one call at a time.                 *)
LEMMA OneRequestMoves ==
  ASSUME RequestsOK, NEW p \in Callers, NEW r, Become(p, r), RequestOK(p)',
         server' = server, orUser \subseteq orUser',
         \A q \in Callers \ {p} : up'[q] = up[q]
  PROVE  RequestsOK'
<1>1. gate'[p] = r /\ \A q \in Callers \ {p} : gate'[q] = gate[q]
  BY DEF RequestsOK, Become
<1>2. r \in Request BY <1>1 DEF RequestOK
<1>3. gate' \in [Callers -> Request] BY <1>2 DEF RequestsOK, Become
<1>4. ASSUME NEW q \in Callers \ {p} PROVE RequestOK(q)'
  BY <1>1, <1>4 DEF RequestsOK, RequestOK, At, Alive, Enforces, InPhase
<1>5. QED BY <1>3, <1>4 DEF RequestsOK

(* A step of a server that has no requests, or that takes them down.       *)
LEMMA OneServerMoves ==
  ASSUME RequestsOK, ServersOK, NEW n \in Servers, NEW s, Step(n, s),
         gate' = gate, up' = up, orUser' = orUser,
         \/ s.phase = "down"
         \/ \A p \in Callers : ~At(p, "idle") => gate[p].server # n
  PROVE  RequestsOK'
<1>1. /\ server'[n] = s
      /\ \A m \in Servers \ {n} : server'[m] = server[m]
  BY DEF Step, ServersOK, StartupTypeOK
<1>2. ASSUME NEW p \in Callers PROVE RequestOK(p)'
  <2>0. RequestOK(p) /\ gate'[p] = gate[p] /\ up'[p] = up[p] BY DEF RequestsOK
  <2>1. ASSUME ~At(p, "idle") PROVE /\ InPhase(gate[p].server, "down")' \/ InPhase(gate[p].server, "serving")'
                                    /\ Alive(p)' => Alive(p) /\ server'[gate[p].server] = server[gate[p].server]
    BY <1>1, <2>0, <2>1 DEF RequestOK, Alive, InPhase
  <2>2. QED BY <2>0, <2>1 DEF RequestOK, At, Alive, Enforces, InPhase
<1>3. QED BY <1>2 DEF RequestsOK

LEMMA AnswerKeeps ==
  ASSUME RequestsOK, TypeOK, NEW p \in Callers, NEW status \in {0, 200, 401, 403, 500},
         Answer(p, status), server' = server, orUser \subseteq orUser',
         up'[p].pc = "idle", \A q \in Callers \ {p} : up'[q] = up[q]
  PROVE  RequestsOK'
<1> DEFINE r == [NoRequest EXCEPT !.status = status]
<1>1. r \in Request /\ r.pc = "idle" /\ r.claims = NoSub
  BY NoRequestTyped DEF NoRequest, Request
<1>2. gate'[p] = r BY DEF Answer, Become, RequestsOK
<1>3. RequestOK(p)' BY <1>1, <1>2 DEF RequestOK, At
<1>4. QED BY <1>3, OneRequestMoves DEF Answer

LEMMA EndUpsertEffect ==
  ASSUME TypeOK, NEW p \in Callers, EndUpsert(p)
  PROVE  /\ up'[p].pc = "idle" /\ orUser' = orUser
         /\ \A q \in Callers \ {p} : up'[q] = up[q]
BY DEF TypeOK, EndUpsert, NoCall

LEMMA ArriveKeeps ==
  ASSUME RequestsOK, NEW p \in Callers, NEW n \in Servers,
         NEW t \in Tokens \cup {NoToken}, NEW router \in Routers, Arrive(p, n, t, router)
  PROVE  RequestsOK'
<1> DEFINE r == [pc |-> Layers.arrival, server |-> n, router |-> router, token |-> t,
                 claims |-> NoSub, orUser |-> NoUser, status |-> 0]
<1>1. r \in Request /\ r.pc = "verify" /\ r.claims = NoSub /\ r.server = n
  BY DEF Request, Layers
<1>2. gate'[p] = r BY DEF Arrive, Become, RequestsOK
<1>3. up[p].pc = "idle" BY DEF Arrive, RequestsOK, RequestOK, At
<1>4. RequestOK(p)'
  BY <1>1, <1>2, <1>3 DEF RequestOK, At, Arrive, InPhase, vars, startupVars
<1>5. QED BY <1>4, OneRequestMoves DEF Arrive, vars, startupVars

LEMMA ProceedKeeps ==
  ASSUME RequestsOK, NEW p \in Callers, NEW pc \in {"scope", "handler"}, Proceed(p, pc),
         (At(p, "verify") /\ ~Enforces(p)) \/ At(p, "scope"), Alive(p),
         server' = server, orUser' = orUser, up' = up
  PROVE  RequestsOK'
<1> DEFINE r == [gate[p] EXCEPT !.pc = pc]
<1>0. RequestOK(p) /\ gate[p] \in Request BY DEF RequestsOK
<1>1. /\ r \in Request /\ r.pc = pc
      /\ r.claims = gate[p].claims /\ r.server = gate[p].server
      /\ r.token = gate[p].token /\ r.orUser = gate[p].orUser
  BY <1>0 DEF Request
<1>2. gate'[p] = r BY DEF Proceed, Become, RequestsOK
<1>3. up[p].pc = "idle" BY <1>0 DEF RequestOK, At
<1>4. RequestOK(p)'
  BY <1>0, <1>1, <1>2, <1>3 DEF RequestOK, At, Alive, Enforces, InPhase
<1>5. QED BY <1>4, OneRequestMoves DEF Proceed

LEMMA VerdictOfTokens ==
  ASSUME NEW n \in Servers, NEW t \in Tokens \cup {NoToken}, Verdict(n, t) = "Ok"
  PROVE  InOrder(t) /\ t.sub \in Subs
BY TokensAssumption DEF Verdict, InOrder, Token

(* The call that verify_jwt_middleware starts is for the token's own sub.  *)
LEMMA VerifiedKeeps ==
  ASSUME RequestsOK, TypeOK, NEW p \in Callers, At(p, "verify"), Alive(p), Enforces(p),
         Verdict(gate[p].server, gate[p].token) = "Ok", Proceed(p, "provision"),
         StartUpsert(p, gate[p].token.sub), server' = server
  PROVE  RequestsOK' /\ gate[p].token.sub \in Subs
<1> DEFINE r == [gate[p] EXCEPT !.pc = "provision"]
<1>0. RequestOK(p) /\ gate[p] \in Request BY DEF RequestsOK
<1>1. /\ r \in Request /\ r.pc = "provision"
      /\ r.claims = gate[p].claims /\ r.server = gate[p].server
      /\ r.token = gate[p].token /\ r.orUser = gate[p].orUser
  BY <1>0 DEF Request
<1>2. gate'[p] = r BY DEF Proceed, Become, RequestsOK
<1>3. InOrder(gate[p].token) /\ gate[p].token.sub \in Subs
  BY <1>0, VerdictOfTokens DEF RequestOK, At, Request
<1>4. /\ up'[p].sub = gate[p].token.sub /\ orUser' = orUser
      /\ \A q \in Callers \ {p} : up'[q] = up[q]
  BY DEF StartUpsert, TypeOK
<1>5. RequestOK(p)'
  BY <1>0, <1>1, <1>2, <1>3, <1>4 DEF RequestOK, At, Alive, Enforces, InPhase
<1>6. QED BY <1>3, <1>4, <1>5, OneRequestMoves DEF Proceed

LEMMA VerifyJwtKeeps ==
  ASSUME RequestsOK, TypeOK, NEW p \in Callers, VerifyJwt(p)
  PROVE  RequestsOK'
<1>0. At(p, "verify") /\ Alive(p) /\ server' = server BY DEF VerifyJwt, startupVars
<1>1. CASE ~Enforces(p) /\ Proceed(p, Layers.verify) /\ UNCHANGED vars
  BY <1>0, <1>1, ProceedKeeps DEF Layers, vars
<1>2. CASE Answer(p, 401) /\ UNCHANGED vars
  <2>1. up[p].pc = "idle" BY <1>0 DEF RequestsOK, RequestOK, At
  <2>2. QED BY <1>0, <1>2, <2>1, AnswerKeeps DEF vars
<1>3. CASE /\ Enforces(p) /\ Verdict(gate[p].server, gate[p].token) = "Ok"
           /\ Proceed(p, "provision")
           /\ StartUpsert(p, gate[p].token.sub)
  BY <1>0, <1>3, VerifiedKeeps
<1>4. QED BY <1>1, <1>2, <1>3 DEF VerifyJwt

LEMMA AttachedTyped ==
  ASSUME NEW g \in Request, NEW sub \in Subs, NEW id \in UserIds
  PROVE  LET r == Attached(g, sub, id) IN
         /\ r \in Request /\ r.pc = "scope" /\ r.claims = sub /\ r.orUser = id
         /\ r.token = g.token /\ r.server = g.server
<1> DEFINE g1 == [g EXCEPT !.pc = "scope"]
           g2 == [g1 EXCEPT !.claims = sub]
           g3 == [g2 EXCEPT !.orUser = id]
<1>1. /\ g1 \in Request /\ g1.pc = "scope"
      /\ g1.token = g.token /\ g1.server = g.server
  BY DEF Request
<1>2. /\ g2 \in Request /\ g2.pc = g1.pc /\ g2.claims = sub
      /\ g2.token = g1.token /\ g2.server = g1.server
  <2> HIDE DEF g1
  <2>1. QED BY <1>1 DEF Request
<1>3. /\ g3 \in Request /\ g3.pc = g2.pc /\ g3.claims = g2.claims /\ g3.orUser = id
      /\ g3.token = g2.token /\ g3.server = g2.server
  <2> HIDE DEF g2
  <2>1. QED BY <1>2 DEF Request
<1>4. Attached(g, sub, id) = g3 BY DEF Attached, Layers
<1>5. QED BY <1>1, <1>2, <1>3, <1>4

(* What is attached is what the call answered, for the sub it was for.     *)
LEMMA ProvisionedKeeps ==
  ASSUME RequestsOK, IInv, NEW p \in Callers, Provisioned(p)
  PROVE  RequestsOK'
<1>0. /\ At(p, "provision") /\ Alive(p) /\ server' = server /\ EndUpsert(p)
      /\ RequestOK(p) /\ gate[p] \in Request /\ TypeOK
  BY DEF Provisioned, startupVars, RequestsOK, IInv
<1>1. /\ up'[p].pc = "idle" /\ orUser' = orUser
      /\ \A q \in Callers \ {p} : up'[q] = up[q]
  BY <1>0, EndUpsertEffect
<1>2. CASE Answer(p, 500) BY <1>0, <1>1, <1>2, AnswerKeeps
<1>3. CASE up[p].ret = "ok" /\ Become(p, Attached(gate[p], gate[p].token.sub, up[p].id))
  <2> DEFINE r == Attached(gate[p], gate[p].token.sub, up[p].id)
  <2>1. /\ InOrder(gate[p].token) /\ up[p].sub = gate[p].token.sub /\ Enforces(p)
        /\ gate[p].server \in Servers /\ up[p] \in Upsert
    BY <1>0 DEF RequestOK, TypeOK, At
  <2>2. gate[p].token.sub \in Subs /\ up[p].id \in UserIds /\ gate[p].token.sub # NoSub
    BY <2>1, NoneAssumption DEF Upsert
  <2>4. /\ r \in Request /\ r.pc = "scope"
        /\ r.claims = gate[p].token.sub /\ r.orUser = up[p].id
        /\ r.token = gate[p].token /\ r.server = gate[p].server
    BY <1>0, <2>2, AttachedTyped
  <2>5. gate'[p] = r BY <1>3 DEF Become, RequestsOK
  <2> HIDE DEF r
  <2>6. [id |-> r.orUser, sub |-> r.token.sub] \in orUser
    BY <1>3, <2>1, <2>4 DEF IInv, AnswersAgree
  <2>7. RequestOK(p)'
    BY <1>0, <1>1, <2>1, <2>2, <2>4, <2>5, <2>6
    DEF RequestOK, At, Alive, Enforces, InPhase
  <2>8. QED BY <1>0, <1>1, <1>3, <2>7, OneRequestMoves
<1>4. QED BY <1>2, <1>3 DEF Provisioned

LEMMA RequireScopeKeeps ==
  ASSUME RequestsOK, TypeOK, NEW p \in Callers, RequireScope(p) \/ Handle(p)
  PROVE  RequestsOK'
<1>1. /\ Alive(p) /\ server' = server /\ orUser' = orUser /\ up' = up
      /\ At(p, "scope") \/ At(p, "handler")
  BY DEF RequireScope, Handle, vars, startupVars
<1>2. up[p].pc = "idle" BY <1>1 DEF RequestsOK, RequestOK, At
<1>3. CASE At(p, "scope") /\ Proceed(p, Layers.scope)
  <2>1. Layers.scope = "handler" BY DEF Layers
  <2>2. Proceed(p, "handler") BY <1>3, <2>1
  <2>3. QED BY <1>1, <1>3, <2>2, ProceedKeeps
<1>4. CASE \E status \in {200, 403, 500} : Answer(p, status)
  BY <1>1, <1>2, <1>4, AnswerKeeps
<1>5. QED BY <1>3, <1>4 DEF RequireScope, Handle

LEMMA DropKeeps ==
  ASSUME RequestsOK, TypeOK, NEW p \in Callers, Drop(p)
  PROVE  RequestsOK'
<1>1. /\ up'[p].pc = "idle" /\ orUser' = orUser /\ server' = server
      /\ \A q \in Callers \ {p} : up'[q] = up[q]
  BY EndUpsertEffect DEF Drop, startupVars
<1>2. NoRequest.pc = "idle" /\ NoRequest.claims = NoSub BY DEF NoRequest
<1>3. gate'[p] = NoRequest BY DEF Drop, Become, RequestsOK
<1>4. RequestOK(p)' BY <1>1, <1>2, <1>3, NoRequestTyped DEF RequestOK, At
<1>5. QED BY <1>1, <1>4, OneRequestMoves DEF Drop

(* What a query of a call may change.                                      *)
LEMMA UpsertEffect ==
  ASSUME TypeOK, NEW p \in Callers, UpsertQuery(p) \/ FailUpsert(p)
  PROVE  /\ up[p].pc # "idle" /\ up'[p].sub = up[p].sub
         /\ \A q \in Callers \ {p} : up'[q] = up[q]
         /\ orUser \subseteq orUser'
         /\ orUser' \subseteq orUser \cup [id : UserIds, sub : {up[p].sub}]
<1> USE DEF TypeOK
<1>0. ASSUME NEW id \in UserIds,
             \/ AnswerOk(p, id) \/ AnswerErr(p, "error") \/ AnswerErr(p, "malformed")
             \/ Goto(p, "recover")
             \/ up' = [up EXCEPT ![p].pc = "create", ![p].id = id]
             \/ up' = [up EXCEPT ![p].pc = "recover", ![p].lostRace = TRUE]
      PROVE  up'[p].sub = up[p].sub /\ \A q \in Callers \ {p} : up'[q] = up[q]
  BY <1>0 DEF Upsert, AnswerOk, AnswerErr, Goto
<1>1. up[p].id \in UserIds BY DEF Upsert
<1>2. CASE Lookup(p)
  BY <1>0, <1>1, <1>2 DEF Lookup, Rows
<1>3. CASE CreateUser(p)
  <2>1. up'[p].sub = up[p].sub /\ \A q \in Callers \ {p} : up'[q] = up[q]
    BY <1>0, <1>1, <1>3 DEF CreateUser
  <2>2. orUser' = orUser \/ orUser' = orUser \cup {[id |-> up[p].id, sub |-> up[p].sub]}
    BY <1>3 DEF CreateUser
  <2>3. QED BY <1>1, <1>3, <2>1, <2>2 DEF CreateUser
<1>4. CASE Recover(p) BY <1>0, <1>1, <1>4 DEF Recover, Rows
<1>5. CASE FailUpsert(p) BY <1>0, <1>1, <1>5 DEF FailUpsert
<1>6. QED BY <1>2, <1>3, <1>4, <1>5 DEF UpsertQuery

LEMMA QueryKeeps ==
  ASSUME RequestsOK, TypeOK, UsersWereVouchedFor, NEW p \in Callers, Query(p) \/ QueryFails(p)
  PROVE  RequestsOK' /\ UsersWereVouchedFor'
<1>0. /\ At(p, "provision") /\ gate' = gate /\ server' = server
      /\ UpsertQuery(p) \/ FailUpsert(p)
  BY DEF Query, QueryFails, startupVars
<1>1. /\ up'[p].sub = up[p].sub /\ \A q \in Callers \ {p} : up'[q] = up[q]
      /\ orUser \subseteq orUser'
      /\ orUser' \subseteq orUser \cup [id : UserIds, sub : {up[p].sub}]
  BY <1>0, UpsertEffect
<1>2. RequestOK(p)'
  BY <1>0, <1>1 DEF RequestsOK, RequestOK, At, Alive, Enforces, InPhase
<1>3. Become(p, gate[p]) BY <1>0 DEF Become, RequestsOK
<1>4. RequestsOK' BY <1>0, <1>1, <1>2, <1>3, OneRequestMoves
<1>5. InOrder(gate[p].token) /\ up[p].sub = gate[p].token.sub
  BY <1>0 DEF RequestsOK, RequestOK
<1>6. \E t \in Tokens : t.sub = up[p].sub /\ t.valid /\ t.kid # NoKid
  BY <1>5 DEF InOrder
<1>7. UsersWereVouchedFor' BY <1>1, <1>6 DEF UsersWereVouchedFor
<1>8. QED BY <1>4, <1>7

-----------------------------------------------------------------------------
(* A step of a server, and what it leaves to the requests.                 *)
LEMMA ServerStep ==
  ASSUME GInv, NEW n \in Servers,
         \/ Boot(n) \/ Fall(n) \/ \E env \in Envs : Deploy(n, env)
  PROVE  [Next]_vars /\ ServersOK' /\ RequestsOK' /\ orUser' = orUser
<1> USE DEF GInv
<1>1. CASE Boot(n)
  <2>1. ServersOK' /\ server[n].phase \in Booting /\ gate' = gate
    BY <1>1, BootStepKeeps DEF Boot
  <2>2. DefineIndex \/ UNCHANGED vars
    BY <1>1 DEF Boot, BootStep, Connect, ApplySchema, ResolveAuth, FetchJwks, ResolveStorage,
                Bind
  <2>3. orUser' = orUser /\ up' = up BY <2>2 DEF DefineIndex, vars
  <2>4. \E s : Step(n, s)
    BY <1>1 DEF Boot, BootStep, Connect, ApplySchema, ResolveAuth, FetchJwks, ResolveStorage,
                Bind, Advance
  <2>5. \A p \in Callers : ~At(p, "idle") => gate[p].server # n
    BY <2>1 DEF RequestsOK, RequestOK, InPhase, Booting
  <2>6. RequestsOK' BY <2>1, <2>3, <2>4, <2>5, OneServerMoves
  <2>7. [Next]_vars BY <2>2 DEF Next
  <2>8. QED BY <2>1, <2>3, <2>6, <2>7
<1>2. CASE Fall(n)
  <2>1. ServersOK' /\ UNCHANGED vars /\ gate' = gate /\ Step(n, Gone)
    BY <1>2, StopKeeps DEF Fall, Stop
  <2>2. orUser' = orUser /\ up' = up BY <2>1 DEF vars
  <2>3. RequestsOK' BY <2>1, <2>2, GoneTyped, OneServerMoves
  <2>4. QED BY <2>1, <2>2, <2>3
<1>3. ASSUME NEW env \in Envs, Deploy(n, env)
      PROVE  [Next]_vars /\ ServersOK' /\ RequestsOK' /\ orUser' = orUser
  <2>1. /\ Launch(n, env) /\ gate' = gate /\ UNCHANGED vars /\ Step(n, Fresh(env))
        /\ \A p \in Callers : gate[p].server # n
    BY <1>3 DEF Deploy, Launch
  <2>2. orUser' = orUser /\ up' = up BY <2>1 DEF vars
  <2>3. ServersOK' BY <2>1, LaunchKeeps
  <2>4. RequestsOK' BY <2>1, <2>2, OneServerMoves
  <2>5. QED BY <2>1, <2>2, <2>3, <2>4
<1>4. QED BY <1>1, <1>2, <1>3

(* A step of a request, and what it leaves to the servers.                 *)
LEMMA RequestStep ==
  ASSUME GInv, NEW p \in Callers,
         \/ \E n \in Servers, t \in Tokens \cup {NoToken}, r \in Routers : Arrive(p, n, t, r)
         \/ Progress(p) \/ QueryFails(p) \/ Drop(p)
  PROVE  [Next]_vars /\ UNCHANGED startupVars /\ RequestsOK' /\ UsersWereVouchedFor'
<1> USE DEF GInv
<1>0. TypeOK BY DEF IInv
<1>1. ASSUME orUser' = orUser PROVE UsersWereVouchedFor' BY <1>1 DEF UsersWereVouchedFor
<1>2. CASE \E n \in Servers, t \in Tokens \cup {NoToken}, r \in Routers : Arrive(p, n, t, r)
  BY <1>1, <1>2, ArriveKeeps DEF Arrive, vars
<1>3. CASE VerifyJwt(p)
  <2>1. UNCHANGED vars \/ (StartUpsert(p, gate[p].token.sub) /\ gate[p].token.sub \in Subs)
    <3>1. gate[p] \in Request BY DEF RequestsOK
    <3>3. gate[p].pc = "verify" BY <1>3 DEF VerifyJwt, At
    <3>5. RequestOK(p) BY DEF RequestsOK
    <3>6. gate[p].server \in Servers BY <3>3, <3>5 DEF RequestOK, At
    <3>4. gate[p].server \in Servers /\ gate[p].token \in Tokens \cup {NoToken}
      BY <3>1, <3>6 DEF Request
    <3>2. QED BY <1>3, <3>4, VerdictOfTokens DEF VerifyJwt
  <2>2. orUser' = orUser /\ [Next]_vars BY <2>1 DEF StartUpsert, vars, Next
  <2>3. QED BY <1>0, <1>1, <1>3, <2>2, VerifyJwtKeeps DEF VerifyJwt
<1>4. CASE Provisioned(p)
  <2>1. EndUpsert(p) BY <1>4 DEF Provisioned
  <2>2. orUser' = orUser /\ [Next]_vars BY <2>1 DEF EndUpsert, Next
  <2>3. QED BY <1>1, <1>4, <2>2, ProvisionedKeeps DEF Provisioned
<1>5. CASE RequireScope(p) \/ Handle(p)
  BY <1>0, <1>1, <1>5, RequireScopeKeeps DEF RequireScope, Handle, vars
<1>6. CASE Drop(p)
  <2>1. EndUpsert(p) BY <1>6 DEF Drop
  <2>2. orUser' = orUser /\ [Next]_vars BY <2>1 DEF EndUpsert, Next
  <2>3. QED BY <1>0, <1>1, <1>6, <2>2, DropKeeps DEF Drop
<1>7. CASE Query(p) \/ QueryFails(p)
  <2>1. [Next]_vars BY <1>7 DEF Query, QueryFails, Next
  <2>2. QED BY <1>0, <1>7, <2>1, QueryKeeps DEF Query, QueryFails
<1>8. QED BY <1>2, <1>3, <1>4, <1>5, <1>6, <1>7 DEF Progress

LEMMA GInvInitially == GateInit => GInv
<1> SUFFICES ASSUME GateInit PROVE GInv OBVIOUS
<1>1. IInv /\ UsersWereVouchedFor
  BY IInvInitially DEF GateInit, Init, UsersWereVouchedFor
<1>2. ServersOK
  BY GoneTyped DEF GateInit, StartupInit, ServersOK, StartupTypeOK, WholeSoFar
<1>3. NoRequest.pc = "idle" /\ NoRequest.claims = NoSub BY DEF NoRequest
<1>4. NoCall.pc = "idle" BY DEF NoCall
<1>5. RequestsOK
  BY <1>3, <1>4, NoRequestTyped DEF GateInit, Init, RequestsOK, RequestOK, At
<1>6. QED BY <1>1, <1>2, <1>5 DEF GInv

LEMMA GateStep ==
  ASSUME GInv, [GateNext]_gateVars
  PROVE  GInv' /\ [Next]_vars
<1>1. CASE \E n \in Servers : Boot(n) \/ Fall(n) \/ \E env \in Envs : Deploy(n, env)
  <2>1. [Next]_vars /\ ServersOK' /\ RequestsOK' /\ orUser' = orUser
    BY <1>1, ServerStep
  <2>2. QED BY <2>1, IInvStep DEF GInv, UsersWereVouchedFor
<1>2. CASE \E p \in Callers :
             \/ \E n \in Servers, t \in Tokens \cup {NoToken}, r \in Routers : Arrive(p, n, t, r)
             \/ Progress(p) \/ QueryFails(p) \/ Drop(p)
  <2>1. [Next]_vars /\ UNCHANGED startupVars /\ RequestsOK' /\ UsersWereVouchedFor'
    BY <1>2, RequestStep
  <2>2. ServersOK' BY <2>1 DEF GInv, ServersOK, StartupTypeOK, startupVars, WholeSoFar
  <2>3. QED BY <2>1, <2>2, IInvStep DEF GInv
<1>3. CASE (RotateKeys /\ UNCHANGED gate) \/ UNCHANGED gateVars
  <2>1. UNCHANGED vars /\ UNCHANGED <<server, gate>> /\ (tenant' \in KeySets \/ tenant' = tenant)
    BY <1>3 DEF RotateKeys, gateVars, startupVars
  <2>2. ServersOK' BY <2>1 DEF GInv, ServersOK, StartupTypeOK
  <2>3. RequestsOK' /\ UsersWereVouchedFor'
    BY <2>1 DEF GInv, RequestsOK, RequestOK, UsersWereVouchedFor, At, Alive, Enforces, InPhase,
                vars
  <2>4. QED BY <2>1, <2>2, <2>3, IInvStep DEF GInv
<1>4. QED BY <1>1, <1>2, <1>3 DEF GateNext

-----------------------------------------------------------------------------
(* Each step of the gate is a step of Provisioning or none: the layers     *)
(* reach the table only through upsert_or_user, and call it as it may be   *)
(* called, whatever servers start and stop meanwhile.                      *)
THEOREM GateImplementsProvisioning == GateSpec => ImplementsProvisioning
<1>1. GateInit => Init BY DEF GateInit
<1>2. GInv /\ [GateNext]_gateVars => GInv' /\ [Next]_vars BY GateStep
<1>3. QED BY <1>1, <1>2, GInvInitially, PTL DEF GateSpec, ImplementsProvisioning, Spec

(* So what is proved of parallel calls holds behind the gate: one sub is   *)
(* one user, also with servers that started without the index.             *)
THEOREM OneSubOneUserBehindTheGate == GateSpec => [](TypeOK /\ AnswersAgree)
BY GateImplementsProvisioning, OneSubOneUser DEF ImplementsProvisioning

(* Every value of every variable is of its type.                           *)
THEOREM GateTypes == GateSpec => []GateTypeOK
<1>1. GInv => GateTypeOK BY DEF GInv, IInv, ServersOK, RequestsOK, GateTypeOK
<1>2. GInv /\ [GateNext]_gateVars => GInv' BY GateStep
<1>3. QED BY <1>1, <1>2, GInvInitially, PTL DEF GateSpec

(* main fails closed: a server that listens enforces tokens, or has a      *)
(* store, exactly if a variable of theirs is set, and never by halves.     *)
THEOREM ServersFailClosed == GateSpec => []ServersAreWholeOrNot
<1>1. GInv => ServersAreWholeOrNot
  BY DEF GInv, ServersOK, WholeSoFar, AuthSettled, StorageSettled, ServersAreWholeOrNot, InPhase
<1>2. GInv /\ [GateNext]_gateVars => GInv' BY GateStep
<1>3. QED BY <1>1, <1>2, GInvInitially, PTL DEF GateSpec

(* The layers compose: behind an enforcing server's verify_jwt_middleware  *)
(* no request is without claims, and the user attached to it is the row of *)
(* its token's sub.                                                        *)
THEOREM AdmissionIsProvisioned == GateSpec => []AdmittedAreProvisioned
<1>1. GInv => AdmittedAreProvisioned
  BY DEF GInv, RequestsOK, RequestOK, AdmittedAreProvisioned
<1>2. GInv /\ [GateNext]_gateVars => GInv' BY GateStep
<1>3. QED BY <1>1, <1>2, GInvInitially, PTL DEF GateSpec

(* No user without a token that was in order.                              *)
THEOREM UsersAreVouchedFor == GateSpec => []UsersWereVouchedFor
<1>1. GInv => UsersWereVouchedFor BY DEF GInv
<1>2. GInv /\ [GateNext]_gateVars => GInv' BY GateStep
<1>3. QED BY <1>1, <1>2, GInvInitially, PTL DEF GateSpec
=============================================================================
