--------------------------- MODULE Provisioning ---------------------------
(***************************************************************************)
(* SurrealRecordRepository::upsert_or_user: the auth middleware calls it on*)
(* every authenticated request, to look up or create the or_user row of    *)
(* the token's auth0_sub.  Parallel first requests of one sub race for the *)
(* UNIQUE index of the table; the loser selects again.                     *)
(*                                                                         *)
(* The index is defined by schema::apply when a server starts, and nobody  *)
(* looks at the answer to that statement: the server may go on without it. *)
(*                                                                         *)
(* Rows of or_user are never updated or deleted by this code; created_at   *)
(* is left out.                                                            *)
(***************************************************************************)
EXTENDS Naturals

CONSTANTS
  Callers,   \* the requests that are being authenticated
  Subs,      \* auth0_sub values
  UserIds    \* UUIDs of or_user rows: a bound on those minted in a run

ASSUME SubsAssumption    == Subs # {}
ASSUME UserIdsAssumption == UserIds # {}

VARIABLES
  orUser,   \* table or_user: rows [id, sub]
  indexed,  \* idx_or_user_auth0_sub is defined
  minted,   \* the UUIDs minted so far
  up        \* up[p]: the call of p -- where it waits, its locals, its answer

vars == <<orUser, indexed, minted, up>>

Upsert == [pc : {"idle", "lookup", "create", "recover"}, sub : Subs, id : UserIds,
           lostRace : BOOLEAN, ret : {"none", "ok", "malformed", "error"}]

NoCall == [pc |-> "idle", sub |-> CHOOSE s \in Subs : TRUE,
           id |-> CHOOSE u \in UserIds : TRUE, lostRace |-> FALSE, ret |-> "none"]

Init ==
  /\ orUser = {} /\ indexed = FALSE /\ minted = {}
  /\ up = [p \in Callers |-> NoCall]

Rows(sub) == {r \in orUser : r.sub = sub}
Goto(p, pc) == up' = [up EXCEPT ![p].pc = pc]
AnswerOk(p, id) == up' = [up EXCEPT ![p].pc = "idle", ![p].id = id, ![p].ret = "ok"]
AnswerErr(p, ret) == up' = [up EXCEPT ![p].pc = "idle", ![p].ret = ret]

StartUpsert(p, sub) ==
  /\ up[p].pc = "idle"
  /\ up' = [up EXCEPT ![p] = [pc |-> "lookup", sub |-> sub, id |-> up[p].id,
                              lostRace |-> FALSE, ret |-> "none"]]
  /\ UNCHANGED <<orUser, indexed, minted>>

(* The SELECT of the hot path; on a miss a UUID is minted.                 *)
Lookup(p) ==
  /\ up[p].pc = "lookup"
  /\ \/ \E r \in Rows(up[p].sub) : AnswerOk(p, r.id) /\ UNCHANGED minted
     \/ /\ Rows(up[p].sub) = {}
        /\ \E new \in UserIds \ minted :
             /\ up' = [up EXCEPT ![p].pc = "create", ![p].id = new]
             /\ minted' = minted \cup {new}
  /\ UNCHANGED <<orUser, indexed>>

(* CREATE.  The answer to one that took effect may be lost; one that was   *)
(* rejected, by the UNIQUE index or for any other reason, leads to the     *)
(* second SELECT.                                                          *)
CreateUser(p) ==
  /\ up[p].pc = "create"
  /\ \/ /\ indexed => Rows(up[p].sub) = {}
        /\ orUser' = orUser \cup {[id |-> up[p].id, sub |-> up[p].sub]}
        /\ AnswerOk(p, up[p].id) \/ AnswerErr(p, "error")
     \/ /\ indexed /\ Rows(up[p].sub) # {}
        /\ up' = [up EXCEPT ![p].pc = "recover", ![p].lostRace = TRUE]
        /\ UNCHANGED orUser
     \/ Goto(p, "recover") /\ UNCHANGED orUser
  /\ UNCHANGED <<indexed, minted>>

(* Mutant: the second SELECT looks for the id, not the sub.                *)
RecoverById(p) ==
  /\ up[p].pc = "recover"
  /\ LET rows == {r \in orUser : r.id = up[p].id} IN
     \/ \E r \in rows : AnswerOk(p, r.id)
     \/ rows = {} /\ AnswerErr(p, "malformed")
  /\ UNCHANGED <<orUser, indexed, minted>>

(* The second SELECT.                                                      *)
Recover(p) ==
  /\ up[p].pc = "recover"
  /\ \/ \E r \in Rows(up[p].sub) : AnswerOk(p, r.id)
     \/ Rows(up[p].sub) = {} /\ AnswerErr(p, "malformed")
  /\ UNCHANGED <<orUser, indexed, minted>>

(* Any query fails on its way.                                             *)
FailUpsert(p) ==
  /\ up[p].pc # "idle"
  /\ AnswerErr(p, "error")
  /\ UNCHANGED <<orUser, indexed, minted>>

(* The future of the call is dropped: it has been awaited to its end, or   *)
(* the request is dropped where it waits.                                  *)
EndUpsert(p) ==
  /\ up' = [up EXCEPT ![p] = NoCall]
  /\ UNCHANGED <<orUser, indexed, minted>>

OneRowEach == \A r, s \in orUser : r.sub = s.sub => r = s

(* Mutant: the index is taken as defined, whatever rows are there.         *)
DefineIndexBlindly ==
  /\ indexed' \in {indexed, TRUE}
  /\ UNCHANGED <<orUser, minted, up>>

(* DEFINE INDEX OVERWRITE ... UNIQUE, of the last batch of schema::apply.  *)
(* The database rejects it over rows that collide, and may reject it for   *)
(* reasons of its own; the definition of an earlier start then stands.     *)
DefineIndex ==
  /\ \/ OneRowEach /\ indexed' = TRUE
     \/ UNCHANGED indexed
  /\ UNCHANGED <<orUser, minted, up>>

(* The next query of a call is answered.                                   *)
UpsertQuery(p) == Lookup(p) \/ CreateUser(p) \/ Recover(p)

Next ==
  \/ DefineIndex
  \/ \E p \in Callers :
       (\E s \in Subs : StartUpsert(p, s)) \/ UpsertQuery(p) \/ FailUpsert(p) \/ EndUpsert(p)

Spec == Init /\ [][Next]_vars

-----------------------------------------------------------------------------
TypeOK ==
  /\ orUser \subseteq [id : UserIds, sub : Subs]
  /\ indexed \in BOOLEAN
  /\ minted \subseteq UserIds
  /\ up \in [Callers -> Upsert]

(* Whoever is answered Ok is answered with a row of its sub, ids are not   *)
(* shared, and one sub is one user from the moment the index is there: in  *)
(* whatever order parallel first requests look up, create, collide, fail   *)
(* and recover, also with servers that started without the index.          *)
AnswersAgree ==
  /\ \A p \in Callers : up[p].ret = "ok" => [id |-> up[p].id, sub |-> up[p].sub] \in orUser
  /\ \A r, s \in orUser : r.id = s.id => r = s
  /\ indexed => OneRowEach

(* repository.rs:489-491 "structural impossibility": a caller that lost    *)
(* the race for the index finds the winner's row.                          *)
RaceLosersRecover ==
  \A p \in Callers : up[p].lostRace => up[p].ret # "malformed"
=============================================================================
