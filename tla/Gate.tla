-------------------------------- MODULE Gate --------------------------------
(***************************************************************************)
(* build_router and the two middlewares of auth.rs: what a request to      *)
(* /records or /assets passes before its handler runs.                     *)
(*                                                                         *)
(*   verify_jwt_middleware:  401 | upsert_or_user (500) | pass             *)
(*   require_scope:          403 | 500 without claims   | pass             *)
(*   the handler                                                           *)
(*                                                                         *)
(* A server without state.auth passes everything.  GET /health has no      *)
(* layers and no state, and is left out; what the handlers do is in        *)
(* RecordsApi.                                                             *)
(*                                                                         *)
(* A token is what its verification tells apart: the key it names, whether *)
(* signature, audience, issuer and expiry are all right, its sub and its   *)
(* scopes.  NoToken is a request whose Authorization header is missing or  *)
(* is not "Bearer ...".                                                    *)
(***************************************************************************)
EXTENDS Startup, FiniteSets

CONSTANTS
  Tokens,      \* the tokens that clients present
  NoToken,     \* no bearer token
  NoKid,       \* a token whose header names no key
  NoServer,    \* the request is at no server
  NoSub,       \* no Claims extension
  NoUser       \* no OrUser extension

Scopes == {"objectrecords:read", "objectrecords:write"}
Routers == {"records", "assets"}
Token == [sub : Subs, kid : Keys \cup {NoKid}, valid : BOOLEAN, scope : SUBSET Scopes]

ASSUME TokensAssumption == Tokens \subseteq Token /\ NoToken \notin Tokens
ASSUME NoneAssumption   == NoSub \notin Subs /\ NoUser \notin UserIds
ASSUME ServersAssumption == NoServer \notin Servers

VARIABLE gate   \* gate[p]: the request p on its way to a handler

gateVars == <<vars, startupVars, gate>>

Request == [pc : {"idle", "verify", "provision", "scope", "handler"},
            server : Servers \cup {NoServer}, router : Routers,
            token : Tokens \cup {NoToken}, claims : Subs \cup {NoSub},
            orUser : UserIds \cup {NoUser}, status : {0, 200, 401, 403, 500}]

NoRequest == [pc |-> "idle", server |-> NoServer, router |-> "records", token |-> NoToken,
              claims |-> NoSub, orUser |-> NoUser, status |-> 0]

GateInit == Init /\ StartupInit /\ gate = [p \in Callers |-> NoRequest]

At(p, pc) == gate[p].pc = pc
Become(p, r) == gate' = [gate EXCEPT ![p] = r]
Proceed(p, pc) == Become(p, [gate[p] EXCEPT !.pc = pc])

(* All that is left of a request is its answer.                            *)
Answer(p, status) == Become(p, [NoRequest EXCEPT !.status = status])

(* The server that p is at, while it lives: what it enforces.              *)
Alive(p) == gate[p].server # NoServer /\ InPhase(gate[p].server, "serving")
Enforces(p) == server[gate[p].server].auth = "some"

(* build_router adds verify_jwt_middleware last, so that it runs first.    *)
Layers == [arrival |-> "verify", verify |-> "scope", scope |-> "handler"]

(* The bound on UUIDs must not stop a request half-way: one is accepted    *)
(* only if it, and all that are on their way, may still mint one.          *)
RoomForUser ==
  Cardinality({p \in Callers : At(p, "verify") \/ up[p].pc = "lookup"})
    < Cardinality(UserIds \ minted)

Arrive(p, n, token, router) ==
  /\ At(p, "idle") /\ InPhase(n, "serving") /\ RoomForUser
  /\ Become(p, [pc |-> Layers.arrival, server |-> n, router |-> router, token |-> token,
                claims |-> NoSub, orUser |-> NoUser, status |-> 0])
  /\ UNCHANGED <<vars, startupVars>>

-----------------------------------------------------------------------------
(* Mutant: the signature and the claims are not looked at.                 *)
VerdictByKid(n, token) ==
  CASE token = NoToken               -> "Missing"
    [] token.kid = NoKid             -> "NoKid"
    [] token.kid \notin server[n].jwks -> "UnknownKid"
    [] OTHER                         -> "Ok"

(* extract_bearer and Auth0Verifier::verify.                               *)
Verdict(n, token) ==
  CASE token = NoToken                 -> "Missing"
    [] token.kid = NoKid               -> "NoKid"
    [] token.kid \notin server[n].jwks -> "UnknownKid"
    [] ~token.valid                    -> "InvalidToken"
    [] OTHER                           -> "Ok"

(* verify_jwt_middleware up to its await ...                               *)
VerifyJwt(p) ==
  /\ At(p, "verify") /\ Alive(p)
  /\ \/ ~Enforces(p) /\ Proceed(p, Layers.verify) /\ UNCHANGED vars
     \/ /\ Enforces(p) /\ Verdict(gate[p].server, gate[p].token) # "Ok"
        /\ Answer(p, 401)
        /\ UNCHANGED vars
     \/ /\ Enforces(p) /\ Verdict(gate[p].server, gate[p].token) = "Ok"
        /\ Proceed(p, "provision")
        /\ StartUpsert(p, gate[p].token.sub)
  /\ UNCHANGED startupVars

(* The Claims and OrUser extensions.                                       *)
Attached(r, sub, id) == [r EXCEPT !.pc = Layers.verify, !.claims = sub, !.orUser = id]

(* Mutant: a request whose upsert failed goes on.                          *)
ProvisionedOrNot(p) ==
  /\ At(p, "provision") /\ Alive(p) /\ up[p].pc = "idle"
  /\ Become(p, Attached(gate[p], gate[p].token.sub, up[p].id))
  /\ EndUpsert(p)
  /\ UNCHANGED startupVars

(* Mutant: the sub is attached in place of the UUID.                       *)
ProvisionedBySub(p) ==
  /\ At(p, "provision") /\ Alive(p) /\ up[p].pc = "idle" /\ up[p].ret = "ok"
  /\ Become(p, Attached(gate[p], gate[p].token.sub, up[p].sub))
  /\ EndUpsert(p)
  /\ UNCHANGED startupVars

(* ... and after it: Claims and OrUser are attached to the request.        *)
Provisioned(p) ==
  /\ At(p, "provision") /\ Alive(p) /\ up[p].pc = "idle"
  /\ \/ up[p].ret # "ok" /\ Answer(p, 500)
     \/ /\ up[p].ret = "ok"
        /\ Become(p, Attached(gate[p], gate[p].token.sub, up[p].id))
  /\ EndUpsert(p)
  /\ UNCHANGED startupVars

(* The scope of a router: all of /records is behind the read scope.        *)
ScopeOf(router) ==
  IF router = "records" THEN "objectrecords:read" ELSE "objectrecords:write"

HasScope(p) ==
  gate[p].claims # NoSub /\ ScopeOf(gate[p].router) \in gate[p].token.scope

RequireScope(p) ==
  /\ At(p, "scope") /\ Alive(p)
  /\ \/ ~Enforces(p) /\ Proceed(p, Layers.scope)
     \/ Enforces(p) /\ HasScope(p) /\ Proceed(p, Layers.scope)
     \/ /\ Enforces(p) /\ ~HasScope(p)
        /\ Answer(p, IF gate[p].claims = NoSub THEN 500 ELSE 403)
  /\ UNCHANGED <<vars, startupVars>>

(* The handler runs and answers.                                           *)
Handle(p) ==
  /\ At(p, "handler") /\ Alive(p)
  /\ Answer(p, 200)
  /\ UNCHANGED <<vars, startupVars>>

(* The client goes away, or the server of the request does.                *)
Drop(p) ==
  /\ ~At(p, "idle")
  /\ Become(p, NoRequest)
  /\ EndUpsert(p)
  /\ UNCHANGED startupVars

(* A query of upsert_or_user is answered, or fails.                        *)
Query(p) ==
  /\ At(p, "provision") /\ Alive(p)
  /\ UpsertQuery(p)
  /\ UNCHANGED <<startupVars, gate>>

QueryFails(p) ==
  /\ At(p, "provision") /\ Alive(p)
  /\ FailUpsert(p)
  /\ UNCHANGED <<startupVars, gate>>

-----------------------------------------------------------------------------
(* A server is launched anew only after the requests of the one before it  *)
(* are gone.                                                               *)
Deploy(n, env) ==
  /\ \A p \in Callers : gate[p].server # n
  /\ Launch(n, env)
  /\ UNCHANGED gate

Boot(n) == BootStep(n) /\ UNCHANGED gate
Fall(n) == Stop(n) /\ UNCHANGED gate

(* A request takes its next step.                                          *)
Progress(p) ==
  VerifyJwt(p) \/ Query(p) \/ Provisioned(p) \/ RequireScope(p) \/ Handle(p)

GateNext ==
  \/ \E n \in Servers : Boot(n) \/ Fall(n) \/ \E env \in Envs : Deploy(n, env)
  \/ RotateKeys /\ UNCHANGED gate
  \/ \E p \in Callers :
       \/ \E n \in Servers, t \in Tokens \cup {NoToken}, r \in Routers : Arrive(p, n, t, r)
       \/ Progress(p) \/ QueryFails(p) \/ Drop(p)

GateSpec == GateInit /\ [][GateNext]_gateVars

-----------------------------------------------------------------------------
GateTypeOK ==
  /\ TypeOK /\ StartupTypeOK
  /\ gate \in [Callers -> Request]

(* The layers compose to what each assumes of the others.  The scope check *)
(* of an enforcing server never finds a request without claims, and the    *)
(* user attached to a request is in the table under its own token's sub.   *)
AdmittedAreProvisioned ==
  \A p \in Callers :
    /\ Alive(p) /\ (At(p, "scope") \/ At(p, "handler")) =>
         (Enforces(p) <=> gate[p].claims # NoSub)
    /\ gate[p].claims # NoSub =>
         [id |-> gate[p].orUser, sub |-> gate[p].token.sub] \in orUser

(* No row without a sub that the tenant vouched for: whatever requests     *)
(* arrive, also at servers without enforcement, which come and go beside   *)
(* the others, the table knows only subs of tokens that were in order.     *)
UsersWereVouchedFor ==
  \A r \in orUser : \E t \in Tokens : t.sub = r.sub /\ t.valid /\ t.kid # NoKid

(* Each step of the gate is a step of Provisioning, or none: no layer      *)
(* touches the table but through upsert_or_user, one call of it at a time. *)
ImplementsProvisioning == Spec
=============================================================================
