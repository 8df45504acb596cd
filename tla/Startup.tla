------------------------------ MODULE Startup ------------------------------
(***************************************************************************)
(* main of crate objectrecords-api: how a server comes to listen.          *)
(*                                                                         *)
(*   connect -> schema -> auth -> jwks -> storage -> bind -> serving       *)
(*                                                                         *)
(* where jwks is passed over when no OBJECTRECORDS_AUTH0_* is set.         *)
(*                                                                         *)
(* Several servers may run over one database, as when a new one is rolled  *)
(* out beside the old one.  Each step is one await of main with the local  *)
(* code that follows it.  Any await may fail, and then main returns its    *)
(* error; a server may also crash at any time.  Both are Stop.             *)
(*                                                                         *)
(* What a server reads from outside, it reads once: its environment, and   *)
(* the key set that the Auth0 tenant publishes at that moment.             *)
(*                                                                         *)
(* Tables other than or_user do not depend on their definitions here, and  *)
(* the values of the variables of the environment are left out.            *)
(***************************************************************************)
EXTENDS Provisioning

CONSTANTS
  Servers,   \* the processes that may run main
  Envs,      \* the environments that a server may be deployed with
  Keys,      \* signing keys of the tenant
  KeySets    \* the sets of them that it may publish

AuthVars    == {"AUTH0_AUDIENCE", "AUTH0_ISSUER", "AUTH0_JWKS_URL"}
StorageVars == {"S3_ENDPOINT", "S3_BUCKET", "S3_ACCESS_KEY", "S3_SECRET_KEY"}

(* The variables of an environment that are set and not blank.             *)
Env == [auth : SUBSET AuthVars, storage : SUBSET StorageVars]

ASSUME EnvsAssumption    == Envs \subseteq Env /\ Envs # {}
ASSUME KeySetsAssumption == KeySets \subseteq SUBSET Keys

VARIABLES
  server,   \* server[n]: how far n has come, its environment and AppState
  tenant    \* the keys that the tenant publishes

startupVars == <<server, tenant>>

Booting == {"connect", "schema", "auth", "jwks", "storage", "bind"}
Phases  == Booting \cup {"down", "serving"}

(* state.auth and state.storage of AppState: None, or Some.                *)
Server == [phase : Phases, env : Envs, auth : {"none", "some"}, jwks : SUBSET Keys,
           storage : {"none", "some"}]

(* The locals of a process that has just begun main.                       *)
Fresh(env) == [phase |-> "connect", env |-> env, auth |-> "none", jwks |-> {},
               storage |-> "none"]

(* A process that is not there keeps nothing.                              *)
Gone == [Fresh(CHOOSE env \in Envs : TRUE) EXCEPT !.phase = "down"]

StartupInit ==
  /\ server = [n \in Servers |-> Gone]
  /\ tenant \in KeySets

InPhase(n, phase) == server[n].phase = phase
Step(n, s) == server' = [server EXCEPT ![n] = s]
Advance(n, phase) == Step(n, [server[n] EXCEPT !.phase = phase])

-----------------------------------------------------------------------------
Launch(n, env) ==
  /\ InPhase(n, "down")
  /\ Step(n, Fresh(env))
  /\ UNCHANGED <<tenant, vars>>

(* ObjectRecordsDb::connect: handshake, signin, use_ns and use_db ...      *)
Connect(n) ==
  /\ InPhase(n, "connect")
  /\ Advance(n, "schema")
  /\ UNCHANGED <<tenant, vars>>

(* Mutant: the table is removed and defined anew.                          *)
ApplySchemaAfresh(n) ==
  /\ InPhase(n, "schema")
  /\ orUser' = {} /\ indexed' = TRUE
  /\ Advance(n, "auth")
  /\ UNCHANGED <<tenant, minted, up>>

(* ... and schema::apply, which sends its statements and never looks at    *)
(* what became of them.                                                    *)
ApplySchema(n) ==
  /\ InPhase(n, "schema")
  /\ DefineIndex
  /\ Advance(n, "auth")
  /\ UNCHANGED tenant

(* Mutant: a partial set is taken for none.                                *)
ResolveAuthLeniently(n) ==
  /\ InPhase(n, "auth")
  /\ Advance(n, IF server[n].env.auth = AuthVars THEN "jwks" ELSE "storage")
  /\ UNCHANGED <<tenant, vars>>

(* auth_env_from_vars: none of the three, or all of them; any other set is *)
(* an error, and all that is left to the process is to Stop.               *)
ResolveAuth(n) ==
  /\ InPhase(n, "auth")
  /\ \/ server[n].env.auth = {} /\ Advance(n, "storage")
     \/ server[n].env.auth = AuthVars /\ Advance(n, "jwks")
  /\ UNCHANGED <<tenant, vars>>

(* The keys are fetched once; there is no refresh.                         *)
FetchJwks(n) ==
  /\ InPhase(n, "jwks")
  /\ Step(n, [server[n] EXCEPT !.phase = "storage", !.auth = "some", !.jwks = tenant])
  /\ UNCHANGED <<tenant, vars>>

(* storage_env_from_vars and S3CompatStorage::from_config, which sends     *)
(* nothing to the store.                                                   *)
ResolveStorage(n) ==
  /\ InPhase(n, "storage")
  /\ \/ server[n].env.storage = {} /\ Advance(n, "bind")
     \/ /\ server[n].env.storage = StorageVars
        /\ Step(n, [server[n] EXCEPT !.phase = "bind", !.storage = "some"])
  /\ UNCHANGED <<tenant, vars>>

Bind(n) ==
  /\ InPhase(n, "bind")
  /\ Advance(n, "serving")
  /\ UNCHANGED <<tenant, vars>>

(* main returns an error, or the process dies; its memory is lost.         *)
Stop(n) ==
  /\ ~InPhase(n, "down")
  /\ Step(n, Gone)
  /\ UNCHANGED <<tenant, vars>>

(* The tenant publishes other keys.                                        *)
RotateKeys ==
  /\ tenant' \in KeySets \ {tenant}
  /\ UNCHANGED <<server, vars>>

BootStep(n) ==
  \/ Connect(n) \/ ApplySchema(n) \/ ResolveAuth(n) \/ FetchJwks(n)
  \/ ResolveStorage(n) \/ Bind(n)

-----------------------------------------------------------------------------
StartupTypeOK ==
  /\ server \in [Servers -> Server]
  /\ tenant \in KeySets

(* Fail closed.  A server that listens enforces tokens if a single Auth0   *)
(* variable was set, and has a store if a single S3 variable was set; it   *)
(* does neither unasked, and nothing is half set.                          *)
ServersAreWholeOrNot ==
  \A n \in Servers : InPhase(n, "serving") =>
    /\ server[n].env.auth \in {{}, AuthVars}
    /\ server[n].env.storage \in {{}, StorageVars}
    /\ server[n].auth = "some" <=> server[n].env.auth # {}
    /\ server[n].storage = "some" <=> server[n].env.storage # {}
=============================================================================
