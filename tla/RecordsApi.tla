---------------------------- MODULE RecordsApi ----------------------------
(***************************************************************************)
(* crate objectrecords-api: the handlers of /records and /assets, over the *)
(* repository and the object store.                                        *)
(*                                                                         *)
(* A process p serves one request at a time.  req[p] is the handler: where *)
(* it waits (pc), its locals, and at the end the HTTP status it answered.  *)
(* Its repository call is call[p], and a handler step takes up the answer  *)
(* of one call and runs to the next await.  No handler locks anything.     *)
(*                                                                         *)
(* A request may be dropped at any await, when its client goes away; a     *)
(* repository call may fail (Fail), and so may a request to the store,     *)
(* before or after it took effect.                                         *)
(*                                                                         *)
(* A request that serde, axum or base64 rejects has the body Malformed; a  *)
(* content_hash that is no lowercase hex digest, and an asset that is      *)
(* empty, are NoHash.                                                      *)
(***************************************************************************)
EXTENDS Repository, BlobStorage, SequencesExt

CONSTANTS
  Malformed,  \* a request body that no Body can be made of
  Oversized,  \* an asset beyond ASSET_BODY_LIMIT
  Requests,   \* the routes in use
  Deploys     \* the deployments considered: with a store (TRUE), without

ASSUME MalformedAssumption == Malformed \notin Body
ASSUME OversizedAssumption == Oversized \notin Hashes
ASSUME DeploysAssumption   == Deploys \subseteq BOOLEAN

VARIABLES
  req,       \* req[p]: the request that process p serves
  storage    \* AppState.storage is Some: settled when the server starts

apiVars == <<vars, blob, req, storage>>

Routes == {"get", "post", "put", "fix", "asset"}
Points == {"idle", "find", "save", "append", "verify", "copy", "store", "seal",
           "project", "upload"}

Request == [route : Routes \cup {"none"}, pc : Points, id : Ids,
            body : Body \cup {Malformed}, hash : Hashes, bytes : Hashes,
            status : {0, 200, 201, 400, 404, 409, 413, 500}]

NoRequest == [route |-> "none", pc |-> "idle", id |-> CHOOSE i \in Ids : TRUE,
              body |-> Malformed, hash |-> NoHash, bytes |-> NoHash, status |-> 0]

ApiInit ==
  /\ Init /\ BlobInit
  /\ req = [p \in Procs |-> NoRequest]
  /\ storage \in Deploys

Serving(p, pc) == req[p].pc = pc

(* The handler goes on to another await, or answers.                       *)
Goto(p, r) == req' = [req EXCEPT ![p] = r]
Reply(p, status) == Goto(p, [req[p] EXCEPT !.pc = "idle", !.status = status])

Accept(p, route, r) ==
  /\ route \in Requests
  /\ Serving(p, "idle")
  /\ Goto(p, [r EXCEPT !.route = route])

(* The repository call of p has returned, with ret.                        *)
Returned(p, pc, ret) == Serving(p, pc) /\ At(p, "idle") /\ call[p].ret = ret

(* From<DbError> for ApiError, and the ok_or(NotFound) of every find: the   *)
(* status of each answer that ends the handler.                            *)
ErrorStatus == [missing |-> 404, exists |-> 409, fixed |-> 409, conflict |-> 500,
                empty |-> 500, no_creator |-> 500, bad_hash |-> 500, error |-> 500]

Refused(p) ==
  /\ \E ret \in DOMAIN ErrorStatus, pc \in {"find", "save", "append", "seal", "project"} :
       Returned(p, pc, ret) /\ Reply(p, ErrorStatus[ret])
  /\ UNCHANGED <<vars, blob>>

(* The last find of a handler, which its answer is projected from.         *)
Project(p) ==
  /\ Goto(p, [req[p] EXCEPT !.pc = "project"])
  /\ StartFind(p, req[p].id)
  /\ UNCHANGED <<held, nextVid, blob>>

Projected(p) ==
  /\ Returned(p, "project", "found") /\ Reply(p, 200) /\ UNCHANGED <<vars, blob>>

-----------------------------------------------------------------------------
(* GET /records/:id.                                                       *)

AcceptGet(p, i) ==
  /\ Accept(p, "get", [NoRequest EXCEPT !.pc = "project", !.id = i])
  /\ StartFind(p, i)
  /\ UNCHANGED <<held, nextVid, blob>>

-----------------------------------------------------------------------------
(* POST /records: validate, Record::new, save.                             *)

AcceptPost(p, i, body, creator) ==
  \/ /\ body = Malformed
     /\ Accept(p, "post", [NoRequest EXCEPT !.status = 400])
     /\ UNCHANGED <<vars, blob>>
  \/ /\ body # Malformed
     /\ New(i, body)
     /\ Accept(p, "post", [NoRequest EXCEPT !.pc = "save", !.id = i, !.body = body])
     /\ StartSave(p, held'[i], creator)
     /\ UNCHANGED blob

Saved(p) ==
  /\ Returned(p, "save", "ok") /\ Reply(p, 201) /\ UNCHANGED <<vars, blob>>

-----------------------------------------------------------------------------
(* PUT /records/:id: find, check the state, check the body, add_version,   *)
(* find again.                                                             *)

AcceptPut(p, i, body) ==
  /\ Accept(p, "put", [NoRequest EXCEPT !.pc = "find", !.id = i, !.body = body])
  /\ StartFind(p, i)
  /\ UNCHANGED <<held, nextVid, blob>>

(* Mutant: the state is not looked at.                                     *)
PutAnyState(p) ==
  /\ req[p].route = "put" /\ Returned(p, "find", "found")
  /\ req[p].body # Malformed
  /\ Goto(p, [req[p] EXCEPT !.pc = "append"])
  /\ StartAddVersion(p, req[p].id, req[p].body)
  /\ UNCHANGED <<held, blob>>

(* Mutant: the body is not validated.                                      *)
PutAnyBody(p) ==
  /\ req[p].route = "put" /\ Returned(p, "find", "found")
  /\ call[p].row.state = "mutable"
  /\ Goto(p, [req[p] EXCEPT !.pc = "append"])
  /\ StartAddVersion(p, req[p].id, req[p].body)
  /\ UNCHANGED <<held, blob>>

PutChecked(p) ==
  /\ req[p].route = "put" /\ Returned(p, "find", "found")
  /\ \/ /\ call[p].row.state # "mutable"
        /\ Reply(p, 409)
        /\ UNCHANGED vars
     \/ /\ call[p].row.state = "mutable" /\ req[p].body = Malformed
        /\ Reply(p, 400)
        /\ UNCHANGED vars
     \/ /\ call[p].row.state = "mutable" /\ req[p].body # Malformed
        /\ Goto(p, [req[p] EXCEPT !.pc = "append"])
        /\ StartAddVersion(p, req[p].id, req[p].body)
        /\ UNCHANGED held
  /\ UNCHANGED blob

PutAppended(p) == Returned(p, "append", "ok") /\ Project(p)

-----------------------------------------------------------------------------
(* POST /records/:id/fix: find, check the state, re-hash the trailing body *)
(* (for a key: get it), copy it to /fixed/<hash> (get it once more and     *)
(* put_if_absent), transition_to_fixed, find again.                        *)

AcceptFix(p, i, hash) ==
  \/ /\ hash = NoHash
     /\ Accept(p, "fix", [NoRequest EXCEPT !.status = 400])
     /\ UNCHANGED <<vars, blob>>
  \/ /\ hash # NoHash
     /\ Accept(p, "fix", [NoRequest EXCEPT !.pc = "find", !.id = i, !.hash = hash])
     /\ StartFind(p, i)
     /\ UNCHANGED <<held, nextVid, blob>>

BeginSeal(p) ==
  /\ Goto(p, [req[p] EXCEPT !.pc = "seal"])
  /\ StartTransition(p, req[p].id, req[p].hash)
  /\ UNCHANGED <<held, nextVid>>

(* Mutant: a key is waited for until there is a store.                     *)
FixAwaitsStorage(p) ==
  /\ req[p].route = "fix" /\ Returned(p, "find", "found")
  /\ LET body == Last(call[p].chain).body IN
     \/ call[p].row.state = "fixed" /\ Reply(p, 409) /\ UNCHANGED vars
     \/ call[p].row.state # "fixed" /\ body.form = "inline" /\ BeginSeal(p)
     \/ /\ call[p].row.state # "fixed" /\ body.form # "inline" /\ storage
        /\ Goto(p, [req[p] EXCEPT !.pc = "verify", !.body = body])
        /\ UNCHANGED vars
  /\ UNCHANGED blob

FixChecked(p) ==
  /\ req[p].route = "fix" /\ Returned(p, "find", "found")
  /\ LET body == Last(call[p].chain).body IN
     \/ /\ call[p].row.state = "fixed"
        /\ Reply(p, 409)
        /\ UNCHANGED vars
     \/ /\ call[p].row.state # "fixed" /\ body.form = "inline"
        /\ \/ body.of = req[p].hash /\ BeginSeal(p)
           \/ body.of # req[p].hash /\ Reply(p, 400) /\ UNCHANGED vars
     \/ /\ call[p].row.state # "fixed" /\ body.form # "inline"
        /\ \/ /\ storage
              /\ Goto(p, [req[p] EXCEPT !.pc = "verify", !.body = body])
           \/ ~storage /\ Reply(p, 500)
        /\ UNCHANGED vars
  /\ UNCHANGED blob

(* Mutant: the payload is not compared with the claimed digest.            *)
VerifyTrusts(p) ==
  /\ Serving(p, "verify")
  /\ Get(req[p].body) # NoHash /\ Goto(p, [req[p] EXCEPT !.pc = "copy"])
  /\ UNCHANGED <<vars, blob>>

VerifyHash(p) ==
  /\ Serving(p, "verify")
  /\ LET bytes == Get(req[p].body) IN
     \/ bytes = NoHash /\ Reply(p, 500)
     \/ bytes \notin {NoHash, req[p].hash} /\ Reply(p, 400)
     \/ bytes = req[p].hash /\ Goto(p, [req[p] EXCEPT !.pc = "copy"])
  /\ UNCHANGED <<vars, blob>>

CopyBlob(p) ==
  /\ Serving(p, "copy")
  /\ LET bytes == Get(req[p].body) IN
     \/ bytes = NoHash /\ Reply(p, 500)
     \/ bytes # NoHash /\ Goto(p, [req[p] EXCEPT !.pc = "store", !.bytes = bytes])
  /\ UNCHANGED <<vars, blob>>

FixedKey(hash) == [form |-> "fixed", of |-> hash]

(* Mutant: the copy is left for after the transition.                      *)
SealBeforeStore(p) == Serving(p, "store") /\ BeginSeal(p) /\ UNCHANGED blob

(* Mutant: a payload that is there already is taken for a conflict.        *)
StoreFixedOnce(p) ==
  /\ Serving(p, "store")
  /\ \/ /\ PutIfAbsent(FixedKey(req[p].hash), req[p].bytes, "wrote")
        /\ \/ BeginSeal(p)
           \/ Reply(p, 500) /\ UNCHANGED vars
     \/ /\ PutIfAbsent(FixedKey(req[p].hash), req[p].bytes, "already_exists")
        /\ Reply(p, 409)
        /\ UNCHANGED vars

StoreFixed(p) ==
  /\ Serving(p, "store")
  /\ \E outcome \in {"wrote", "already_exists"} :
       PutIfAbsent(FixedKey(req[p].hash), req[p].bytes, outcome)
  /\ \/ BeginSeal(p)
     \/ Reply(p, 500) /\ UNCHANGED vars

Sealed(p) == Returned(p, "seal", "ok") /\ Project(p)

-----------------------------------------------------------------------------
(* POST /assets: the body is read under the limit of its router, then the  *)
(* key is made from the digest of the payload.                             *)

AcceptAsset(p, bytes) ==
  /\ \/ /\ bytes = Oversized
        /\ Accept(p, "asset", [NoRequest EXCEPT !.status = 413])
     \/ /\ bytes # Oversized /\ ~storage
        /\ Accept(p, "asset", [NoRequest EXCEPT !.status = 500])
     \/ /\ storage /\ bytes = NoHash
        /\ Accept(p, "asset", [NoRequest EXCEPT !.status = 400])
     \/ /\ storage /\ bytes \in Bytes
        /\ Accept(p, "asset", [NoRequest EXCEPT !.pc = "upload", !.bytes = bytes])
  /\ UNCHANGED <<vars, blob>>

Upload(p) ==
  /\ Serving(p, "upload")
  /\ \E outcome \in {"wrote", "already_exists"} :
       /\ PutIfAbsent([form |-> "assets", of |-> req[p].bytes], req[p].bytes, outcome)
       /\ \/ outcome = "wrote" /\ Reply(p, 201)
          \/ outcome = "already_exists" /\ Reply(p, 200)
          \/ Reply(p, 500)
  /\ UNCHANGED vars

-----------------------------------------------------------------------------
(* A request to the object store fails without effect.                     *)
StorageFails(p) ==
  /\ req[p].pc \in {"verify", "copy", "store", "upload"}
  /\ Reply(p, 500)
  /\ UNCHANGED <<vars, blob>>

(* The client closes its connection: the handler is dropped where it is.   *)
Drop(p) ==
  /\ ~Serving(p, "idle")
  /\ Goto(p, NoRequest)
  /\ call' = [call EXCEPT ![p] = Idle]
  /\ UNCHANGED <<held, nextVid, tableVars, clock, snapIds, blob>>

(* Keys outside /assets and /fixed belong to others, who may write them    *)
(* through presigned URLs, or delete them, at any time.                    *)
External ==
  /\ \E k \in Bodies : k.form = "upload" /\ (Delete(k) \/ \E x \in Bytes : Put(k, x))
  /\ UNCHANGED <<vars, req, storage>>

(* The bounds on version ids and on the clock must not stop a handler      *)
(* half-way: a request is accepted only if it, and all that are under way, *)
(* may still mint an id and take a timestamp.                              *)
RoomForVersion ==
  Cardinality({q \in Procs : req[q].route = "put" /\ Serving(q, "find")})
    < MaxVid - nextVid
RoomForStamp ==
  Ticks = {0} \/ Cardinality({q \in Procs : ~Serving(q, "idle")}) < MaxClock - clock

(* A new request arrives at an idle process.                               *)
Arrive(p) ==
  /\ \/ \E i \in Ids :
          \/ AcceptGet(p, i)
          \/ \E b \in Bodies \cup {Malformed} :
               /\ RoomForVersion /\ RoomForStamp
               /\ AcceptPut(p, i, b) \/ \E c \in Creators : AcceptPost(p, i, b, c)
          \/ \E x \in Hashes : RoomForStamp /\ AcceptFix(p, i, x)
     \/ \E x \in Hashes \cup {Oversized} : AcceptAsset(p, x)
  /\ UNCHANGED storage

(* A request under way takes its next step.                                *)
Handle(p) ==
  /\ \/ Query(p) /\ UNCHANGED <<blob, req>>
     \/ Refused(p) \/ Projected(p) \/ Saved(p)
     \/ PutChecked(p) \/ PutAppended(p)
     \/ FixChecked(p) \/ VerifyHash(p) \/ CopyBlob(p) \/ StoreFixed(p) \/ Sealed(p)
     \/ Upload(p)
  /\ UNCHANGED storage

Disturb(p) ==
  /\ \/ Fail(p) /\ UNCHANGED <<blob, req>>
     \/ StorageFails(p)
     \/ Drop(p)
  /\ UNCHANGED storage

ApiNext == External \/ \E p \in Procs : Arrive(p) \/ Handle(p) \/ Disturb(p)

ApiSpec == ApiInit /\ [][ApiNext]_apiVars

(* The runtime polls every handler, and database and store answer.         *)
FairApiSpec == ApiSpec /\ \A p \in Procs : WF_apiVars(Handle(p))
-----------------------------------------------------------------------------
ApiTypeOK ==
  /\ TypeOK /\ BlobTypeOK
  /\ req \in [Procs -> Request]
  /\ storage \in BOOLEAN

(* The payload that a body stands for.  The keys /assets/<x> and /fixed/<x>*)
(* are names of x; any other key means what is stored there.               *)
Payload(body) == IF body.form = "upload" THEN blob[body] ELSE body.of

(* The chain of a record in the order of its version ids, which is the     *)
(* order in which the versions were minted: each stands behind as many as  *)
(* are older.                                                              *)
Older(versions, v) == {u \in versions : u.vid < v.vid}

InOrder(versions) ==
  [n \in 1 .. Cardinality(versions) |->
     CHOOSE v \in {u \in versions : Cardinality(Older(versions, u)) = n - 1} : TRUE]

ChainOf(i) == InOrder(VersionsOf(i))

(* The stored record as RecordLifecycle sees it.                           *)
Life(i) ==
  IF ~Exists(i) THEN [state |-> "none", hash |-> NoHash, contents |-> <<>>]
  ELSE [state |-> record[i].state, hash |-> record[i].hash,
        contents |-> [j \in DOMAIN ChainOf(i) |-> Payload(ChainOf(i)[j].body)]]

Lifecycle == INSTANCE RecordLifecycle WITH life <- [i \in Ids |-> Life(i)]

(* For one client at a time, the service keeps its promise: whatever fails *)
(* or is dropped in the middle of a handler, the stored record is created, *)
(* grows and is sealed exactly as RecordLifecycle says, and its hash is the*)
(* digest of its last payload.                                             *)
ImplementsLifecycle == Lifecycle!Spec

(* With handlers racing: where the bodies of a Fixed record are all inline,*)
(* or all keys, its hash is the digest of one of its payloads (the trailing*)
(* one when the hash was checked), however many PUTs and other fixes       *)
(* commit between check and transition.  (In a chain of both kinds it is   *)
(* not so: a fix that checked a key may find an inline body to rewrite,    *)
(* which stays as it is.)                                                  *)
OfOneKind(versions) ==
  \A v, w \in versions : v.body.form = "inline" <=> w.body.form = "inline"

FixedHashIsOfItsChain ==
  \A i \in Ids : record[i].state = "fixed" /\ OfOneKind(VersionsOf(i)) =>
    \E v \in VersionsOf(i) : Payload(v.body) = record[i].hash

(* A version whose key was migrated to /fixed/<hash> finds a payload there:*)
(* the copy precedes the transaction in every handler that gets so far,    *)
(* also when an earlier attempt died between the two.  (Where all bodies   *)
(* are keys; with inline bodies in the same chain it is not so.)           *)
FossilsAreStored ==
  \A v \in version :
    v.body.form = "fixed" => Get(v.body) # NoHash

(* The keys the service writes are content-addressed: what is stored at    *)
(* /assets/<x> or /fixed/<x> is x, although put_if_absent never looks at   *)
(* what it keeps.  (Where no body is at a key that others may overwrite;   *)
(* with such bodies it is not so for /fixed.)                              *)
KeysNameTheirPayload ==
  \A k \in Keys : k.form # "upload" /\ Get(k) # NoHash => Get(k) = k.of

(* A 200 to PUT shows the version just written (or its fossil), and a 200  *)
(* to fix shows a Fixed record: the second find of the handler sees the    *)
(* write, and no racing handler has undone it.                             *)
AnswersShowTheWrite ==
  \A p \in Procs : req[p].status = 200 =>
    /\ req[p].route = "put" =>
         \E j \in DOMAIN call[p].chain : SameVersion(req[p].body, call[p].chain[j].body)
    /\ req[p].route = "fix" => call[p].row.state = "fixed"

(* Every request is answered, or dropped by its client.                    *)
RequestsReturn ==
  \A p \in Procs : ~Serving(p, "idle") ~> Serving(p, "idle")

(* fix is good for a retry.  An attempt may die anywhere, also between the *)
(* copy to /fixed/<hash> and the transaction; but if requests to fix a     *)
(* record with the digest of its readable trailing payload keep coming,    *)
(* and failures stop coming, the record is Fixed in the end.               *)
Fixable(i, hash) ==
  /\ Exists(i) /\ record[i].state # "fixed"
  /\ LET body == Last(ChainOf(i)).body IN
     /\ Payload(body) = hash
     /\ body.form # "inline" => storage /\ Get(body) # NoHash

Attempted(i) ==
  \E p \in Procs : /\ req[p].route = "fix" /\ Serving(p, "find")
                   /\ req[p].id = i /\ Fixable(i, req[p].hash)

RetriedFixSucceeds ==
  \A i \in Ids :
    /\ <>[][\A p \in Procs : ~Disturb(p)]_apiVars
    /\ []<>Attempted(i)
    => <>(record[i].state = "fixed")

-----------------------------------------------------------------------------
(* What the documents say and racing handlers do not do; each of these is  *)
(* violated by a run of its own.                                           *)

(* records.rs:329-330: only Mutable records grow new versions.             *)
OnlyMutableRecordsGrow ==
  [][\A v \in version' : v.vid \notin {u.vid : u \in version} /\ Exists(v.rid)
       => record[v.rid].state = "mutable"]_apiVars

(* persisted.rs:105: versions are immutable; a key may migrate, but what   *)
(* the version holds stays.                                                *)
VersionPayloadsNeverChange ==
  [][\A v \in version, w \in version' :
       v.vid = w.vid => Payload(w.body) = Payload(v.body)]_apiVars
=============================================================================
