# Object Records in TLA+

A verification project for the Object Records service: four Rust crates that
keep *records* (a chain of immutable versions, a state, an owner) in SurrealDB
and their payloads in an S3-compatible object store, and serve them over HTTP.
The specifications are translated from the code; TLC checks them on small
instances, and TLAPS proves the central theorems for every value of the
constants.

What the service promises is short: a record is created `Mutable`, grows by
versions appended at its end, may be copied as a `Snapshot`, and is once and
irreversibly `Fixed` under the SHA-256 digest of its last payload.  The modules
ask how much of that survives concurrent requests, lost answers, dropped
futures and half-done handlers, since **nothing in the service holds a lock
across an await**.

## Inventory

| component | state | operations | talks to |
|---|---|---|---|
| record type-state, `objectrecords-core/src/lib.rs` | a `Record<S>` value: id, chain of versions, `content_hash` | `new`, `update`, `snapshot`, `fix`, `clone`, `from_parts` | nobody: pure values |
| tables, `objectrecords-db/src/schema.rs` | `record`, `version`, edges `created_by`, `snapshot_of`, `or_user` with a UNIQUE index | the transactions that `repository.rs` sends | SurrealDB (external) |
| repository, `objectrecords-db/src/repository.rs` (with `convert.rs`, `persisted.rs`, `error.rs`) | a database handle; each call is a future with its locals | `find`, `list_by_creator`, `save`, `save_snapshot`, `add_version`, `transition_to_fixed`, `delete` | the tables, one query per await |
| JIT provisioning, `upsert_or_user` in the same file | rows of `or_user` | SELECT, CREATE, recovery SELECT | called by the auth middleware on every request |
| blob storage, `objectrecords-storage/src/lib.rs`, `s3_compat.rs` | a map from keys to payloads | `put`, `get`, `head`, `delete`, `put_if_absent`; presigned URLs, multipart | the object store (external) |
| routes, `objectrecords-api/src/routes/*.rs`, `error.rs` | a handler future for each request | GET, POST, PUT, fix of `/records`; POST `/assets`; GET `/health` | repository and storage |
| authentication, `objectrecords-api/src/auth.rs`, `lib.rs` | the key set of the server; the request on its way through the layers | verify the token, provision the user, check the scope | repository |
| conversions, `convert.rs`, `persisted.rs`, row types of `repository.rs`, parsers and projections of `routes/records.rs` | none | `Record<S>` to rows, back, and to the answer of the API; digests, kinds, creators as text | between all others |
| start-up, `main.rs`, `storage.rs`, `client.rs`, `schema.rs` | a process: its environment, what it has built so far of `AppState` | connect, apply the schema, read two sets of variables, fetch the keys, bind | everything |

The hard behaviours, each listed with its line under `hazards` in
`PROJECT.json`:

- *interleaving*: a repository read is three queries, `transition_to_fixed` is
  a read of three queries and a transaction, a `fix` request is up to twelve
  awaits; every other request may run between any two of them;
- *stale decisions*: the state of a record, its trailing version, the digest of
  a payload, the absence of an id are all read in one query and acted upon in a
  later one;
- *partial failure*: `fix` writes to the object store, then to the database;
  `save_snapshot` writes twice; a handler may be dropped wherever it waits; a
  transaction may commit although its caller sees an error;
- *time as order*: chains are ordered by `created_at` alone, from a wall clock
  that is read before the transaction and may repeat a reading;
- *start-up*: several servers over one database, each with its own
  configuration, coming and going; a schema whose rejection nobody notices; keys
  read once and rotated later;
- *shared identity*: snapshots and clones carry the version ids of their source;
- *races on uniqueness*: record ids, version ids, `auth0_sub`, object keys.

What makes each component correct:

- *type-state*: a hash exactly in `Fixed` values, never an empty chain, one body
  for each version id in all copies, oldest first, `Fixed` values frozen;
- *tables and repository*: the same for the rows; one creator for each record
  and no edge without its record; no version lost or edited; `Fixed` irreversible;
  reads that are records; calls that return;
- *provisioning*: one user for each sub, whatever races;
- *authentication*: the layers compose to what each assumes of the others; who is
  admitted is vouched for and provisioned, under the sub of the own token;
- *start-up*: a server that listens enforces what its environment asks for, or
  does not listen;
- *conversions*: what is saved is what is read and shown; what is read from any
  rows is a record, or refused; all texts of a digest agree;
- *storage*: the loser of `put_if_absent` leaves the winner's payload alone, so
  that content-addressed keys name their content;
- *routes*: the sequence of requests is a history of the life cycle above; a
  `Fixed` hash is the digest of a payload in the chain; migrated keys are stored;
  answers show what was written.

## The modules

    RecordCore --> RecordTables --> Repository --+
        |                                        +--> RecordsApi --refines--> RecordLifecycle
        +--------> BlobStorage ------------------+
        +--------> Convert  (checked with the values that RecordCore reaches)

    Provisioning --> Startup --> Gate --refines--> Provisioning
    MC*  : values for TLC         *Proofs : theorems for TLAPS

| module | models | correspondence |
|---|---|---|
| `RecordCore` | `core/src/lib.rs` | `held[h]` is the record value in a variable `h` of some program; one action for each method; a consuming method replaces the value of its handle, a borrowing one fills another |
| `RecordTables` | the schema and the text of every transaction | one operator for each transaction, all of its statements at once |
| `Repository` | the methods of `RecordRepository` | `call[p]` is the future of process `p`: `pc` is the await where it is suspended, `row`, `rows`, `chain`, `todo`, `out`, `hash` its locals, `ret` its answer.  Each action is one query with the local code up to the next await |
| `BlobStorage` | the trait and both backends | one operator for each method, atomic as the mutex or the single request makes it |
| `RecordsApi` | the handlers | `req[p]` is the handler of process `p`, `call[p]` the repository call it awaits |
| `RecordLifecycle` | the promise | the abstract specification: create, grow, seal |
| `Provisioning` | `upsert_or_user`, and the index of `or_user` | `up[p]` is the call, `orUser` the table, `indexed` whether its UNIQUE index is defined |
| `Startup` | `main`, `connect`, `schema::apply`, `auth_env_from_vars`, `storage_env_from_vars` | `server[n]` is a process: `phase` the await of `main` where it is, `env` the variables that are set, `auth`, `jwks` and `storage` its `AppState`; `tenant` the keys that are published |
| `Gate` | `build_router`, the two middlewares, `Auth0Verifier::verify` | `gate[p]` is a request: `pc` the layer where it is, `claims` and `orUser` its extensions, `status` its answer; its call of `upsert_or_user` is `up[p]`, with the actions of `Provisioning` |
| `Convert` | `convert.rs`, `persisted.rs`, and what the other crates do of the kind | one operator for each function; errors are values, in the order in which the code finds them |

**Abstractions.**  A payload is its own digest: SHA-256 is taken as injective.
A body is inline, or a key `/assets/<x>`, `/fixed/<x>` or any other
(`"upload"`).  UUIDs are unique (`now_v7`); version ids are numbers in the order
they were minted.  Sizes, and `created_at` of rows that nothing reads, are left
out: no decision depends on them.  `kind` and the texts of digests and creators
are in `Convert` alone, since no transaction looks into them.  `ORDER BY created_at`
leaves equal keys in any order.  A token is the key it names, one Boolean for signature,
audience, issuer and expiry, its sub and its scopes; `Gate` ends where the
handlers of `RecordsApi` begin, and a request there is one that was admitted:
the handlers share no state with the gate but the claims, of which they take
the creator.  SurrealDB is external and assumed to make a
query atomic and a transaction all or nothing, to reject a CREATE of a taken id
or of a taken unique key, and to let UPDATE and DELETE of nothing succeed.

**Failure.**  `Fail` ends a call at any await with an error and no effect; the
`"error"` outcome of each commit is an effect whose answer is lost; `Drop` drops
a handler and its call; `StorageFails` and the 500 outcomes of `StoreFixed` and
`Upload` are the same for the object store.  There is no crash action beside them:
the service keeps nothing in memory, so a crash drops all futures at once, which
a sequence of `Drop` steps does too.  In `Gate`, where servers have a memory (their
configuration and keys), the crash is there: `Stop` takes a server down in any
phase, its requests take no further step and are dropped, and it may be launched
with another environment.  A query that commits *after* its
handler was dropped is covered only so far as a second process can play it.

## The runs

The bounds are chosen so that the interesting collision is reachable and
little else is: one record, because every decision of the code is about one
record (the exception, `save_snapshot`, has a run with two); two processes, one
to read and one to intervene (in `first_requests`: the winner and the loser of a
race, on two servers of which one may lack the index or the enforcement); two payloads, so that a digest can be wrong; two or three version ids, so that a
chain has a trailing and an earlier version while one more append is on its way.

| run | what is explored | what it shows |
|---|---|---|
| `core` | 3 handles, 3 version ids, every method; each value reached is sent through its rows, for three kinds and creators, and its rows are tampered with | `CoreTypeOK`, `DigestExactlyWhenFixed`, `VersionIdNamesOneBody`, `ChainsAreOldestFirst`, `FixedIsFrozen`; `RowsRoundTrip`, `AcceptedRowsAreRecords`, `DigestTextsAgree` |
| `reads_and_seals` | 2 callers, 2 creators, no deletes, all timestamps equal | `FindsAreWhole`, `ListsAreWhole`: three queries give one record.  `AcknowledgedFixHolds`, `HashExactlyWhenFixed`, `SealedBodyIsFossil`, `StoredVersionsMatchHeld`, and every call returns (`CallsReturn`) |
| `deletes` | every writer against `delete` and re-save of the same id | `FixedNeverReverts`, `StoredVersionsSurvive`, `EveryRecordHasOneCreator`, `EveryRecordHasAVersion` |
| `snapshots` | held records saved and snapshotted while others append and seal | `SnapshotsNeverCollide`, `TypeOK`; `SnapshotsAreLinked`: a snapshot lacks its edge only where no call has answered Ok for it |
| `alone` | one client at a time, all routes, with and without a store, all failures | `ImplementsLifecycle` (refinement of `RecordLifecycle`), `RequestsReturn`, `ApiTypeOK`; `RetriedFixSucceeds`: a fix that died after its copy is good for a retry |
| `race_mixed` | 2 clients, inline and blob bodies in one chain | `KeysNameTheirPayload`, `AnswersShowTheWrite` |
| `race_uploads` | 2 clients, bodies at a key that others overwrite and delete, so that two fixes may have checked different payloads | `FossilsAreStored`; `FixedHashIsOfItsChain`: of the two, hash and body are those of one and the same |
| `first_requests` | 2 servers with 4 environments (bare, whole, half of Auth0, half of S3), a tenant that rotates its keys, 2 parallel requests with a token in order, one not in order, or none, 3 UUIDs | `ImplementsProvisioning` (refinement), `AnswersAgree`, `RaceLosersRecover`, `ServersAreWholeOrNot`, `AdmittedAreProvisioned`, `UsersWereVouchedFor`, `GateTypeOK` |
| `double_seal`, `updated_at`, `late_put`, `swapped_payload` | see Divergences | each ends in a counterexample |

Every property of a passing run has a mutant in `PROJECT.json`: a definition
of the model changed the way a plausible bug would change the code (a dropped
guard, `UPSERT` for `CREATE`, a cascade that stops half-way, a comparison left
out), with which TLC finds the property violated under the same configuration.
The mutants stand next to the definitions they replace.

Deadlock is not checked: the version ids, the clock and the handles of a run are
bounded, and when they are used up the system does stop.  The
bounds are `MaxVid`, `MaxClock`, `Ids`, `UserIds`.  `RoomForUser` of `Gate`, `RoomForVersion` and
`RoomForStamp` of `RecordsApi` keep them from stopping a handler that was
accepted, so that the liveness properties do not depend on them.  In the runs of
`RecordsApi` the clock ticks between two stamps (`Ticks = {1}`); with equal
stamps the database may return a chain in any order, and what is "trailing" is
not determined (see below).

Requests, clients, handles, servers and callers are interchangeable where a
configuration says so (`SYMMETRY`); the runs of liveness properties do not use it.
Three UUIDs let both requests mint one and one more user come later.  A digest
has two bytes in `core`: enough for each half of a byte to be zero and for one
pair to follow another.  Two subs are enough in `first_requests`, because
whatever a request of one sub does, the rows of another are only an obstacle to
the index; that ids and rows of any number of subs agree is proved.

**Fairness.**  `FairSpec` and `FairApiSpec` assume weak fairness of one action
for each process: the next query or storage request of a call under way is
answered and its future is polled (`Query`, `Handle`).  That is what the tokio
runtime and an available database give.  Nothing is assumed of `Begin`, `Arrive`,
`Fail`, `Drop`, `Hold` or `External`: no caller has to call, nothing has to fail
and nothing has to succeed.  `RetriedFixSucceeds` says what follows if failures
stop and requests keep coming, as premises of the property, not as fairness.
That each request ends at the gate is not checked: with fairness for two
servers and two requests the liveness graph is too large for a run, and a single
request is in `alone`, past the gate.

## The proofs

`RecordCoreProofs`.  `CoreTypeOK /\ DigestExactlyWhenFixed` is inductive: each
method changes one handle, and the value it puts there is well formed
(`StoreInHandle`, with one lemma for each method; `FossilizeWellFormed` for the rewriting of the
trailing version).  From it: `HeldRecordsAreTyped`, `FixedIsFrozen`.  Assumptions: `NoHash` is no digest,
the submitted bodies are bodies, the bounds are numbers.

`GateProofs`, first part: provisioning.  `AnswersAgree` is not inductive; the strengthening adds
that a UUID waiting to be stored is minted, stored nowhere and held by nobody else
(`CreatesAreFresh`, `RowsAreMinted`), and that the row a loser lost to is there
(`LosersSeeTheRow`).  From it: `OneSubOneUser`, and `LosersFindTheWinner`, which is what
the comment in `repository.rs` calls a structural impossibility.  For any number of
requests and subs.

`GateProofs`, second part: start-up and gate.  For any number of servers, requests, keys and tokens, `GInv` is
inductive.  It consists of what the first part found (`IInv`), what a server
has in force in each phase of its start (`ServersOK`: between the reading of the
Auth0 variables and the reading of the S3 variables, the one half is settled and
the other is still the environment's), and what each request knows
(`RequestsOK`).  The last is where the argument is: a request that waits for its
user has, in its call, the sub of its own token, and was admitted by a server
that enforced tokens when it was asked; a server does not change its mind while
it serves, and is not launched again before its requests are gone.  Each step of
the gate is shown to be a step of `Provisioning` or to leave it alone
(`GateImplementsProvisioning`, by which `OneSubOneUser` holds behind the gate).
From the same invariant: `ServersFailClosed`, `AdmissionIsProvisioned`,
`UsersAreVouchedFor`.

`RepositoryProofs`.  For any number of callers, records, creators and
payloads, `Inv` is inductive: the types, the three invariants of the tables
(`HashExactlyWhenFixed`, `EveryRecordHasOneCreator`, `EveryRecordHasAVersion`), and what
a suspended call knows (`CallOK`) -- that the row a `save` is about to create has
versions, all under its id, and a hash just if it is `Fixed`; that a transition
carries a digest.  The invariants of the tables need `CallOK`, because the
transactions write what was computed several awaits earlier; and `CallOK` speaks
of one call and never of the tables, so no other call can disturb it.  The proof
has one lemma for each transaction, one for each step of a call.  From it:
`TypeOK`, the table invariants (`EveryRecordHasAVersion` as `NoStoredChainIsEmpty`), and
`FixedNeverReverts`.

`CallsProofs`, first part: with deletes.  A version travels: from a record value into the rows of a pending
`save`, into the table, from the table into the chain that a transition has
read, and back as the rewrite of a trailing body.  `Shown` follows it, as an `Item` of
id, body and record, through all of them.  `OneBody` says that what is shown was minted, and that any
two places that show one version agree on its record, and on its body up to the migration of a key;
`OwnRows`, that ids minted for rows not yet written show nowhere else.  Together they are
inductive, because a step `Moves` items: it shows only what was shown before, migrated
or not, and ids that it mints itself (`VersionsShowOneBody`).
Neither property follows from the table alone: the body that `CommitSeal` writes is
one that the call read two queries earlier.  From it: `StoredVersionsMatchHeld`
and `StoredVersionsSurvive`, with deletes.  The same argument without tables gives
`VersionIdNamesOneBody` and, with the ids below the generator, `ChainsAreOldestFirst` in
`RecordCoreProofs` (`ChainsCopied` or `ChainGrown` for every step).

`CallsProofs`, second part: without.  Under the hypothesis `"delete" \notin Ops` the tables only grow
(`Grown`), so that what a suspended call has learned (`Knows`: its record is there,
with the versions and the edges it read; a `Fixed` one has a whole version) is still
true at its next query (`KnowledgeStays`).  From it: `AcknowledgedFixHolds`,
`FindsAreWhole`, `ListsAreWhole`.  With deletes all three are false (a `find` or list that
races one is cut short; an acknowledged fix may be deleted).

`WritersProofs`.  What several writers leave behind together, in three invariants on
top of the earlier ones.  `Apart`: the record id that a `save_snapshot` under way has minted is
named by no record value, pending in no other call, and not yet linked, and nothing is stored under it before
its `CREATE`.  With `OwnRows`, which says the same of its version ids, its transaction finds nothing taken:
`SnapshotsNeverCollide`, with deletes.  `Linked`: what a `RELATE` of a snapshot is about to
link is stored as a snapshot, or was fixed since; from it and `Apart`,
`SnapshotsAreLinked` where nobody deletes.  `Sealed`: the body that a transition is about to write
is a fossil of the hash that it is about to write, in a version that is in the table and of that
record.  The first half is
known from when the call computed the row; the second is `Knows` and `OneBody`.  From it:
`SealedBodyIsFossil` where nobody deletes.  With deletes the last two are false: an edge may be made to a
record that is gone, and a record that is deleted and saved anew under its id between the reading and the
transaction is sealed with none of its own versions rewritten.

`RecordsApiProofs`.  For any number of clients, records, payloads and bodies.  A step of the
service is, for the repository, a step of a call, the beginning of one, a `Record::new` that goes straight to
`save`, or a call that is dropped (`ServiceStep`); so everything proved of the
repository without deletes holds below the routes (`RepoInv`; no route deletes).  On top of it, `Learned`
says what a handler knows at each of its awaits: that its call is
the one it asked for (`Serves`); that what a find returned is in the table (`FoundRows`);
that a fix past its checks has seen a version of the record whose payload, if it is inline, has the requested
digest (`Checked`); that a PUT past its append, and a fix past its transition, find
what they wrote (`PutShows`, `FixShows`).  All of it concerns one handler and tables that only grow
(`TableGrows`), so the steps of others keep it (`LearnedStays`), and there is one lemma
for each step of a handler.  From it: `ServiceIsTyped`, `AnswersAreTrue`, and, with
`HashesAreOfChains`, `FixedHashesAreOfChains`.  The argument of the last is where races matter: the transition
that sets the hash either turns a key into the key of that hash, or leaves an inline body
as it is; in the second case all bodies are inline, and the one that was checked is still there.

The theorems about the object store have a hypothesis on the bodies that clients submit, and
would be false without:

- `KeysAreContentAddressed` assumes that no body is at a key that others may overwrite
  (`"upload"`).  With one, `fix` copies what it reads at its second `get` under the
  digest of what it read at its first.
- `FossilsHavePayloads` assumes that bodies are keys, and not yet under `/fixed`.  An inline body
  may be the one that was checked, while the transition migrates a key that a PUT has
  appended since: nothing was copied.  A client that submits a key under `/fixed` itself is not
  asked whether anything is there.

Both rest on one induction: `BodiesStayIn` shows, for any set of bodies that contains the submitted ones
and that sealing does not leave, that every body in the tables and in the calls is in it.  With the bodies
that are not uploads, and what a fix holds between its first look and
its copy (`CopyOK`), keys name their payloads; with the bodies that are not yet fossils or whose payload is stored, and the
copy that precedes every transition (`PendingStored`), fossils have theirs.

`LifecycleProofs`.  The refinement of `RecordLifecycle` (`ServiceImplementsLifecycle`), for any
records, creators and payloads and with all failures and drops, under the
hypothesis `Solitary`: one client at a time, a clock that moves between two stamps, and no body at
a key that others may overwrite.  None of the three can be dropped.  Two clients grow a `Fixed`
record (`late_put`) or seal it under an older payload (`swapped_payload`); equal
stamps leave the order of a chain, and so its last payload, to the database; an upload that is
overwritten between the two `get` of a fix is copied under the digest of what it held before.
A life is read off the tables by sorting versions by their times.  That is the
inductive invariant's first part: ids and times of the stored versions
increase together (`TablesInOrder`), so that an insertion with the greatest id is an append
(`YoungestComesLast`, `ContentsGrow`), and the migration of a trailing key leaves the
contents as they were (`LastMayMigrate`).  The other parts carry, from the await where it is read to the
await where it is used, what a step of the abstract specification needs: the row about to be inserted is younger than all
stored ones and its record is `Mutable` (`RowsAreNext`); what was read is still in the table, and the version about to
be sealed is the trailing one (`ReadsAreCurrent`, `SealsTrailing`); a fix
past its check has seen the digest of the trailing payload (`FixesTrailing`).  With it each step
of the service is one `Create`, `Grow` or `Seal` of one record, or none of any (`LivesMove`).

`ConvertProofs`.  What the conversions do, for digests of any length and for every state that the
program reaches.  `DigestTextsAlwaysAgree`: what `Display` writes both parsers read back; what the
database accepts is what `Display` would have written, and what the API accepts (which takes `+f`)
is stored and read back as the same digest.  `AcceptedRowsAreAlwaysRecords`: of rows with any
values, a read accepts a digest exactly with `Fixed`, and never an empty chain or a
version without an id (`ReadBackMakesRecord`).  `RecordsComeBack`: every record comes back as it was saved,
under its own state and no other, for every name of a kind and every sub, and the owner is the whole sub, whatever colons
are in it.  Its invariant is that of `RecordCoreProofs`; the rest is about values.  The text of the
creator, which the database quotes and `strip_thing_backticks` strips, is a filter over a sequence, so that
it is undone for every text is an induction; `RowsAlwaysRoundTrip` has it as its hypothesis
(`QuotingIsUndone`, which `RowsRoundTrip` makes TLC evaluate for the subs of `core`).  Assumptions: `None` is no
digest, no text of a digest and no version id.

Out of the prover's reach, and checked by TLC only: the liveness properties (`CallsReturn`,
`RequestsReturn`, `RetriedFixSucceeds`), and the induction just named.  Every other property of a
passing run is a theorem.

## Divergences

Four places where the code does not do what its documents say, each with a
run that ends in the counterexample (`findings` in `PROJECT.json`):

1. `double_seal`: two concurrent `transition_to_fixed` with different digests
   both succeed; the second overwrites the hash of a `Fixed` record.
2. `updated_at`: an `add_version` that was slow to commit takes `updated_at` back.
3. `late_put`: a PUT whose check came before a `fix` and whose append came after it
   grows a `Fixed` record, and is answered 200.
4. `swapped_payload`: a version appended between the digest check of a `fix` and
   its transition has its key rewritten to the older version's payload.

More were seen while modelling and have no run of their own:

- `find` racing `delete` reads the row, then no versions or no edge, and
  reports a corrupt record (500) where the record is simply gone (404);
- two `save` of one id that both pass the look-up: the loser gets the raw
  database error, not `AlreadyExists` (500, not 409);
- an append whose timestamp was taken early lands in the middle of the chain;
- `add_version` after a `delete` leaves a version without a record, and answers Ok;
- `save_snapshot` whose second query fails leaves the snapshot without its
  `snapshot_of` edge;
- the hash sealed by a `fix` that raced a PUT is that of an earlier version, not
  of the trailing one (`FixedHashIsOfItsChain` is what is left, for chains whose bodies are all inline or all keys);
- with inline and blob bodies in one chain, such a race may migrate a key to
  `/fixed/<x>` where nothing was copied;
- and it may seal a hash that is the digest of no payload in the chain.  That takes three
  requests: one fix checks an inline body, another the key of a version that a PUT has
  appended since; the transition of the first finds that key still trailing, that of the
  second finds the inline body of one more PUT.  The first commits its hash and
  rewrites the key; the second commits its own hash and rewrites nothing.  The invariant
  `HashesAreOfChains` of the proofs did not go through until this was found;
- a key outside `/assets` that is overwritten between the two `get` of `fix` is
  copied under the digest of what it held before;
- versions saved in one call share one `created_at`, so their order is left to
  the database;
- `auth.rs:268` documents the write scope as that of `POST /records`, `PUT` and `fix`,
  while `build_router` puts the whole of `/records` behind the read scope;
- `client.rs:72` lists "schema statement rejection" among the errors of `connect`;
  `schema::apply` awaits its queries without `check`, so that a statement the
  database rejects is not an error (`DefineIndex` has both outcomes);
- `records.rs:192` says that `BlobRef.size` is compared with `head`; nothing calls `head`;
- `core/src/lib.rs:106` has the prefix `creo:` rejected at the API boundary, and
  `persisted.rs:35` has it validated when a record is rebuilt; `parse_kind` accepts
  it (and `records.rs:253` says so), and nothing rebuilds with a check;
- the digest parser of the API takes `+f` for the byte 15 (`from_str_radix` reads a sign), and
  panics where a slice cuts a multi-byte character (`ParseRequested` has both;
  the digest that comes of the first is stored in its proper form);
- a sub that contains a backtick comes back from the database without it
  (`strip_thing_backticks`); `RowsRoundTrip` is about subs without;
- the comparison with `ASSET_BODY_LIMIT` in `validate_asset_body` is not reached:
  the body limit of the router answers 413 before it.

## Plan

The modules were written in this order, most important behaviour first: the
type-state, the tables and the repository, the routes over them with the
refinement, provisioning with the first proofs; then start-up and gate with the
refinement of provisioning and its proof, the conversions, and the retries of
`fix`; then the proofs, up to the refinement of the life cycle.  What would come
next is `multipart_put_chunks`, once a caller says what it relies on.

## Not modelled

- Inside of a token: signature, audience, issuer and expiry are one Boolean;
  `X-MCP-Client-Id` is logged and attached and decides nothing.
- The size and media type of a body, limits on the size of an upload beyond the
  413 of `AcceptAsset`, base64: carried along, or a constant.
- `GET /health`, tracing, the server loop: without state.
- The definitions of `schema.rs` other than the UNIQUE index of `or_user`: no
  decision of the code depends on them.
- `presign_put`, `presign_get`: only as the external writer of other keys.
- `multipart_put_chunks`: without a caller in the service.  It stops at the first part
  that fails and drops the upload; whether that aborts it, as lines 148-150 of
  `s3_compat.rs` say, is up to the library.
- The values of configuration variables, and `S3_REGION` and `S3_ALLOW_HTTP`, which
  have defaults.
