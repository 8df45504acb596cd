---------------------------- MODULE Repository ----------------------------
(***************************************************************************)
(* crate objectrecords-db: SurrealRecordRepository.                        *)
(*                                                                         *)
(* Every method of RecordRepository is an async function over a shared     *)
(* database handle, with no lock of its own: between two awaits any other  *)
(* call may run.  A call is made by a process p and steps from await to    *)
(* await; each action below is one query, together with the local code     *)
(* that runs before the next one.  call[p] is the future: where it is      *)
(* suspended (pc), its locals, and after it returned its answer (ret).     *)
(*                                                                         *)
(* At any await a query may fail, or the future may be dropped (Fail), and *)
(* a transaction may be committed although its caller is told otherwise    *)
(* (the "error" outcome of the Commit actions).                            *)
(***************************************************************************)
EXTENDS RecordTables

CONSTANTS
  Procs,     \* the concurrent callers
  Ops,       \* the methods, and the operations on held records, in use
  Ticks,     \* how far the wall clock may have moved between two readings
  MaxClock   \* bound on the wall clock

ASSUME ClockAssumption == Ticks \subseteq Nat /\ MaxClock \in Nat

VARIABLES
  call,      \* call[p]: the repository call of process p
  clock,     \* the latest wall-clock reading that a write was stamped with
  snapIds    \* record ids minted by save_snapshot

repoVars == <<record, version, createdBy, snapshotOf, call, clock, snapIds>>
vars == <<held, nextVid, repoVars>>

Methods == {"find", "list_by_creator", "save", "save_snapshot", "add_version",
            "transition_to_fixed", "delete"}
HeldOps == {"new", "update", "snapshot", "fix"}
Awaits  == {"row", "versions", "creator", "edges", "exists", "create",
            "relate", "append", "seal", "cascade"}
Rets    == {"none", "ok", "found", "missing", "exists", "conflict", "fixed",
            "empty", "no_creator", "bad_hash", "refused", "listed", "error"}

Call == [op : Methods \cup {"none"}, pc : Awaits \cup {"idle"}, id : Ids,
         creator : Creators, hash : Hashes, row : RecordRow,
         rows : SUBSET VersionRow, chain : Seq(VersionRow),
         todo : SUBSET Ids, out : SUBSET Ids, source : Ids, ret : Rets]

Idle == [op |-> "none", pc |-> "idle", id |-> CHOOSE i \in Ids : TRUE,
         creator |-> CHOOSE c \in Creators : TRUE, hash |-> NoHash, row |-> NoRow,
         rows |-> {}, chain |-> <<>>, todo |-> {}, out |-> {},
         source |-> CHOOSE i \in Ids : TRUE, ret |-> "none"]

RepoInit ==
  /\ TablesInit
  /\ call = [p \in Procs |-> Idle]
  /\ clock = 0
  /\ snapIds = {}

At(p, pc) == call[p].pc = pc
Become(p, c) == call' = [call EXCEPT ![p] = c]

(* The future returns, its locals are dropped.                             *)
Answer(p, ret) ==
  Become(p, [Idle EXCEPT !.op = call[p].op, !.id = call[p].id, !.ret = ret])

(* A call starts with the code that precedes its first await.              *)
Start(p, op, c) ==
  /\ op \in Ops
  /\ At(p, "idle")
  /\ Become(p, [c EXCEPT !.op = op])

(* Utc::now(); with 0 \in Ticks two readings may coincide.                 *)
Stamp(now) == now - clock \in Ticks /\ clock' = now

-----------------------------------------------------------------------------
(* Table reads.                                                            *)

StartFind(p, i) ==
  /\ Start(p, "find", [Idle EXCEPT !.pc = "row", !.id = i])
  /\ UNCHANGED <<tableVars, clock, snapIds>>

StartList(p, c) ==
  /\ Start(p, "list_by_creator", [Idle EXCEPT !.pc = "edges", !.creator = c])
  /\ UNCHANGED <<tableVars, clock, snapIds>>

(* Mutant: a listed record is not taken off the list.                      *)
NextListedKeeps(p, todo, out) ==
  \/ /\ todo = {}
     /\ Become(p, [Idle EXCEPT !.op = call[p].op, !.creator = call[p].creator,
                               !.out = out, !.ret = "listed"])
  \/ \E i \in todo :
       Become(p, [call[p] EXCEPT !.pc = "row", !.id = i, !.todo = todo,
                                 !.out = out, !.row = NoRow, !.chain = <<>>])

(* list_by_creator assembles the records of its edges one after another.   *)
NextListed(p, todo, out) ==
  \/ /\ todo = {}
     /\ Become(p, [Idle EXCEPT !.op = call[p].op, !.creator = call[p].creator,
                               !.out = out, !.ret = "listed"])
  \/ \E i \in todo :
       Become(p, [call[p] EXCEPT !.pc = "row", !.id = i, !.todo = todo \ {i},
                                 !.out = out, !.row = NoRow, !.chain = <<>>])

(* Mutant: the WHERE in = of the edge query is missing.                    *)
ReadAllEdges(p) ==
  /\ At(p, "edges")
  /\ NextListed(p, {e.out : e \in createdBy}, {})
  /\ UNCHANGED <<tableVars, clock, snapIds>>

ReadEdges(p) ==
  /\ At(p, "edges")
  /\ NextListed(p, {e.out : e \in {f \in createdBy : f.by = call[p].creator}}, {})
  /\ UNCHANGED <<tableVars, clock, snapIds>>

(* assemble, first query: SELECT the record row.                           *)
ReadRow(p) ==
  /\ At(p, "row")
  /\ LET i == call[p].id IN
     \/ /\ Exists(i)
        /\ Become(p, [call[p] EXCEPT !.pc = "versions", !.row = record[i]])
     \/ /\ ~Exists(i)
        /\ \/ call[p].op = "find" /\ Answer(p, "missing")
           \/ call[p].op = "transition_to_fixed" /\ Answer(p, "empty")
           \/ /\ call[p].op = "list_by_creator"
              /\ NextListed(p, call[p].todo, call[p].out)
  /\ UNCHANGED <<tableVars, clock, snapIds>>

(* assemble, second query: fetch_versions.                                 *)
ReadVersions(p) ==
  /\ At(p, "versions")
  /\ \E s \in OrderedReads(call[p].id) :
       Become(p, [call[p] EXCEPT !.pc = "creator", !.chain = s])
  /\ UNCHANGED <<tableVars, clock, snapIds>>

(* persisted_row_to_any: what the row and chain that were read amount to.  *)
Assembled(row, chain) ==
  CASE (row.hash # NoHash) # (row.state = "fixed") -> "bad_hash"
    [] chain = <<>>                                -> "empty"
    [] OTHER                                       -> "found"

(* transition_to_fixed between its read and its transaction: refuse what   *)
(* is Fixed, else rewrite the trailing body that was read.  "rows" holds   *)
(* the rewritten version, "row" the record columns to be written.          *)
PrepareSeal(p) ==
  LET c == call[p]
      last == c.chain[Len(c.chain)]
  IN \/ /\ c.row.state = "fixed"
        /\ Answer(p, "fixed")
        /\ UNCHANGED clock
     \/ /\ c.row.state # "fixed"
        /\ \E now \in 0 .. MaxClock :
             /\ Stamp(now)
             /\ Become(p, [c EXCEPT !.pc = "seal",
                  !.row = [state |-> "fixed", hash |-> c.hash, updated |-> now],
                  !.rows = {[last EXCEPT !.body = Fossil(@, c.hash)]}])

(* assemble, third query: fetch_attribution; then the caller goes on.      *)
ReadCreator(p) ==
  /\ At(p, "creator")
  /\ LET c == call[p]
         result == IF EdgesTo(c.id) = {} THEN "no_creator"
                   ELSE Assembled(c.row, c.chain)
     IN \/ result # "found" /\ Answer(p, result) /\ UNCHANGED clock
        \/ /\ result = "found" /\ c.op = "find"
           /\ Become(p, [c EXCEPT !.pc = "idle", !.ret = "found"])
           /\ UNCHANGED clock
        \/ /\ result = "found" /\ c.op = "list_by_creator"
           /\ NextListed(p, c.todo, c.out \cup {c.id})
           /\ UNCHANGED clock
        \/ result = "found" /\ c.op = "transition_to_fixed" /\ PrepareSeal(p)
  /\ UNCHANGED <<tableVars, snapIds>>

-----------------------------------------------------------------------------
(* Writes.                                                                 *)

RowOf(rec, now) == [state |-> rec.state, hash |-> rec.hash, updated |-> now]

(* record_to_persisted_row: one timestamp for the whole chain.             *)
RowsOf(rec, id, now) ==
  {[vid |-> rec.chain[j].vid, rid |-> id, body |-> rec.chain[j].body,
    at |-> now] : j \in DOMAIN rec.chain}

(* save: Snapshots are refused at once; for the others the row is built,   *)
(* then its id is looked up ...                                            *)
StartSave(p, rec, creator) ==
  /\ \/ /\ rec.state = "snapshot"
        /\ Start(p, "save", [Idle EXCEPT !.id = rec.id, !.ret = "refused"])
        /\ UNCHANGED clock
     \/ /\ rec.state # "snapshot"
        /\ \E now \in 0 .. MaxClock :
             /\ Stamp(now)
             /\ Start(p, "save", [Idle EXCEPT !.pc = "exists", !.id = rec.id,
                  !.creator = creator, !.row = RowOf(rec, now),
                  !.rows = RowsOf(rec, rec.id, now)])
  /\ UNCHANGED <<tableVars, snapIds>>

CheckExists(p) ==
  /\ At(p, "exists")
  /\ LET c == call[p] IN
     \/ c.op = "save" /\ Exists(c.id) /\ Answer(p, "exists")
     \/ c.op = "save" /\ ~Exists(c.id) /\ Become(p, [c EXCEPT !.pc = "create"])
     \/ c.op = "delete" /\ ~Exists(c.id) /\ Answer(p, "missing")
     \/ c.op = "delete" /\ Exists(c.id) /\ Become(p, [c EXCEPT !.pc = "cascade"])
  /\ UNCHANGED <<tableVars, clock, snapIds>>

(* ... and the row is written without looking again.                       *)
CommitCreate(p) ==
  /\ At(p, "create")
  /\ LET c == call[p] IN
     \/ /\ ~CanCreate(c.id, c.rows)
        /\ Answer(p, "conflict")
        /\ UNCHANGED tableVars
     \/ /\ CanCreate(c.id, c.rows)
        /\ Create(c.id, c.row, c.rows, c.creator)
        /\ \/ c.op = "save" /\ Answer(p, "ok")
           \/ c.op = "save_snapshot" /\ Become(p, [c EXCEPT !.pc = "relate"])
           \/ Answer(p, "error")
  /\ UNCHANGED <<clock, snapIds>>

(* save_snapshot mints a record id and a version id for each version.      *)
MintedId(i) == i \in snapIds \/ \E h \in Ids : held[h].state # "none" /\ held[h].id = i

(* Mutant: the versions keep the ids they share with the source.           *)
ReMintedNot(rec) == rec

ReMinted(rec) ==
  [rec EXCEPT !.chain =
     [j \in DOMAIN rec.chain |-> [rec.chain[j] EXCEPT !.vid = nextVid + j - 1]]]

StartSaveSnapshot(p, rec, creator, new) ==
  /\ rec.state = "snapshot"
  /\ ~MintedId(new)
  /\ nextVid + Len(rec.chain) <= MaxVid
  /\ nextVid' = nextVid + Len(rec.chain)
  /\ snapIds' = snapIds \cup {new}
  /\ \E now \in 0 .. MaxClock :
       /\ Stamp(now)
       /\ Start(p, "save_snapshot", [Idle EXCEPT !.pc = "create", !.id = new,
            !.creator = creator, !.source = rec.id, !.row = RowOf(rec, now),
            !.rows = RowsOf(ReMinted(rec), new, now)])
  /\ UNCHANGED tableVars

(* The second query of save_snapshot, outside the transaction of the first.*)
CommitRelate(p) ==
  /\ At(p, "relate")
  /\ RelateSnapshot(call[p].id, call[p].source)
  /\ \E ret \in {"ok", "error"} : Answer(p, ret)
  /\ UNCHANGED <<clock, snapIds>>

(* add_version: the id and the timestamp are taken before the transaction, *)
(* which asks neither for the state of the record nor whether it exists.   *)
StartAddVersion(p, i, body) ==
  /\ nextVid < MaxVid
  /\ nextVid' = nextVid + 1
  /\ \E now \in 0 .. MaxClock :
       /\ Stamp(now)
       /\ Start(p, "add_version", [Idle EXCEPT !.pc = "append", !.id = i,
            !.rows = {[vid |-> nextVid, rid |-> i, body |-> body, at |-> now]}])
  /\ UNCHANGED <<tableVars, snapIds>>

CommitAppend(p) ==
  /\ At(p, "append")
  /\ \E v \in call[p].rows : AppendVersion(v)
  /\ \E ret \in {"ok", "error"} : Answer(p, ret)
  /\ UNCHANGED <<clock, snapIds>>

StartTransition(p, i, hash) ==
  /\ Start(p, "transition_to_fixed",
           [Idle EXCEPT !.pc = "row", !.id = i, !.hash = hash])
  /\ UNCHANGED <<tableVars, clock, snapIds>>

CommitSeal(p) ==
  /\ At(p, "seal")
  /\ LET c == call[p] IN
     \E v \in c.rows : SealRecord(c.id, c.row.hash, c.row.updated, v.vid, v.body)
  /\ \E ret \in {"ok", "error"} : Answer(p, ret)
  /\ UNCHANGED <<clock, snapIds>>

StartDelete(p, i) ==
  /\ Start(p, "delete", [Idle EXCEPT !.pc = "exists", !.id = i])
  /\ UNCHANGED <<tableVars, clock, snapIds>>

CommitDelete(p) ==
  /\ At(p, "cascade")
  /\ DeleteCascade(call[p].id)
  /\ \E ret \in {"ok", "error"} : Answer(p, ret)
  /\ UNCHANGED <<clock, snapIds>>

(* A query fails, a transaction is rolled back, or the future is dropped.  *)
Fail(p) ==
  /\ ~At(p, "idle")
  /\ Answer(p, "error")
  /\ UNCHANGED <<held, nextVid, tableVars, clock, snapIds>>

-----------------------------------------------------------------------------
(* The next query of a call that is under way is answered.                 *)
Query(p) ==
  /\ \/ ReadEdges(p) \/ ReadRow(p) \/ ReadVersions(p) \/ ReadCreator(p)
     \/ CheckExists(p) \/ CommitCreate(p) \/ CommitRelate(p)
     \/ CommitAppend(p) \/ CommitSeal(p) \/ CommitDelete(p)
  /\ UNCHANGED <<held, nextVid>>

(* Callers of the crate: any method at any time, on any record id they may *)
(* have kept, and on any record value they hold.                           *)
Begin(p) ==
  \/ /\ \E i \in Ids :
          \/ StartFind(p, i) \/ StartDelete(p, i)
          \/ \E x \in Bytes : StartTransition(p, i, x)
     /\ UNCHANGED <<held, nextVid>>
  \/ \E c \in Creators : StartList(p, c) /\ UNCHANGED <<held, nextVid>>
  \/ \E h \in Ids, c \in Creators :
       /\ held[h].state # "none"
       /\ \/ StartSave(p, held[h], c) /\ UNCHANGED nextVid
          \/ \E new \in Ids : StartSaveSnapshot(p, held[h], c, new)
       /\ UNCHANGED held
  \/ \E i \in Ids, b \in Bodies : StartAddVersion(p, i, b) /\ UNCHANGED held

Hold ==
  /\ \E h \in Ids :
       \/ \E b \in Bodies : "new" \in Ops /\ h \notin snapIds /\ New(h, b)
       \/ \E b \in Bodies : "update" \in Ops /\ Update(h, b)
       \/ \E g \in Ids : "snapshot" \in Ops /\ Snapshot(h, g)
       \/ \E x \in Bytes : "fix" \in Ops /\ Fix(h, x)
  /\ UNCHANGED repoVars

Init == CoreInit /\ RepoInit

Next ==
  \/ Hold
  \/ \E p \in Procs : Begin(p) \/ Query(p) \/ Fail(p)

Spec == Init /\ [][Next]_vars

(* The runtime polls every future and the database answers every query; no *)
(* caller is obliged to make another call, and no query to fail.           *)
FairSpec == Spec /\ \A p \in Procs : WF_vars(Query(p))

-----------------------------------------------------------------------------
RepoTypeOK ==
  /\ TablesTypeOK
  /\ call \in [Procs -> Call]
  /\ clock \in 0 .. MaxClock
  /\ snapIds \subseteq Ids

TypeOK == CoreTypeOK /\ RepoTypeOK

(* Fossilization is irreversible: no interleaving of writers that decided  *)
(* on an older reading of the row takes a Fixed record back to Mutable or  *)
(* Snapshot.  (What it may still do to its hash and chain: see below.)     *)
FixedNeverReverts ==
  [][\A i \in Ids : record[i].state = "fixed"
                     => record'[i].state \in {"fixed", "absent"}]_vars

(* A stored version is never lost nor edited while its record is there:    *)
(* its row keeps its id, owner and time, and its body up to the migration  *)
(* of a key to /fixed.  It goes only when a delete leaves no such record.  *)
StoredVersionsSurvive ==
  [][\A v \in version :
       \/ \E w \in version' : /\ w.vid = v.vid /\ w.rid = v.rid /\ w.at = v.at
                              /\ SameVersion(v.body, w.body)
       \/ record'[v.rid].state = "absent"]_vars

(* The same version id never shows two contents, in the table or in a      *)
(* record value that some caller still holds.                              *)
StoredVersionsMatchHeld ==
  \A v \in version, h \in Ids : \A j \in DOMAIN held[h].chain :
    held[h].chain[j].vid = v.vid => SameVersion(held[h].chain[j].body, v.body)

(* Without deletes: once transition_to_fixed has answered Ok the record is *)
(* Fixed, and stays so.                                                    *)
AcknowledgedFixHolds ==
  \A p \in Procs :
    call[p].op = "transition_to_fixed" /\ call[p].ret = "ok"
      => record[call[p].id].state = "fixed"

(* State and body are sealed together: the rows of a Fixed record are      *)
(* never all unfossilized keys, although the version to rewrite was chosen *)
(* from an earlier reading of the chain.                                   *)
SealedBodyIsFossil ==
  \A i \in Ids : record[i].state = "fixed" =>
    \E v \in VersionsOf(i) : v.body = Fossil(v.body, record[i].hash)

(* Without deletes: the three queries of find are not one snapshot, yet    *)
(* what they glue together is a record -- never a row without its versions *)
(* or its creator, never a Fixed row with a chain from before its sealing. *)
FindsAreWhole ==
  \A p \in Procs : call[p].op = "find" =>
    /\ call[p].ret \notin {"no_creator", "empty", "bad_hash"}
    /\ call[p].ret = "found" /\ call[p].row.state = "fixed" =>
         \E j \in DOMAIN call[p].chain :
           call[p].chain[j].body.form \in {"inline", "fixed"}

(* Without deletes: list_by_creator is never cut short by a record that it *)
(* cannot assemble, and lists only what its creator created, however many  *)
(* saves of the same records by other creators run in between.             *)
ListsAreWhole ==
  \A p \in Procs : call[p].op = "list_by_creator" =>
    /\ call[p].ret \notin {"no_creator", "empty", "bad_hash"}
    /\ \A i \in call[p].out : [by |-> call[p].creator, out |-> i] \in createdBy

(* save_snapshot mints its record id and all its version ids, so that its  *)
(* transaction never collides with the rows of the source, of another      *)
(* snapshot of it, or of a version appended meanwhile.                     *)
SnapshotsNeverCollide ==
  \A p \in Procs : call[p].op = "save_snapshot" => call[p].ret # "conflict"

(* Without deletes: the second query of save_snapshot is not in the        *)
(* transaction of the first, and may fail alone.  But what it links is     *)
(* stored, as what it was saved, to one source; and a save_snapshot that   *)
(* has answered Ok is linked.                                              *)
SnapshotsAreLinked ==
  /\ \A e \in snapshotOf :
       /\ e.from \in snapIds /\ record[e.from].state \in {"snapshot", "fixed"}
       /\ VersionsOf(e.from) # {}
       /\ \A f \in snapshotOf : f.from = e.from => f = e
  /\ \A p \in Procs : call[p].op = "save_snapshot" /\ call[p].ret = "ok" =>
       \E e \in snapshotOf : e.from = call[p].id

(* Every call returns: no query of one call waits for another call, and    *)
(* the loop of list_by_creator ends however many records are saved under it*)
CallsReturn ==
  \A p \in Procs : ~At(p, "idle") ~> At(p, "idle")

-----------------------------------------------------------------------------
(* What the documents say and the code does not do; each of these is       *)
(* violated by a run of its own.                                           *)

(* core lib.rs:31: Fixed is irreversible -- so also which digest it is.    *)
SealedHashNeverChanges ==
  [][\A i \in Ids : record[i].state = "fixed" /\ record'[i].state = "fixed"
                     => record'[i].hash = record[i].hash]_vars

(* persisted.rs:54-58: updated_at is the time of the most recent write, so *)
(* that "records modified since X" is a range query: it never goes back.   *)
UpdatedAtNeverGoesBack ==
  [][\A i \in Ids : Exists(i) /\ Exists(i)'
                     => record'[i].updated >= record[i].updated]_vars
=============================================================================
