--------------------------- MODULE RecordTables ---------------------------
(***************************************************************************)
(* The SurrealDB tables of crate objectrecords-db, and the transactions    *)
(* that repository.rs sends to them.                                       *)
(*                                                                         *)
(* SurrealDB itself is external.  What the code relies on is modelled: one *)
(* query is atomic; BEGIN ... COMMIT is all or nothing; CREATE of an id    *)
(* that is taken aborts its transaction; UPDATE and DELETE of a row that   *)
(* is not there do nothing; RELATE does not ask whether its ends exist;    *)
(* ORDER BY leaves rows with equal keys in no particular order.            *)
(*                                                                         *)
(* created_at of the record row and "at" of the edges are written once and *)
(* never read back into a decision, and are left out.                      *)
(***************************************************************************)
EXTENDS RecordCore

CONSTANTS Creators   \* the creo_user things that edges start from

ASSUME CreatorsAssumption == Creators # {}

VARIABLES
  record,      \* table record: one row for every id, "absent" if there is none
  version,     \* table version, a set of rows
  createdBy,   \* edges creo_user -> created_by  -> record
  snapshotOf   \* edges record    -> snapshot_of -> record

tableVars == <<record, version, createdBy, snapshotOf>>

RecordRow  == [state : States \cup {"absent"}, hash : Hashes, updated : Nat]
VersionRow == [vid : Vids, rid : Ids, body : Body, at : Nat]

NoRow == [state |-> "absent", hash |-> NoHash, updated |-> 0]

Exists(i) == record[i].state # "absent"
VersionsOf(i) == {v \in version : v.rid = i}
EdgesTo(i) == {e \in createdBy : e.out = i}

TablesInit ==
  /\ record = [i \in Ids |-> NoRow]
  /\ version = {} /\ createdBy = {} /\ snapshotOf = {}

-----------------------------------------------------------------------------
(* SELECT * FROM version WHERE record_id = i ORDER BY created_at ASC: any  *)
(* order of the rows that the timestamps allow.                            *)
OrderedReads(i) ==
  LET n == Cardinality(VersionsOf(i)) IN
  {s \in [1 .. n -> VersionsOf(i)] :
     \A j, k \in 1 .. n : j < k => s[j] # s[k] /\ s[j].at <= s[k].at}

-----------------------------------------------------------------------------
(* Mutant: UPSERT instead of CREATE.                                       *)
CanUpsert(i, rows) == TRUE

(* write_record_atomic: record row, version rows and created_by edge in    *)
(* one transaction, which the database accepts if no id is taken ...       *)
CanCreate(i, rows) ==
  /\ ~Exists(i)
  /\ \A v \in version, w \in rows : v.vid # w.vid

Create(i, row, rows, creator) ==
  /\ record' = [record EXCEPT ![i] = row]
  /\ version' = version \cup rows
  /\ createdBy' = createdBy \cup {[by |-> creator, out |-> i]}
  /\ UNCHANGED snapshotOf

(* Mutant: the new version replaces the chain.                             *)
AppendReplaces(row) ==
  /\ version' = (version \ VersionsOf(row.rid)) \cup {row}
  /\ record' = [record EXCEPT ![row.rid] =
                  IF Exists(row.rid) THEN [@ EXCEPT !.updated = row.at] ELSE @]
  /\ UNCHANGED <<createdBy, snapshotOf>>

(* Mutant: an append that finds its record Fixed silently writes nothing.  *)
AppendUnlessFixed(row) ==
  /\ version' = IF record[row.rid].state = "fixed" THEN version ELSE version \cup {row}
  /\ UNCHANGED <<record, createdBy, snapshotOf>>

(* add_version: CREATE version; UPDATE record SET updated_at.              *)
AppendVersion(row) ==
  /\ version' = version \cup {row}
  /\ record' = [record EXCEPT ![row.rid] =
                  IF Exists(row.rid) THEN [@ EXCEPT !.updated = row.at] ELSE @]
  /\ UNCHANGED <<createdBy, snapshotOf>>

(* Mutant: the hash is written, the state is not.                          *)
SealLeavesState(i, hash, now, vid, body) ==
  /\ record' = [record EXCEPT ![i] = IF Exists(i) THEN [@ EXCEPT !.hash = hash] ELSE @]
  /\ UNCHANGED <<version, createdBy, snapshotOf>>

(* Mutant: the state is written, the hash is not.                          *)
SealForgetsHash(i, hash, now, vid, body) ==
  /\ record' = [record EXCEPT ![i] = IF Exists(i) THEN [@ EXCEPT !.state = "fixed"] ELSE @]
  /\ UNCHANGED <<version, createdBy, snapshotOf>>

(* Mutant: the key of the trailing version is not rewritten.               *)
SealKeepsBody(i, hash, now, vid, body) ==
  /\ record' = [record EXCEPT ![i] =
                  IF Exists(i)
                  THEN [state |-> "fixed", hash |-> hash, updated |-> now]
                  ELSE @]
  /\ UNCHANGED <<version, createdBy, snapshotOf>>

(* Mutant: UPDATE version ... WHERE record_id, not of the one version.     *)
SealRewritesAll(i, hash, now, vid, body) ==
  /\ record' = [record EXCEPT ![i] =
                  IF Exists(i)
                  THEN [state |-> "fixed", hash |-> hash, updated |-> now]
                  ELSE @]
  /\ version' = {IF v.rid = i THEN [v EXCEPT !.body = body] ELSE v : v \in version}
  /\ UNCHANGED <<createdBy, snapshotOf>>

(* transition_to_fixed: UPDATE record SET state, content_hash, updated_at; *)
(* UPDATE version SET body.                                                *)
SealRecord(i, hash, now, vid, body) ==
  /\ record' = [record EXCEPT ![i] =
                  IF Exists(i)
                  THEN [state |-> "fixed", hash |-> hash, updated |-> now]
                  ELSE @]
  /\ version' = {IF v.vid = vid THEN [v EXCEPT !.body = body] ELSE v :
                   v \in version}
  /\ UNCHANGED <<createdBy, snapshotOf>>

(* Mutant: the cascade forgets the edges.                                  *)
DeleteKeepsEdges(i) ==
  /\ version' = {v \in version : v.rid # i}
  /\ record' = [record EXCEPT ![i] = NoRow]
  /\ UNCHANGED <<createdBy, snapshotOf>>

(* Mutant: the cascade stops half-way, without a transaction around it.    *)
DeleteStopsHalfway(i) ==
  /\ version' = {v \in version : v.rid # i}
  /\ UNCHANGED <<record, createdBy, snapshotOf>>

(* delete: edges, versions and record in one transaction.                  *)
DeleteCascade(i) ==
  /\ createdBy' = {e \in createdBy : e.out # i}
  /\ snapshotOf' = {e \in snapshotOf : e.from # i /\ e.to # i}
  /\ version' = {v \in version : v.rid # i}
  /\ record' = [record EXCEPT ![i] = NoRow]

(* Mutant: RELATE source -> snapshot_of -> new.                            *)
RelateReversed(new, source) ==
  /\ snapshotOf' = snapshotOf \cup {[from |-> source, to |-> new]}
  /\ UNCHANGED <<record, version, createdBy>>

(* save_snapshot's second query: RELATE new -> snapshot_of -> source.      *)
RelateSnapshot(new, source) ==
  /\ snapshotOf' = snapshotOf \cup {[from |-> new, to |-> source]}
  /\ UNCHANGED <<record, version, createdBy>>

-----------------------------------------------------------------------------
TablesTypeOK ==
  /\ record \in [Ids -> RecordRow]
  /\ version \subseteq VersionRow
  /\ createdBy \subseteq [by : Creators, out : Ids]
  /\ snapshotOf \subseteq [from : Ids, to : Ids]

(* Paradigm II: every stored record has exactly one created_by edge, so    *)
(* that fetch_attribution (LIMIT 1, an error if none) has one answer; and  *)
(* no edge leads to a record that is gone.                                 *)
EveryRecordHasOneCreator ==
  /\ \A i \in Ids : Exists(i) =>
       /\ \E e \in createdBy : e.out = i
       /\ \A e, f \in createdBy : e.out = i /\ f.out = i => e = f
  /\ \A e \in createdBy : Exists(e.out)

(* Every stored record has a version, whatever mixture of saves, appends,  *)
(* transitions and deletes ran: trailing_body and persisted_row_to_any     *)
(* never meet an empty chain in the tables.                                *)
EveryRecordHasAVersion ==
  \A i \in Ids : Exists(i) => VersionsOf(i) # {}

(* content_hash IS NOT NULL exactly in the rows whose state is fixed, as   *)
(* TryFrom<PersistedRow> for Record<S> demands of every row it reads.      *)
HashExactlyWhenFixed ==
  \A i \in Ids : record[i].hash # NoHash <=> record[i].state = "fixed"
=============================================================================
