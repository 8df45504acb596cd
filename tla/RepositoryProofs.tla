------------------------- MODULE RepositoryProofs -------------------------
(***************************************************************************)
(* Proofs about Repository, for any number of callers, records, creators   *)
(* and payloads: however the queries of the seven methods interleave, fail *)
(* or are dropped, the tables stay in step with each other and a Fixed     *)
(* record never becomes anything but Fixed or deleted.                     *)
(*                                                                         *)
(* Inv, the inductive invariant, is the types, the three invariants of the *)
(* tables, and what a suspended call knows (CallOK): that the row a save   *)
(* is about to create is not empty, has its versions and has a hash just   *)
(* if it is Fixed; that the row of a transition is a Fixed one.  CallOK    *)
(* speaks of one call only, never of the tables, so no step of another     *)
(* call can disturb it; this is why the repository needs no locks for the  *)
(* invariants proved here.                                                 *)
(***************************************************************************)
EXTENDS Repository, RecordCoreProofs, FiniteSetTheorems

(* A row and versions that may be created together, under one id.          *)
Creatable(row, rows, id) ==
  /\ row.state \in States
  /\ row.hash # NoHash <=> row.state = "fixed"
  /\ rows # {}
  /\ \A v \in rows : v.rid = id

(* What a call knows across its awaits.                                    *)
CallOK(c) ==
  /\ c \in Call
  /\ IsFiniteSet(c.rows)
  /\ c.pc = "create" \/ (c.pc = "exists" /\ c.op = "save")
       => Creatable(c.row, c.rows, c.id)
  /\ c.pc = "edges" => c.op = "list_by_creator"
  /\ c.op = "transition_to_fixed" /\ c.pc \in {"row", "versions", "creator"}
       => c.hash \in Bytes
  /\ c.pc = "seal" => c.row.state = "fixed" /\ c.row.hash \in Bytes

TablesOK ==
  /\ TablesTypeOK
  /\ IsFiniteSet(version)
  /\ EveryRecordHasOneCreator
  /\ EveryRecordHasAVersion
  /\ HashExactlyWhenFixed

CallsOK ==
  /\ call \in [Procs -> Call]
  /\ \A p \in Procs : CallOK(call[p])

RepoOK ==
  /\ TablesOK /\ CallsOK
  /\ clock \in 0 .. MaxClock
  /\ snapIds \subseteq Ids

Inv == HeldOK /\ RepoOK

-----------------------------------------------------------------------------
(* The transactions keep the tables in step.                               *)

LEMMA CreateKeepsTables ==
  ASSUME TablesOK, NEW i \in Ids, NEW row \in RecordRow, NEW rows \in SUBSET VersionRow,
         NEW c \in Creators, IsFiniteSet(rows), Creatable(row, rows, i),
         CanCreate(i, rows), Create(i, row, rows, c)
  PROVE  TablesOK'
<1> USE DEF TablesOK, Create
<1>1. record \in [Ids -> RecordRow] BY DEF TablesTypeOK
<1>2. TablesTypeOK' BY DEF TablesTypeOK
<1>3. IsFiniteSet(version') BY FS_Union
<1>4. \A j \in Ids : record'[j] = IF j = i THEN row ELSE record[j]
  BY <1>1
<1>5. row.state # "absent" BY DEF Creatable, States
<1>6. EveryRecordHasOneCreator'
  <2>1. \A e \in createdBy : e.out # i
    BY DEF EveryRecordHasOneCreator, CanCreate
  <2>2. \A j \in Ids : Exists(j)' <=> j = i \/ Exists(j)
    BY <1>4, <1>5 DEF Exists
  <2>3. [by |-> c, out |-> i].out = i OBVIOUS
  <2>4. \A j \in Ids : Exists(j)' =>
          /\ \E e \in createdBy' : e.out = j
          /\ \A e, f \in createdBy' : e.out = j /\ f.out = j => e = f
    BY <2>1, <2>2, <2>3 DEF EveryRecordHasOneCreator
  <2>5. \A e \in createdBy' : Exists(e.out)'
    BY <2>2, <2>3, <1>2 DEF EveryRecordHasOneCreator, TablesTypeOK
  <2>6. QED BY <2>4, <2>5 DEF EveryRecordHasOneCreator
<1>7. EveryRecordHasAVersion'
  BY <1>4 DEF EveryRecordHasAVersion, VersionsOf, Creatable, Exists
<1>8. HashExactlyWhenFixed'
  BY <1>4 DEF HashExactlyWhenFixed, Creatable
<1>9. QED BY <1>2, <1>3, <1>6, <1>7, <1>8

LEMMA AppendKeepsTables ==
  ASSUME TablesOK, NEW v \in VersionRow, AppendVersion(v)
  PROVE  TablesOK'
<1> USE DEF TablesOK, AppendVersion
<1>1. record \in [Ids -> RecordRow] BY DEF TablesTypeOK
<1>2. v.rid \in Ids /\ v.at \in Nat BY DEF VersionRow
<1>3. record' \in [Ids -> RecordRow] BY <1>1, <1>2 DEF RecordRow
<1>4. \A i \in Ids : record'[i].state = record[i].state /\ record'[i].hash = record[i].hash
  BY <1>1, <1>2 DEF RecordRow
<1>5. TablesTypeOK' BY <1>3 DEF TablesTypeOK
<1>6. IsFiniteSet(version') BY FS_AddElement
<1>7. EveryRecordHasOneCreator'
  BY <1>4 DEF EveryRecordHasOneCreator, Exists, TablesTypeOK
<1>8. EveryRecordHasAVersion'
  BY <1>4 DEF EveryRecordHasAVersion, VersionsOf, Exists
<1>9. HashExactlyWhenFixed' BY <1>4 DEF HashExactlyWhenFixed
<1>10. QED BY <1>5, <1>6, <1>7, <1>8, <1>9

LEMMA SealKeepsTables ==
  ASSUME TablesOK, NEW i \in Ids, NEW hash \in Bytes, NEW now \in Nat,
         NEW v \in VersionRow, SealRecord(i, hash, now, v.vid, v.body)
  PROVE  TablesOK'
<1> USE DEF TablesOK, SealRecord
<1> DEFINE new(w) == IF w.vid = v.vid THEN [w EXCEPT !.body = v.body] ELSE w
<1>1. record \in [Ids -> RecordRow] BY DEF TablesTypeOK
<1>2. version' = {new(w) : w \in version} OBVIOUS
<1>3. \A w \in version : new(w) \in VersionRow /\ new(w).rid = w.rid
  BY DEF TablesTypeOK, VersionRow
<1>4. [state |-> "fixed", hash |-> hash, updated |-> now] \in RecordRow
  BY DEF RecordRow, States, Hashes
<1>5. \A j \in Ids : record'[j] = IF j = i /\ Exists(i)
                                   THEN [state |-> "fixed", hash |-> hash, updated |-> now]
                                   ELSE record[j]
  BY <1>1
<1>6. TablesTypeOK' BY <1>1, <1>2, <1>3, <1>4, <1>5 DEF TablesTypeOK
<1>7. IsFiniteSet(version')
  <2> DEFINE f == [w \in version |-> new(w)]
  <2>1. f \in Surjection(version, version') BY <1>2 DEF Surjection
  <2>2. QED BY <2>1, FS_Surjection
<1>8. \A j \in Ids : Exists(j)' <=> Exists(j) BY <1>5 DEF Exists
<1>9. EveryRecordHasOneCreator' BY <1>8 DEF EveryRecordHasOneCreator, TablesTypeOK
<1>10. EveryRecordHasAVersion'
  <2> SUFFICES ASSUME NEW j \in Ids, Exists(j)
               PROVE  \E w \in version' : w.rid = j
    BY <1>8 DEF EveryRecordHasAVersion, VersionsOf
  <2>1. PICK w \in version : w.rid = j BY DEF EveryRecordHasAVersion, VersionsOf
  <2>2. new(w) \in version' /\ new(w).rid = j BY <1>2, <1>3, <2>1
  <2>3. QED BY <2>2
<1>11. HashExactlyWhenFixed' BY <1>5, HashAssumption DEF HashExactlyWhenFixed
<1>12. QED BY <1>6, <1>7, <1>9, <1>10, <1>11

LEMMA DeleteKeepsTables ==
  ASSUME TablesOK, NEW i \in Ids, DeleteCascade(i)
  PROVE  TablesOK'
<1> USE DEF TablesOK, DeleteCascade
<1>1. record \in [Ids -> RecordRow] BY DEF TablesTypeOK
<1>2. NoRow \in RecordRow BY DEF NoRow, RecordRow, Hashes
<1>3. \A j \in Ids : record'[j] = IF j = i THEN NoRow ELSE record[j] BY <1>1
<1>4. TablesTypeOK' BY <1>1, <1>2, <1>3 DEF TablesTypeOK
<1>5. IsFiniteSet(version') BY FS_Subset
<1>6. \A j \in Ids : Exists(j)' <=> j # i /\ Exists(j) BY <1>3 DEF Exists, NoRow
<1>7. EveryRecordHasOneCreator' BY <1>6 DEF EveryRecordHasOneCreator, TablesTypeOK
<1>8. EveryRecordHasAVersion' BY <1>6 DEF EveryRecordHasAVersion, VersionsOf
<1>9. HashExactlyWhenFixed' BY <1>3 DEF HashExactlyWhenFixed, NoRow
<1>10. QED BY <1>4, <1>5, <1>7, <1>8, <1>9

LEMMA RelateKeepsTables ==
  ASSUME TablesOK, NEW i \in Ids, NEW j \in Ids, RelateSnapshot(i, j)
  PROVE  TablesOK'
BY DEF TablesOK, RelateSnapshot, TablesTypeOK, EveryRecordHasOneCreator,
       EveryRecordHasAVersion, HashExactlyWhenFixed, Exists, VersionsOf

LEMMA UnchangedTables ==
  ASSUME TablesOK, UNCHANGED tableVars
  PROVE  TablesOK'
BY DEF TablesOK, tableVars, TablesTypeOK, EveryRecordHasOneCreator,
       EveryRecordHasAVersion, HashExactlyWhenFixed, Exists, VersionsOf

-----------------------------------------------------------------------------
(* What the local code of a call leaves in its future.                     *)

LEMMA StoreCall ==
  ASSUME CallsOK, NEW p \in Procs, NEW c, CallOK(c), Become(p, c)
  PROVE  CallsOK'
BY DEF CallsOK, CallOK, Become

LEMMA IdleIsCall == Idle \in Call /\ IsFiniteSet(Idle.rows) /\ Idle.pc = "idle"
<1>1. (CHOOSE i \in Ids : TRUE) \in Ids BY IdsAssumption
<1>2. (CHOOSE c \in Creators : TRUE) \in Creators BY CreatorsAssumption
<1>3. <<>> \in Seq(VersionRow) OBVIOUS
<1>4. NoRow \in RecordRow BY DEF NoRow, RecordRow, Hashes
<1>5. QED
  BY <1>1, <1>2, <1>3, <1>4, FS_EmptySet DEF Idle, Call, Awaits, Rets, Hashes

LEMMA AnswerKeepsCalls ==
  ASSUME CallsOK, NEW p \in Procs, NEW ret \in Rets, Answer(p, ret)
  PROVE  CallsOK'
<1> DEFINE c == [Idle EXCEPT !.op = call[p].op, !.id = call[p].id, !.ret = ret]
<1>1. call[p] \in Call BY DEF CallsOK
<1>2. c \in Call /\ c.rows = Idle.rows /\ c.pc = "idle"
  BY <1>1, IdleIsCall DEF Call
<1>3. CallOK(c) BY <1>2, IdleIsCall DEF CallOK
<1>4. QED BY <1>3, StoreCall DEF Answer

LEMMA StartKeepsCalls ==
  ASSUME CallsOK, NEW p \in Procs, NEW op, NEW c, CallOK([c EXCEPT !.op = op]),
         Start(p, op, c)
  PROVE  CallsOK'
BY StoreCall DEF Start

LEMMA NextListedKeepsCalls ==
  ASSUME CallsOK, NEW p \in Procs, call[p].op = "list_by_creator",
         NEW todo \in SUBSET Ids, NEW out \in SUBSET Ids, NextListed(p, todo, out)
  PROVE  CallsOK'
<1>1. call[p] \in Call /\ IsFiniteSet(call[p].rows) BY DEF CallsOK, CallOK
<1>2. CASE todo = {} /\ Become(p, [Idle EXCEPT !.op = call[p].op, !.creator = call[p].creator,
                                               !.out = out, !.ret = "listed"])
  <2> DEFINE c == [Idle EXCEPT !.op = call[p].op, !.creator = call[p].creator,
                               !.out = out, !.ret = "listed"]
  <2>1. c \in Call /\ c.rows = Idle.rows /\ c.pc = "idle"
    BY <1>1, IdleIsCall DEF Call, Rets
  <2>2. CallOK(c) BY <2>1, IdleIsCall DEF CallOK
  <2>3. QED BY <1>2, <2>2, StoreCall
<1>3. ASSUME NEW i \in todo,
             Become(p, [call[p] EXCEPT !.pc = "row", !.id = i, !.todo = todo \ {i},
                                       !.out = out, !.row = NoRow, !.chain = <<>>])
      PROVE  CallsOK'
  <2> DEFINE c == [call[p] EXCEPT !.pc = "row", !.id = i, !.todo = todo \ {i},
                                  !.out = out, !.row = NoRow, !.chain = <<>>]
  <2>1. NoRow \in RecordRow BY DEF NoRow, RecordRow, Hashes
  <2>2. <<>> \in Seq(VersionRow) OBVIOUS
  <2>3. c \in Call /\ c.rows = call[p].rows /\ c.pc = "row" /\ c.op = "list_by_creator"
    BY <1>1, <2>1, <2>2 DEF Call, Awaits
  <2>4. CallOK(c) BY <1>1, <2>3 DEF CallOK
  <2>5. QED BY <1>3, <2>4, StoreCall
<1>4. QED BY <1>2, <1>3 DEF NextListed

(* Reading the versions of a record gives a sequence of them.              *)
LEMMA OrderedReadIsChain ==
  ASSUME TablesOK, NEW i \in Ids, NEW s \in OrderedReads(i)
  PROVE  s \in Seq(VersionRow)
<1> DEFINE n == Cardinality(VersionsOf(i))
<1>1. IsFiniteSet(VersionsOf(i)) BY FS_Subset DEF TablesOK, VersionsOf
<1>2. n \in Nat BY <1>1, FS_CardinalityType
<1>3. VersionsOf(i) \subseteq VersionRow BY DEF TablesOK, TablesTypeOK, VersionsOf
<1>4. s \in [1 .. n -> VersionsOf(i)] BY DEF OrderedReads
<1>5. s \in [1 .. n -> VersionRow] BY <1>3, <1>4
<1>6. QED BY <1>2, <1>5

(* The version rows that a save writes for a chain.                        *)
LEMMA RowsOfChain ==
  ASSUME NEW rec, rec.chain \in Seq(Version), rec.chain # <<>>,
         NEW id \in Ids, NEW now \in Nat
  PROVE  /\ RowsOf(rec, id, now) \in SUBSET VersionRow
         /\ IsFiniteSet(RowsOf(rec, id, now))
         /\ RowsOf(rec, id, now) # {}
         /\ \A v \in RowsOf(rec, id, now) : v.rid = id
<1> DEFINE chain == rec.chain
           n == Len(chain)
           row(j) == [vid |-> chain[j].vid, rid |-> id, body |-> chain[j].body, at |-> now]
           f == [j \in 1 .. n |-> row(j)]
<1>1. /\ n \in Nat /\ DOMAIN chain = 1 .. n /\ 1 \in 1 .. n
      /\ \A j \in 1 .. n : chain[j] \in Version
  OBVIOUS
<1>2. RowsOf(rec, id, now) = {row(j) : j \in 1 .. n} BY <1>1 DEF RowsOf
<1>3. \A j \in 1 .. n : row(j) \in VersionRow /\ row(j).rid = id
  BY <1>1 DEF Version, VersionRow
<1>4. f \in Surjection(1 .. n, RowsOf(rec, id, now)) BY <1>2 DEF Surjection
<1>5. IsFiniteSet(1 .. n) BY <1>1, FS_Interval
<1>6. IsFiniteSet(RowsOf(rec, id, now)) BY <1>4, <1>5, FS_Surjection
<1>7. QED BY <1>1, <1>2, <1>3, <1>6

-----------------------------------------------------------------------------
(* One lemma for each step of a call.                                      *)

LEMMA StartFindStep ==
  ASSUME RepoOK, NEW p \in Procs, NEW i \in Ids, StartFind(p, i)
  PROVE  RepoOK'
<1> DEFINE c == [Idle EXCEPT !.pc = "row", !.id = i]
           d == [c EXCEPT !.op = "find"]
<1>1. d \in Call /\ d.pc = "row" /\ d.op = "find" /\ d.rows = Idle.rows
  BY IdleIsCall DEF Call, Methods, Awaits
<1>2. CallOK(d) BY <1>1, IdleIsCall DEF CallOK
<1>3. CallsOK' BY <1>2, StartKeepsCalls DEF StartFind, RepoOK
<1>4. QED BY <1>3, UnchangedTables DEF StartFind, RepoOK

LEMMA StartListStep ==
  ASSUME RepoOK, NEW p \in Procs, NEW by \in Creators, StartList(p, by)
  PROVE  RepoOK'
<1> DEFINE c == [Idle EXCEPT !.pc = "edges", !.creator = by]
           d == [c EXCEPT !.op = "list_by_creator"]
<1>1. d \in Call /\ d.pc = "edges" /\ d.op = "list_by_creator" /\ d.rows = Idle.rows
  BY IdleIsCall DEF Call, Methods, Awaits
<1>2. CallOK(d) BY <1>1, IdleIsCall DEF CallOK
<1>3. CallsOK' BY <1>2, StartKeepsCalls DEF StartList, RepoOK
<1>4. QED BY <1>3, UnchangedTables DEF StartList, RepoOK

LEMMA StartTransitionStep ==
  ASSUME RepoOK, NEW p \in Procs, NEW i \in Ids, NEW x \in Bytes, StartTransition(p, i, x)
  PROVE  RepoOK'
<1> DEFINE c == [Idle EXCEPT !.pc = "row", !.id = i, !.hash = x]
           d == [c EXCEPT !.op = "transition_to_fixed"]
<1>1. /\ d \in Call /\ d.pc = "row" /\ d.op = "transition_to_fixed"
      /\ d.rows = Idle.rows /\ d.hash = x
  BY IdleIsCall DEF Call, Methods, Awaits, Hashes
<1>2. CallOK(d) BY <1>1, IdleIsCall DEF CallOK
<1>3. CallsOK' BY <1>2, StartKeepsCalls DEF StartTransition, RepoOK
<1>4. QED BY <1>3, UnchangedTables DEF StartTransition, RepoOK

LEMMA StartDeleteStep ==
  ASSUME RepoOK, NEW p \in Procs, NEW i \in Ids, StartDelete(p, i)
  PROVE  RepoOK'
<1> DEFINE c == [Idle EXCEPT !.pc = "exists", !.id = i]
           d == [c EXCEPT !.op = "delete"]
<1>1. d \in Call /\ d.pc = "exists" /\ d.op = "delete" /\ d.rows = Idle.rows
  BY IdleIsCall DEF Call, Methods, Awaits
<1>2. CallOK(d) BY <1>1, IdleIsCall DEF CallOK
<1>3. CallsOK' BY <1>2, StartKeepsCalls DEF StartDelete, RepoOK
<1>4. QED BY <1>3, UnchangedTables DEF StartDelete, RepoOK

LEMMA ReadEdgesStep ==
  ASSUME RepoOK, NEW p \in Procs, ReadEdges(p)
  PROVE  RepoOK'
<1> DEFINE todo == {e.out : e \in {f \in createdBy : f.by = call[p].creator}}
<1>1. todo \in SUBSET Ids BY DEF RepoOK, TablesOK, TablesTypeOK
<1>2. call[p].op = "list_by_creator" BY DEF ReadEdges, At, RepoOK, CallsOK, CallOK
<1>3. CallsOK' BY <1>1, <1>2, NextListedKeepsCalls DEF ReadEdges, RepoOK
<1>4. QED BY <1>3, UnchangedTables DEF ReadEdges, RepoOK

LEMMA ReadRowStep ==
  ASSUME RepoOK, NEW p \in Procs, ReadRow(p)
  PROVE  RepoOK'
<1> DEFINE i == call[p].id
<1>1. call[p] \in Call /\ CallOK(call[p]) BY DEF RepoOK, CallsOK
<1>2. CallsOK'
  <2>1. CASE Exists(i) /\ Become(p, [call[p] EXCEPT !.pc = "versions", !.row = record[i]])
    <3> DEFINE c == [call[p] EXCEPT !.pc = "versions", !.row = record[i]]
    <3>1. record[i] \in RecordRow BY <1>1 DEF RepoOK, TablesOK, TablesTypeOK, Call
    <3>2. /\ c \in Call /\ c.pc = "versions" /\ c.op = call[p].op
          /\ c.rows = call[p].rows /\ c.hash = call[p].hash
      BY <1>1, <3>1 DEF Call, Awaits
    <3>3. CallOK(c) BY <1>1, <3>2 DEF CallOK, ReadRow, At
    <3>4. QED BY <2>1, <3>3, StoreCall DEF RepoOK
  <2>2. CASE Answer(p, "missing") \/ Answer(p, "empty")
    BY <2>2, AnswerKeepsCalls DEF RepoOK, Rets
  <2>3. CASE call[p].op = "list_by_creator" /\ NextListed(p, call[p].todo, call[p].out)
    BY <1>1, <2>3, NextListedKeepsCalls DEF RepoOK, Call
  <2>4. QED BY <2>1, <2>2, <2>3 DEF ReadRow
<1>3. QED BY <1>2, UnchangedTables DEF ReadRow, RepoOK

LEMMA ReadVersionsStep ==
  ASSUME RepoOK, NEW p \in Procs, ReadVersions(p)
  PROVE  RepoOK'
<1>1. call[p] \in Call /\ CallOK(call[p]) BY DEF RepoOK, CallsOK
<1>2. PICK s \in OrderedReads(call[p].id) :
        Become(p, [call[p] EXCEPT !.pc = "creator", !.chain = s])
  BY DEF ReadVersions
<1> DEFINE c == [call[p] EXCEPT !.pc = "creator", !.chain = s]
<1>3. s \in Seq(VersionRow) BY <1>1, OrderedReadIsChain DEF RepoOK, Call
<1>4. /\ c \in Call /\ c.pc = "creator" /\ c.op = call[p].op
      /\ c.rows = call[p].rows /\ c.hash = call[p].hash
  BY <1>1, <1>3 DEF Call, Awaits
<1>5. CallOK(c) BY <1>1, <1>4 DEF CallOK, ReadVersions, At
<1>6. CallsOK' BY <1>2, <1>5, StoreCall DEF RepoOK
<1>7. QED BY <1>6, UnchangedTables DEF ReadVersions, RepoOK

(* What is read and found has a chain.                                     *)
LEMMA FoundHasChain ==
  ASSUME NEW row, NEW chain, Assembled(row, chain) = "found"
  PROVE  chain # <<>>
BY DEF Assembled

LEMMA PrepareSealKeepsCalls ==
  ASSUME RepoOK, NEW p \in Procs, At(p, "creator"), call[p].op = "transition_to_fixed",
         call[p].chain # <<>>, PrepareSeal(p)
  PROVE  CallsOK' /\ clock' \in 0 .. MaxClock
<1> DEFINE c == call[p]
           last == c.chain[Len(c.chain)]
<1>1. c \in Call /\ c.hash \in Bytes /\ c.chain \in Seq(VersionRow)
  BY DEF RepoOK, CallsOK, CallOK, At, Call
<1>2. CASE Answer(p, "fixed") /\ UNCHANGED clock
  BY <1>2, AnswerKeepsCalls DEF RepoOK, Rets
<1>3. ASSUME NEW now \in 0 .. MaxClock, Stamp(now),
             Become(p, [c EXCEPT !.pc = "seal",
                          !.row = [state |-> "fixed", hash |-> c.hash, updated |-> now],
                          !.rows = {[last EXCEPT !.body = Fossil(@, c.hash)]}])
      PROVE  CallsOK' /\ clock' \in 0 .. MaxClock
  <2> DEFINE row == [state |-> "fixed", hash |-> c.hash, updated |-> now]
             v == [last EXCEPT !.body = Fossil(@, c.hash)]
             d == [c EXCEPT !.pc = "seal", !.row = row, !.rows = {v}]
  <2>1. row \in RecordRow BY <1>1, ClockAssumption DEF RecordRow, States, Hashes
  <2>2. last \in VersionRow BY <1>1
  <2>3. Fossil(last.body, c.hash) \in Body
    BY <1>1, <2>2 DEF Fossil, VersionRow, Body, Forms
  <2>4. v \in VersionRow BY <2>2, <2>3 DEF VersionRow
  <2>5. /\ d \in Call /\ d.pc = "seal" /\ d.row = row /\ d.rows = {v}
    BY <1>1, <2>1, <2>4 DEF Call, Awaits
  <2>6. IsFiniteSet({v}) BY FS_Singleton
  <2>7. CallOK(d) BY <1>1, <2>5, <2>6 DEF CallOK
  <2>8. CallsOK' BY <1>3, <2>7, StoreCall DEF RepoOK
  <2>9. QED BY <1>3, <2>8 DEF Stamp
<1>4. QED BY <1>2, <1>3 DEF PrepareSeal

LEMMA ReadCreatorStep ==
  ASSUME RepoOK, NEW p \in Procs, ReadCreator(p)
  PROVE  RepoOK'
<1> DEFINE c == call[p]
           result == IF EdgesTo(c.id) = {} THEN "no_creator"
                     ELSE Assembled(c.row, c.chain)
<1>1. c \in Call /\ CallOK(c) /\ IsFiniteSet(c.rows) BY DEF RepoOK, CallsOK, CallOK
<1>2. At(p, "creator") BY DEF ReadCreator
<1>3. CallsOK' /\ clock' \in 0 .. MaxClock
  <2>1. CASE result # "found" /\ Answer(p, result) /\ UNCHANGED clock
    <3>1. result \in Rets BY DEF Assembled, Rets
    <3>2. QED BY <2>1, <3>1, AnswerKeepsCalls DEF RepoOK
  <2>2. CASE Become(p, [c EXCEPT !.pc = "idle", !.ret = "found"]) /\ UNCHANGED clock
    <3> DEFINE d == [c EXCEPT !.pc = "idle", !.ret = "found"]
    <3>1. d \in Call /\ d.pc = "idle" /\ d.rows = c.rows BY <1>1 DEF Call, Rets
    <3>2. CallOK(d) BY <1>1, <3>1 DEF CallOK
    <3>3. QED BY <2>2, <3>2, StoreCall DEF RepoOK
  <2>3. CASE /\ c.op = "list_by_creator" /\ NextListed(p, c.todo, c.out \cup {c.id})
             /\ UNCHANGED clock
    <3>1. c.todo \in SUBSET Ids /\ c.out \cup {c.id} \in SUBSET Ids BY <1>1 DEF Call
    <3>2. QED BY <2>3, <3>1, NextListedKeepsCalls DEF RepoOK
  <2>4. CASE result = "found" /\ c.op = "transition_to_fixed" /\ PrepareSeal(p)
    <3>1. Assembled(c.row, c.chain) = "found" BY <2>4
    <3>2. c.chain # <<>> BY <3>1, FoundHasChain
    <3>3. QED BY <1>2, <2>4, <3>2, PrepareSealKeepsCalls
  <2>5. QED BY <2>1, <2>2, <2>3, <2>4 DEF ReadCreator
<1>4. QED BY <1>3, UnchangedTables DEF ReadCreator, RepoOK

(* The row that a save writes for a record that is not a Snapshot, or that *)
(* save_snapshot writes for one that is.                                   *)
LEMMA RowIsCreatable ==
  ASSUME NEW old, WellFormed(old), old.state # "none", NEW id \in Ids, NEW now \in Nat,
         NEW rec, rec.chain \in Seq(Version), rec.chain # <<>>
  PROVE  /\ RowOf(old, now) \in RecordRow
         /\ RowsOf(rec, id, now) \in SUBSET VersionRow
         /\ IsFiniteSet(RowsOf(rec, id, now))
         /\ Creatable(RowOf(old, now), RowsOf(rec, id, now), id)
<1>1. old \in Record /\ old.state \in States BY DEF WellFormed, Record, States
<1>2. old.hash # NoHash <=> old.state = "fixed" BY DEF WellFormed
<1>3. RowOf(old, now) \in RecordRow
  BY <1>1 DEF RowOf, RecordRow, Record
<1>4. QED BY <1>1, <1>2, <1>3, RowsOfChain DEF Creatable, RowOf

(* A record value that a caller holds is well formed.                      *)
LEMMA HeldIsWellFormed ==
  ASSUME HeldOK, NEW h \in Ids
  PROVE  WellFormed(held[h])
BY DEF HeldOK, CoreTypeOK, DigestExactlyWhenFixed, WellFormed

LEMMA StartSaveStep ==
  ASSUME RepoOK, NEW p \in Procs, NEW rec, WellFormed(rec), rec.state # "none",
         NEW creator \in Creators, StartSave(p, rec, creator)
  PROVE  RepoOK'
<1>1. /\ rec \in Record /\ rec.chain \in Seq(Version) /\ rec.chain # <<>> /\ rec.id \in Ids
  BY DEF WellFormed, Record
<1>2. CallsOK' /\ clock' \in 0 .. MaxClock
  <2>1. CASE /\ Start(p, "save", [Idle EXCEPT !.id = rec.id, !.ret = "refused"])
             /\ UNCHANGED clock
    <3> DEFINE c == [Idle EXCEPT !.id = rec.id, !.ret = "refused"]
               d == [c EXCEPT !.op = "save"]
    <3>1. d \in Call /\ d.pc = "idle" /\ d.rows = Idle.rows
      BY <1>1, IdleIsCall DEF Call, Methods, Rets
    <3>2. CallOK(d) BY <3>1, IdleIsCall DEF CallOK
    <3>3. QED BY <2>1, <3>2, StartKeepsCalls DEF RepoOK
  <2>2. ASSUME NEW now \in 0 .. MaxClock, Stamp(now),
               Start(p, "save", [Idle EXCEPT !.pc = "exists", !.id = rec.id,
                  !.creator = creator, !.row = RowOf(rec, now),
                  !.rows = RowsOf(rec, rec.id, now)])
        PROVE  CallsOK' /\ clock' \in 0 .. MaxClock
    <3> DEFINE row == RowOf(rec, now)
               rows == RowsOf(rec, rec.id, now)
               c == [Idle EXCEPT !.pc = "exists", !.id = rec.id, !.creator = creator,
                                 !.row = row, !.rows = rows]
               d == [c EXCEPT !.op = "save"]
    <3>1. now \in Nat BY ClockAssumption
    <3>2. /\ row \in RecordRow /\ rows \in SUBSET VersionRow /\ IsFiniteSet(rows)
          /\ Creatable(row, rows, rec.id)
      BY <1>1, <3>1, RowIsCreatable
    <3> HIDE DEF row, rows
    <3>3. /\ d \in Call /\ d.pc = "exists" /\ d.op = "save" /\ d.row = row
          /\ d.rows = rows /\ d.id = rec.id
      BY <1>1, <3>2, IdleIsCall DEF Call, Methods, Awaits
    <3>4. CallOK(d) BY <3>2, <3>3 DEF CallOK
    <3>5. CallsOK' BY <2>2, <3>4, StartKeepsCalls DEF RepoOK, row, rows
    <3>6. QED BY <2>2, <3>5 DEF Stamp
  <2>3. QED BY <2>1, <2>2 DEF StartSave
<1>3. QED BY <1>2, UnchangedTables DEF StartSave, RepoOK

(* The chain that save_snapshot stores has newly minted version ids.       *)
LEMMA ReMintedChain ==
  ASSUME NEW rec \in Record, rec.chain # <<>>,
         nextVid \in 0 .. MaxVid, nextVid + Len(rec.chain) <= MaxVid
  PROVE  ReMinted(rec).chain \in Seq(Version) /\ ReMinted(rec).chain # <<>>
<1> DEFINE chain == rec.chain
           n == Len(chain)
           new == [j \in DOMAIN chain |-> [chain[j] EXCEPT !.vid = nextVid + j - 1]]
<1>1. /\ chain \in Seq(Version) /\ n \in Nat /\ DOMAIN chain = 1 .. n /\ n # 0
      /\ \A j \in 1 .. n : chain[j] \in Version
  BY DEF Record
<1>2. \A j \in 1 .. n : nextVid + j - 1 \in Vids
  BY <1>1, VidAssumption DEF Vids
<1>3. \A j \in 1 .. n : [chain[j] EXCEPT !.vid = nextVid + j - 1] \in Version
  BY <1>1, <1>2 DEF Version
<1>4. new \in [1 .. n -> Version] BY <1>1, <1>3
<1>5. new \in Seq(Version) /\ new # <<>> BY <1>1, <1>4
<1>6. ReMinted(rec).chain = new BY DEF ReMinted, Record
<1>7. QED BY <1>5, <1>6

LEMMA StartSaveSnapshotStep ==
  ASSUME HeldOK, RepoOK, NEW p \in Procs, NEW h \in Ids, held[h].state # "none",
         NEW creator \in Creators, NEW new \in Ids,
         StartSaveSnapshot(p, held[h], creator, new)
  PROVE  RepoOK' /\ nextVid' \in 0 .. MaxVid
<1> DEFINE rec == held[h]
<1>1. /\ rec \in Record /\ rec.chain \in Seq(Version) /\ rec.chain # <<>> /\ rec.id \in Ids
      /\ nextVid \in 0 .. MaxVid
  BY DEF HeldOK, CoreTypeOK, DigestExactlyWhenFixed, Record
<1>2. nextVid' \in 0 .. MaxVid
  <2>1. Len(rec.chain) \in Nat BY <1>1
  <2>2. nextVid + Len(rec.chain) <= MaxVid /\ nextVid' = nextVid + Len(rec.chain)
    BY DEF StartSaveSnapshot
  <2>3. QED BY <1>1, <2>1, <2>2, VidAssumption
<1>3. PICK now \in 0 .. MaxClock :
        /\ Stamp(now)
        /\ Start(p, "save_snapshot", [Idle EXCEPT !.pc = "create", !.id = new,
             !.creator = creator, !.source = rec.id, !.row = RowOf(rec, now),
             !.rows = RowsOf(ReMinted(rec), new, now)])
  BY DEF StartSaveSnapshot
<1> DEFINE row == RowOf(rec, now)
           rows == RowsOf(ReMinted(rec), new, now)
           c == [Idle EXCEPT !.pc = "create", !.id = new, !.creator = creator,
                             !.source = rec.id, !.row = row, !.rows = rows]
           d == [c EXCEPT !.op = "save_snapshot"]
<1>4. ReMinted(rec).chain \in Seq(Version) /\ ReMinted(rec).chain # <<>>
  BY <1>1, ReMintedChain DEF StartSaveSnapshot
<1>5. now \in Nat BY ClockAssumption
<1>6. /\ row \in RecordRow /\ rows \in SUBSET VersionRow /\ IsFiniteSet(rows)
      /\ Creatable(row, rows, new)
  BY <1>4, <1>5, RowIsCreatable, HeldIsWellFormed
<1> HIDE DEF row, rows
<1>7. /\ d \in Call /\ d.pc = "create" /\ d.op = "save_snapshot" /\ d.row = row
      /\ d.rows = rows /\ d.id = new
  BY <1>1, <1>6, IdleIsCall DEF Call, Methods, Awaits
<1>8. CallOK(d) BY <1>6, <1>7 DEF CallOK
<1>9. CallsOK' BY <1>3, <1>8, StartKeepsCalls DEF RepoOK, row, rows
<1>10. clock' \in 0 .. MaxClock BY <1>3 DEF Stamp
<1>11. QED BY <1>2, <1>9, <1>10, UnchangedTables DEF StartSaveSnapshot, RepoOK

LEMMA StartAddVersionStep ==
  ASSUME HeldOK, RepoOK, NEW p \in Procs, NEW i \in Ids, NEW b \in Bodies,
         StartAddVersion(p, i, b)
  PROVE  RepoOK' /\ nextVid' \in 0 .. MaxVid
<1>1. nextVid \in 0 .. MaxVid /\ nextVid < MaxVid /\ nextVid' = nextVid + 1
  BY DEF HeldOK, CoreTypeOK, StartAddVersion
<1>2. nextVid \in Vids /\ nextVid' \in 0 .. MaxVid BY <1>1, VidAssumption DEF Vids
<1>3. PICK now \in 0 .. MaxClock :
        /\ Stamp(now)
        /\ Start(p, "add_version", [Idle EXCEPT !.pc = "append", !.id = i,
             !.rows = {[vid |-> nextVid, rid |-> i, body |-> b, at |-> now]}])
  BY DEF StartAddVersion
<1> DEFINE v == [vid |-> nextVid, rid |-> i, body |-> b, at |-> now]
           c == [Idle EXCEPT !.pc = "append", !.id = i, !.rows = {v}]
           d == [c EXCEPT !.op = "add_version"]
<1>4. v \in VersionRow BY <1>2, BodiesAssumption, ClockAssumption DEF VersionRow
<1>5. d \in Call /\ d.pc = "append" /\ d.rows = {v}
  BY <1>4, IdleIsCall DEF Call, Methods, Awaits
<1>6. CallOK(d) BY <1>5, FS_Singleton DEF CallOK
<1>7. CallsOK' BY <1>3, <1>6, StartKeepsCalls DEF RepoOK
<1>8. clock' \in 0 .. MaxClock BY <1>3 DEF Stamp
<1>9. QED BY <1>2, <1>7, <1>8, UnchangedTables DEF StartAddVersion, RepoOK

LEMMA CheckExistsStep ==
  ASSUME RepoOK, NEW p \in Procs, CheckExists(p)
  PROVE  RepoOK'
<1> DEFINE c == call[p]
<1>1. c \in Call /\ CallOK(c) BY DEF RepoOK, CallsOK
<1>2. CallsOK'
  <2>1. CASE Answer(p, "exists") \/ Answer(p, "missing")
    BY <2>1, AnswerKeepsCalls DEF RepoOK, Rets
  <2>2. ASSUME NEW pc \in {"create", "cascade"}, pc = "create" => c.op = "save",
               Become(p, [c EXCEPT !.pc = pc])
        PROVE  CallsOK'
    <3> DEFINE d == [c EXCEPT !.pc = pc]
    <3>1. /\ d \in Call /\ d.pc = pc /\ d.op = c.op /\ d.row = c.row
          /\ d.rows = c.rows /\ d.id = c.id
      BY <1>1 DEF Call, Awaits
    <3>2. CallOK(d) BY <1>1, <2>2, <3>1 DEF CallOK, CheckExists, At
    <3>3. QED BY <2>2, <3>2, StoreCall DEF RepoOK
  <2>3. QED BY <2>1, <2>2 DEF CheckExists
<1>3. QED BY <1>2, UnchangedTables DEF CheckExists, RepoOK

LEMMA CommitCreateStep ==
  ASSUME RepoOK, NEW p \in Procs, CommitCreate(p)
  PROVE  RepoOK'
<1> DEFINE c == call[p]
<1>1. c \in Call /\ CallOK(c) BY DEF RepoOK, CallsOK
<1>2. CallsOK'
  <2>1. CASE Answer(p, "conflict") \/ Answer(p, "ok") \/ Answer(p, "error")
    BY <2>1, AnswerKeepsCalls DEF RepoOK, Rets
  <2>2. CASE c.op = "save_snapshot" /\ Become(p, [c EXCEPT !.pc = "relate"])
    <3> DEFINE d == [c EXCEPT !.pc = "relate"]
    <3>1. d \in Call /\ d.pc = "relate" /\ d.rows = c.rows BY <1>1 DEF Call, Awaits
    <3>2. CallOK(d) BY <1>1, <3>1 DEF CallOK
    <3>3. QED BY <2>2, <3>2, StoreCall DEF RepoOK
  <2>3. QED BY <2>1, <2>2 DEF CommitCreate
<1>3. TablesOK'
  <2>1. CASE UNCHANGED tableVars BY <2>1, UnchangedTables DEF RepoOK
  <2>2. CASE CanCreate(c.id, c.rows) /\ Create(c.id, c.row, c.rows, c.creator)
    <3>1. /\ c.id \in Ids /\ c.row \in RecordRow /\ c.rows \in SUBSET VersionRow
          /\ c.creator \in Creators
      BY <1>1 DEF Call
    <3>2. IsFiniteSet(c.rows) /\ Creatable(c.row, c.rows, c.id)
      BY <1>1 DEF CallOK, CommitCreate, At
    <3>3. QED BY <2>2, <3>1, <3>2, CreateKeepsTables DEF RepoOK
  <2>3. QED BY <2>1, <2>2 DEF CommitCreate
<1>4. QED BY <1>2, <1>3 DEF CommitCreate, RepoOK

(* The other transactions answer Ok, or are committed unheard.             *)
LEMMA CommitRelateStep ==
  ASSUME RepoOK, NEW p \in Procs, CommitRelate(p)
  PROVE  RepoOK'
<1>1. call[p].id \in Ids /\ call[p].source \in Ids BY DEF RepoOK, CallsOK, Call
<1>2. TablesOK' BY <1>1, RelateKeepsTables DEF CommitRelate, RepoOK
<1>3. CallsOK' BY AnswerKeepsCalls DEF CommitRelate, RepoOK, Rets
<1>4. QED BY <1>2, <1>3 DEF CommitRelate, RepoOK

LEMMA CommitAppendStep ==
  ASSUME RepoOK, NEW p \in Procs, CommitAppend(p)
  PROVE  RepoOK'
<1>1. call[p].rows \in SUBSET VersionRow BY DEF RepoOK, CallsOK, Call
<1>2. TablesOK' BY <1>1, AppendKeepsTables DEF CommitAppend, RepoOK
<1>3. CallsOK' BY AnswerKeepsCalls DEF CommitAppend, RepoOK, Rets
<1>4. QED BY <1>2, <1>3 DEF CommitAppend, RepoOK

LEMMA CommitSealStep ==
  ASSUME RepoOK, NEW p \in Procs, CommitSeal(p)
  PROVE  RepoOK'
<1> DEFINE c == call[p]
<1>1. c \in Call /\ CallOK(c) BY DEF RepoOK, CallsOK
<1>2. /\ c.id \in Ids /\ c.rows \in SUBSET VersionRow
      /\ c.row.hash \in Bytes /\ c.row.updated \in Nat
  BY <1>1 DEF Call, RecordRow, CallOK, CommitSeal, At
<1>3. TablesOK' BY <1>2, SealKeepsTables DEF CommitSeal, RepoOK
<1>4. CallsOK' BY AnswerKeepsCalls DEF CommitSeal, RepoOK, Rets
<1>5. QED BY <1>3, <1>4 DEF CommitSeal, RepoOK

LEMMA CommitDeleteStep ==
  ASSUME RepoOK, NEW p \in Procs, CommitDelete(p)
  PROVE  RepoOK'
<1>1. call[p].id \in Ids BY DEF RepoOK, CallsOK, Call
<1>2. TablesOK' BY <1>1, DeleteKeepsTables DEF CommitDelete, RepoOK
<1>3. CallsOK' BY AnswerKeepsCalls DEF CommitDelete, RepoOK, Rets
<1>4. QED BY <1>2, <1>3 DEF CommitDelete, RepoOK

LEMMA FailStep ==
  ASSUME RepoOK, NEW p \in Procs, Fail(p)
  PROVE  RepoOK'
<1>1. CallsOK' BY AnswerKeepsCalls DEF Fail, RepoOK, Rets
<1>2. QED BY <1>1, UnchangedTables DEF Fail, RepoOK

-----------------------------------------------------------------------------
(* Inv is an invariant.                                                    *)

LEMMA InvInitially == Init => Inv
<1> SUFFICES ASSUME Init PROVE Inv OBVIOUS
<1>1. HeldOK BY HeldOKInitially DEF Init
<1>2. NoRow \in RecordRow BY DEF NoRow, RecordRow, Hashes
<1>3. TablesOK
  BY <1>2, FS_EmptySet
     DEF Init, RepoInit, TablesInit, TablesOK, TablesTypeOK, EveryRecordHasOneCreator,
         EveryRecordHasAVersion, HashExactlyWhenFixed, Exists, NoRow
<1>4. CallsOK BY IdleIsCall DEF Init, RepoInit, CallsOK, CallOK
<1>5. QED
  BY <1>1, <1>3, <1>4, ClockAssumption DEF Init, RepoInit, Inv, RepoOK

(* The version ids that a caller holds stay in range while others are      *)
(* minted.                                                                 *)
LEMMA MintingKeepsHeld ==
  ASSUME HeldOK, UNCHANGED held, nextVid' \in 0 .. MaxVid
  PROVE  HeldOK'
BY DEF HeldOK, CoreTypeOK, DigestExactlyWhenFixed

LEMMA QueryStep ==
  ASSUME Inv, NEW p \in Procs, Query(p)
  PROVE  Inv'
<1>1. HeldOK'
  BY MintingKeepsHeld DEF Query, Inv, HeldOK, CoreTypeOK
<1>2. RepoOK'
  BY ReadEdgesStep, ReadRowStep, ReadVersionsStep, ReadCreatorStep, CheckExistsStep,
     CommitCreateStep, CommitRelateStep, CommitAppendStep, CommitSealStep, CommitDeleteStep
     DEF Query, Inv
<1>3. QED BY <1>1, <1>2 DEF Inv

LEMMA BeginStep ==
  ASSUME Inv, NEW p \in Procs, Begin(p)
  PROVE  Inv'
<1> USE DEF Inv
<1>1. UNCHANGED held BY DEF Begin
<1>2. nextVid \in 0 .. MaxVid BY DEF HeldOK, CoreTypeOK
<1>3. RepoOK' /\ nextVid' \in 0 .. MaxVid
  <2>1. ASSUME NEW i \in Ids, UNCHANGED nextVid,
               \/ StartFind(p, i) \/ StartDelete(p, i)
               \/ \E x \in Bytes : StartTransition(p, i, x)
        PROVE  RepoOK' /\ nextVid' \in 0 .. MaxVid
    BY <1>2, <2>1, StartFindStep, StartDeleteStep, StartTransitionStep
  <2>2. ASSUME NEW c \in Creators, StartList(p, c), UNCHANGED nextVid
        PROVE  RepoOK' /\ nextVid' \in 0 .. MaxVid
    BY <1>2, <2>2, StartListStep
  <2>3. ASSUME NEW h \in Ids, NEW c \in Creators, held[h].state # "none",
               StartSave(p, held[h], c), UNCHANGED nextVid
        PROVE  RepoOK' /\ nextVid' \in 0 .. MaxVid
    BY <1>2, <2>3, StartSaveStep, HeldIsWellFormed
  <2>4. ASSUME NEW h \in Ids, NEW c \in Creators, held[h].state # "none",
               NEW new \in Ids, StartSaveSnapshot(p, held[h], c, new)
        PROVE  RepoOK' /\ nextVid' \in 0 .. MaxVid
    BY <2>4, StartSaveSnapshotStep
  <2>5. ASSUME NEW i \in Ids, NEW b \in Bodies, StartAddVersion(p, i, b)
        PROVE  RepoOK' /\ nextVid' \in 0 .. MaxVid
    BY <2>5, StartAddVersionStep
  <2>6. QED BY <2>1, <2>2, <2>3, <2>4, <2>5 DEF Begin
<1>4. QED BY <1>1, <1>3, MintingKeepsHeld

LEMMA RepoUnchanged ==
  ASSUME RepoOK, UNCHANGED repoVars
  PROVE  RepoOK'
<1>1. TablesOK' BY UnchangedTables DEF RepoOK, repoVars, tableVars
<1>2. CallsOK' BY DEF RepoOK, repoVars, CallsOK, CallOK, Creatable
<1>3. QED BY <1>1, <1>2 DEF RepoOK, repoVars

LEMMA InvStep == Inv /\ [Next]_vars => Inv'
<1> SUFFICES ASSUME Inv, [Next]_vars PROVE Inv' OBVIOUS
<1>1. CASE Hold
  <2>1. HeldOK'
    BY <1>1, NewKeepsHeldOK, UpdateKeepsHeldOK, SnapshotKeepsHeldOK, FixKeepsHeldOK
       DEF Hold, Inv
  <2>2. RepoOK' BY <1>1, RepoUnchanged DEF Hold, Inv
  <2>3. QED BY <2>1, <2>2 DEF Inv
<1>2. ASSUME NEW p \in Procs, Fail(p) PROVE Inv'
  <2>1. HeldOK' BY <1>2, MintingKeepsHeld DEF Fail, Inv, HeldOK, CoreTypeOK
  <2>2. QED BY <1>2, <2>1, FailStep DEF Inv
<1>3. CASE UNCHANGED vars
  <2>1. HeldOK' BY <1>3, MintingKeepsHeld DEF vars, Inv, HeldOK, CoreTypeOK
  <2>2. QED BY <1>3, <2>1, RepoUnchanged DEF vars, Inv
<1>4. QED BY <1>1, <1>2, <1>3, QueryStep, BeginStep DEF Next

-----------------------------------------------------------------------------
(* What the repository guarantees of its tables.                           *)

THEOREM InvIsInvariant == Spec => []Inv
BY InvInitially, InvStep, PTL DEF Spec

(* Types.                                                                  *)
THEOREM RepositoryIsTyped == Spec => []TypeOK
<1>1. Inv => TypeOK
  BY DEF Inv, HeldOK, RepoOK, TablesOK, CallsOK, TypeOK, RepoTypeOK
<1>2. QED BY <1>1, InvIsInvariant, PTL

(* Whatever saves, appends, transitions and deletes interleave, fail or    *)
(* are dropped: every stored record has one created_by edge, every edge    *)
(* leads to a stored record, and every stored record has a version.        *)
THEOREM TablesStayInStep == Spec => [](EveryRecordHasOneCreator /\ EveryRecordHasAVersion)
<1>1. Inv => EveryRecordHasOneCreator /\ EveryRecordHasAVersion
  BY DEF Inv, RepoOK, TablesOK
<1>2. QED BY <1>1, InvIsInvariant, PTL

(* So neither trailing_body nor persisted_row_to_any ever meets an empty   *)
(* chain in the tables.                                                    *)
THEOREM NoStoredChainIsEmpty == Spec => []EveryRecordHasAVersion
BY TablesStayInStep, PTL

(* content_hash is there exactly in the Fixed rows, so that no row is ever *)
(* refused by TryFrom<PersistedRow>.                                       *)
THEOREM RowsAreReadable == Spec => []HashExactlyWhenFixed
<1>1. Inv => HashExactlyWhenFixed BY DEF Inv, RepoOK, TablesOK
<1>2. QED BY <1>1, InvIsInvariant, PTL

(* Fossilization is irreversible: no writer, however old the reading that  *)
(* it decided on, takes a Fixed record back to Mutable or Snapshot.        *)
THEOREM FossilizationIsIrreversible == Spec => FixedNeverReverts
<1> DEFINE Irreversible == \A i \in Ids : record[i].state = "fixed"
                             => record'[i].state \in {"fixed", "absent"}
<1>1. Inv /\ [Next]_vars => [Irreversible]_vars
  <2> SUFFICES ASSUME Inv, Next PROVE Irreversible OBVIOUS
  <2>0. record \in [Ids -> RecordRow] BY DEF Inv, RepoOK, TablesOK, TablesTypeOK
  <2>1. CASE UNCHANGED record BY <2>1
  <2>2. ASSUME NEW p \in Procs, CommitCreate(p) PROVE Irreversible
    <3>1. CASE UNCHANGED tableVars BY <3>1, <2>1 DEF tableVars
    <3>2. CASE CanCreate(call[p].id, call[p].rows)
               /\ Create(call[p].id, call[p].row, call[p].rows, call[p].creator)
      BY <2>0, <3>2 DEF CanCreate, Create, Exists
    <3>3. QED BY <2>2, <3>1, <3>2 DEF CommitCreate
  <2>3. ASSUME NEW p \in Procs, CommitAppend(p) PROVE Irreversible
    <3>1. PICK v \in call[p].rows : AppendVersion(v) BY <2>3 DEF CommitAppend
    <3>2. QED BY <2>0, <3>1 DEF AppendVersion, RecordRow
  <2>4. ASSUME NEW p \in Procs, CommitSeal(p) PROVE Irreversible
    BY <2>0, <2>4 DEF CommitSeal, SealRecord
  <2>5. ASSUME NEW p \in Procs, CommitDelete(p) PROVE Irreversible
    BY <2>0, <2>5 DEF CommitDelete, DeleteCascade, NoRow
  <2>6. ASSUME NEW p \in Procs, Query(p) PROVE Irreversible
    BY <2>1, <2>2, <2>3, <2>4, <2>5, <2>6
       DEF Query, ReadEdges, ReadRow, ReadVersions, ReadCreator, CheckExists,
           CommitRelate, RelateSnapshot, tableVars
  <2>7. ASSUME NEW p \in Procs, Begin(p) PROVE Irreversible
    BY <2>1, <2>7
       DEF Begin, StartFind, StartDelete, StartTransition, StartList, StartSave,
           StartSaveSnapshot, StartAddVersion, tableVars
  <2>8. QED BY <2>1, <2>6, <2>7 DEF Next, Hold, Fail, repoVars, tableVars
<1>2. QED BY <1>1, InvIsInvariant, PTL DEF Spec, FixedNeverReverts
=============================================================================
