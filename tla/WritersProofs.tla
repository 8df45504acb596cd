-------------------------- MODULE WritersProofs ---------------------------
(***************************************************************************)
(* Proofs about Repository: what several writers leave behind together.    *)
(*                                                                         *)
(* save_snapshot mints the id of its record and the ids of its versions,   *)
(* runs one transaction to create them and a second query to link them.    *)
(* The invariant Apart says that its record id is nobody else's: no record *)
(* value has it, no other save_snapshot under way has it, and no edge      *)
(* starts from it before its own does.  With OwnRows (CallsProofs), which  *)
(* says as much of its version ids, it cannot collide.  Where nobody       *)
(* deletes, Linked adds that the edge finds the record it starts from.     *)
(*                                                                         *)
(* A transition seals state and body from readings that may be old.  Where *)
(* nobody deletes, Sealed says that the body it is to write is a fossil of *)
(* the hash it is to write, and that whatever is Fixed has such a body; it *)
(* rests on Knows (CallsProofs), for the version to be rewritten to be     *)
(* there, and on OneBody, for it to be of that record and no other.        *)
(***************************************************************************)
EXTENDS CallsProofs

(* The ids of the record values that callers hold.                         *)
Named == {i \in Ids : \E h \in Ids : held[h].state # "none" /\ held[h].id = i}

(* A save_snapshot between its beginning and its link.                     *)
Pending(c) == c.op = "save_snapshot" /\ c.pc \in {"create", "relate"}

(* What a call must not meet: ids are named, minted, stored and linked as  *)
(* N, S, r and e have it.                                                  *)
ApartFrom(c, N, S, r, e) ==
  /\ c.pc = "create" => c.op \in {"save", "save_snapshot"}
  /\ c.pc = "relate" => c.op = "save_snapshot"
  /\ c.pc \in {"exists", "create"} /\ c.op = "save" => c.id \in N
  /\ Pending(c) => c.id \in S /\ \A f \in e : f.from # c.id
  /\ Pending(c) /\ c.pc = "create" => r[c.id].state = "absent" /\ c.row.state = "snapshot"
  /\ c.op = "save_snapshot" => c.ret # "conflict" /\ c.pc \in {"create", "relate", "idle"}

OneSource ==
  \A e \in snapshotOf : /\ e.from \in snapIds
                        /\ \A f \in snapshotOf : f.from = e.from => f = e

(* Every stored record has an id of the one sort or of the other.          *)
StoredAreKnown == \A i \in Ids : record[i].state # "absent" => i \in Named \cup snapIds

Apart ==
  /\ Named \cap snapIds = {}
  /\ StoredAreKnown
  /\ OneSource
  /\ \A p \in Procs : ApartFrom(call[p], Named, snapIds, record, snapshotOf)
  /\ \A p, q \in Procs :
       p # q /\ Pending(call[p]) /\ Pending(call[q]) => call[p].id # call[q].id

(* The others find nothing under the ids that they have minted.            *)
LeavesAlone(p) ==
  \A q \in Procs \ {p} : Pending(call[q]) =>
    /\ call[q].pc = "create" => record'[call[q].id].state = "absent"
    /\ \A e \in snapshotOf' : e.from # call[q].id

-----------------------------------------------------------------------------
(* The steps of a call, and Apart.                                         *)

LEMMA CallStepStaysApart ==
  ASSUME Inv, Apart, UNCHANGED held, NEW p \in Procs, NEW c, Become(p, c),
         snapIds \subseteq snapIds', Named \cap snapIds' = {}, StoredAreKnown', OneSource',
         LeavesAlone(p),
         ApartFrom(c, Named, snapIds', record', snapshotOf'),
         Pending(c) => \A q \in Procs \ {p} : Pending(call[q]) => call[q].id # c.id
  PROVE  Apart'
<1>1. \A q \in Procs : call'[q] = IF q = p THEN c ELSE call[q]
  BY DEF Become, Inv, RepoOK, CallsOK
<1>2. Named' = Named BY DEF Named
<1>3. ASSUME NEW q \in Procs PROVE ApartFrom(call'[q], Named, snapIds', record', snapshotOf')
  <2>1. CASE q = p BY <1>1, <2>1
  <2>2. CASE q # p
    <3>1. ApartFrom(call[q], Named, snapIds, record, snapshotOf) BY DEF Apart
    <3>2. ApartFrom(call[q], Named, snapIds', record', snapshotOf')
      BY <2>2, <3>1 DEF ApartFrom, LeavesAlone
    <3>3. QED BY <1>1, <2>2, <3>2
  <2>3. QED BY <2>1, <2>2
<1>4. ASSUME NEW q \in Procs, NEW r \in Procs, q # r, Pending(call'[q]), Pending(call'[r])
      PROVE  call'[q].id # call'[r].id
  <2>1. CASE q # p /\ r # p BY <1>1, <1>4, <2>1 DEF Apart
  <2>2. CASE q = p BY <1>1, <1>4, <2>2
  <2>3. CASE r = p BY <1>1, <1>4, <2>3
  <2>4. QED BY <2>1, <2>2, <2>3
<1>5. QED BY <1>2, <1>3, <1>4 DEF Apart

(* A step that creates no record, but under the id of a record value.      *)
CreatesNamed ==
  \A i \in Ids : record[i].state = "absent" => record'[i].state = "absent" \/ i \in Named

(* The tables stay, or lose edges and grow where no snapshot is awaited.   *)
LEMMA OtherTablesLeaveAlone ==
  ASSUME Inv, Apart, NEW p \in Procs, UNCHANGED snapIds,
         UNCHANGED held, CreatesNamed, snapshotOf' \subseteq snapshotOf
  PROVE  LeavesAlone(p) /\ OneSource' /\ StoredAreKnown'
<1>0. Named' = Named BY DEF Named
<1>1. OneSource' /\ StoredAreKnown'
  BY <1>0 DEF Apart, OneSource, StoredAreKnown, CreatesNamed
<1>2. ASSUME NEW q \in Procs, Pending(call[q])
      PROVE  /\ call[q].pc = "create" => record'[call[q].id].state = "absent"
             /\ \A e \in snapshotOf' : e.from # call[q].id
  <2>1. call[q].id \in Ids /\ call[q].id \notin Named
    BY <1>2 DEF Apart, ApartFrom, Inv, RepoOK, CallsOK, Call
  <2>2. QED BY <1>2, <2>1 DEF Apart, ApartFrom, CreatesNamed
<1>3. QED BY <1>1, <1>2 DEF LeavesAlone

(* A call goes on to something that is no save_snapshot.                   *)
LEMMA QuietStepStaysApart ==
  ASSUME Inv, Apart, UNCHANGED <<held, snapIds>>, NEW p \in Procs, NEW c, Become(p, c),
         CreatesNamed, snapshotOf' \subseteq snapshotOf,
         \/ c.pc = "create" /\ c.op = "save" /\ c.id \in Named
         \/ c.pc = "exists" /\ (c.op = "save" => c.id \in Named)
         \/ c.pc \notin {"create", "relate", "exists"},
         c.op = "save_snapshot" => c.ret # "conflict" /\ c.pc = "idle"
  PROVE  Apart'
<1>1. ~ Pending(c) BY DEF Pending
<1>2. ApartFrom(c, Named, snapIds', record', snapshotOf') BY <1>1 DEF ApartFrom
<1>3. QED BY <1>1, <1>2, OtherTablesLeaveAlone, CallStepStaysApart DEF Apart

LEMMA AnswerStaysApart ==
  ASSUME Inv, Apart, UNCHANGED <<held, snapIds>>, NEW p \in Procs, NEW ret, Answer(p, ret),
         CreatesNamed, snapshotOf' \subseteq snapshotOf,
         call[p].op = "save_snapshot" => ret # "conflict"
  PROVE  Apart'
<1> DEFINE c == [Idle EXCEPT !.op = call[p].op, !.id = call[p].id, !.ret = ret]
<1>1. c.pc = "idle" /\ c.op = call[p].op /\ c.ret = ret BY IdleIsCall DEF Call
<1> HIDE DEF c
<1>2. QED BY <1>1, QuietStepStaysApart DEF Answer, c

(* What a read leaves in the future of its call.                           *)
IsFossil(body, hash) == body = Fossil(body, hash)

ReadLeft(old, c) ==
  /\ c.op = old.op
  /\ c.op = "save_snapshot" =>
       c.ret \notin {"ok", "conflict"} \/ (c.ret = old.ret /\ c.id = old.id)
  /\ \/ c.pc \in {"idle", "row", "versions", "creator", "cascade"}
     \/ c.pc = "seal" /\ \A w \in c.rows : IsFossil(w.body, c.row.hash)
     \/ /\ c.pc = "create" /\ c.op = "save" /\ old.pc = "exists"
        /\ c.id = old.id /\ c.row = old.row /\ c.rows = old.rows

LEMMA AnswerLeaves ==
  ASSUME Inv, NEW p \in Procs, NEW ret, ret \notin {"ok", "conflict"}, Answer(p, ret)
  PROVE  \E c : ReadLeft(call[p], c) /\ Become(p, c)
<1> DEFINE c == [Idle EXCEPT !.op = call[p].op, !.id = call[p].id, !.ret = ret]
<1>1. c.pc = "idle" /\ c.op = call[p].op /\ c.ret = ret BY IdleIsCall DEF Call
<1> HIDE DEF c
<1>2. QED BY <1>1 DEF Answer, ReadLeft, c

LEMMA NextListedLeaves ==
  ASSUME Inv, NEW p \in Procs, call[p].op = "list_by_creator",
         NEW todo, NEW out, NextListed(p, todo, out)
  PROVE  \E c : ReadLeft(call[p], c) /\ Become(p, c)
<1>1. call[p] \in Call BY DEF Inv, RepoOK, CallsOK
<1>2. CASE Become(p, [Idle EXCEPT !.op = call[p].op, !.creator = call[p].creator,
                                  !.out = out, !.ret = "listed"])
  <2> DEFINE c == [Idle EXCEPT !.op = call[p].op, !.creator = call[p].creator,
                               !.out = out, !.ret = "listed"]
  <2>1. c.op = call[p].op /\ c.pc = "idle" BY IdleIsCall DEF Call
  <2> HIDE DEF c
  <2>2. QED BY <1>2, <2>1 DEF ReadLeft, c
<1>3. ASSUME NEW i \in todo,
             Become(p, [call[p] EXCEPT !.pc = "row", !.id = i, !.todo = todo \ {i},
                                       !.out = out, !.row = NoRow, !.chain = <<>>])
      PROVE  \E c : ReadLeft(call[p], c) /\ Become(p, c)
  <2> DEFINE c == [call[p] EXCEPT !.pc = "row", !.id = i, !.todo = todo \ {i},
                                  !.out = out, !.row = NoRow, !.chain = <<>>]
  <2>1. c.op = call[p].op /\ c.pc = "row" BY <1>1 DEF Call
  <2> HIDE DEF c
  <2>2. QED BY <1>3, <2>1 DEF ReadLeft, c
<1>4. QED BY <1>2, <1>3 DEF NextListed

(* The body that a transition is to write is the fossil of the hash that   *)
(* it is to write.                                                         *)
LEMMA PrepareSealLeaves ==
  ASSUME Inv, NEW p \in Procs, call[p].chain # <<>>, PrepareSeal(p)
  PROVE  \E c : ReadLeft(call[p], c) /\ Become(p, c)
<1> DEFINE n == Len(call[p].chain)
           last == call[p].chain[n]
           row == [last EXCEPT !.body = Fossil(@, call[p].hash)]
<1>1. call[p] \in Call /\ call[p].chain \in Seq(VersionRow) BY DEF Inv, RepoOK, CallsOK, Call
<1>2. n \in DOMAIN call[p].chain /\ last \in VersionRow BY <1>1
<1>3. IsFossil(row.body, call[p].hash) BY <1>2 DEF IsFossil, Fossil, VersionRow
<1> HIDE DEF n, last, row
<1>4. ASSUME NEW r, r.hash = call[p].hash,
             Become(p, [call[p] EXCEPT !.pc = "seal", !.row = r, !.rows = {row}])
      PROVE  \E c : ReadLeft(call[p], c) /\ Become(p, c)
  <2> DEFINE c == [call[p] EXCEPT !.pc = "seal", !.row = r, !.rows = {row}]
  <2>1. /\ c.op = call[p].op /\ c.id = call[p].id /\ c.ret = call[p].ret /\ c.pc = "seal"
        /\ c.rows = {row} /\ c.row = r
    BY <1>1 DEF Call
  <2> HIDE DEF c
  <2>2. QED BY <1>3, <1>4, <2>1 DEF ReadLeft, c
<1>5. CASE Answer(p, "fixed") BY <1>5, AnswerLeaves
<1>6. ASSUME NEW now,
             Become(p, [call[p] EXCEPT !.pc = "seal",
               !.row = [state |-> "fixed", hash |-> call[p].hash, updated |-> now],
               !.rows = {row}])
      PROVE  \E c : ReadLeft(call[p], c) /\ Become(p, c)
  <2> DEFINE r == [state |-> "fixed", hash |-> call[p].hash, updated |-> now]
  <2>1. r.hash = call[p].hash OBVIOUS
  <2>2. Become(p, [call[p] EXCEPT !.pc = "seal", !.row = r, !.rows = {row}]) BY <1>6
  <2> HIDE DEF r
  <2>3. QED BY <1>4, <2>1, <2>2
<1>7. QED BY <1>5, <1>6 DEF PrepareSeal, n, last, row

LEMMA ReadsLeave ==
  ASSUME Inv, NEW p \in Procs,
         ReadEdges(p) \/ ReadRow(p) \/ ReadVersions(p) \/ ReadCreator(p) \/ CheckExists(p)
  PROVE  /\ UNCHANGED <<record, version, createdBy, snapshotOf, snapIds>>
         /\ call[p].pc \notin {"create", "relate", "idle"}
         /\ \E c : ReadLeft(call[p], c) /\ Become(p, c)
<1>1. UNCHANGED <<record, version, createdBy, snapshotOf, snapIds>>
  BY DEF ReadEdges, ReadRow, ReadVersions, ReadCreator, CheckExists, tableVars
<1>0. call[p].pc \notin {"create", "relate", "idle"}
  BY DEF ReadEdges, ReadRow, ReadVersions, ReadCreator, CheckExists, At
<1>2. call[p] \in Call /\ CallOK(call[p]) BY DEF Inv, RepoOK, CallsOK
<1> DEFINE Leaves == \E c : ReadLeft(call[p], c) /\ Become(p, c)
<1> SUFFICES Leaves BY <1>0, <1>1
<1>3. ASSUME NEW c, Become(p, c), c.op = call[p].op, c.id = call[p].id,
             c.ret = call[p].ret \/ c.ret = "found",
             \/ c.pc \in {"versions", "creator", "cascade", "idle"}
             \/ /\ c.pc = "create" /\ c.op = "save" /\ call[p].pc = "exists"
                /\ c.row = call[p].row /\ c.rows = call[p].rows
      PROVE  Leaves
  BY <1>3 DEF ReadLeft
<1>4. CASE ReadEdges(p)
  BY <1>2, <1>4, NextListedLeaves DEF ReadEdges, At, CallOK
<1>5. CASE ReadRow(p)
  <2> DEFINE c == [call[p] EXCEPT !.pc = "versions", !.row = record[call[p].id]]
  <2>1. c.op = call[p].op /\ c.id = call[p].id /\ c.ret = call[p].ret /\ c.pc = "versions"
    BY <1>2 DEF Call
  <2> HIDE DEF c
  <2>2. CASE Become(p, c) BY <1>3, <2>1, <2>2
  <2>3. CASE Answer(p, "missing") \/ Answer(p, "empty") BY <2>3, AnswerLeaves
  <2>4. QED BY <1>5, <2>2, <2>3, NextListedLeaves DEF ReadRow, c
<1>6. CASE ReadVersions(p)
  <2>1. PICK s : Become(p, [call[p] EXCEPT !.pc = "creator", !.chain = s])
    BY <1>6 DEF ReadVersions
  <2> DEFINE c == [call[p] EXCEPT !.pc = "creator", !.chain = s]
  <2>2. c.op = call[p].op /\ c.id = call[p].id /\ c.ret = call[p].ret /\ c.pc = "creator"
    BY <1>2 DEF Call
  <2> HIDE DEF c
  <2>3. QED BY <1>3, <2>1, <2>2 DEF c
<1>7. CASE ReadCreator(p)
  <2> DEFINE result == IF EdgesTo(call[p].id) = {} THEN "no_creator"
                       ELSE Assembled(call[p].row, call[p].chain)
  <2>1. result \notin {"ok", "conflict"} BY DEF Assembled
  <2>2. result = "found" => call[p].chain # <<>> BY FoundHasChain
  <2> HIDE DEF result
  <2>3. ASSUME Become(p, [call[p] EXCEPT !.pc = "idle", !.ret = "found"]) PROVE Leaves
    <3> DEFINE c == [call[p] EXCEPT !.pc = "idle", !.ret = "found"]
    <3>1. c.op = call[p].op /\ c.id = call[p].id /\ c.ret = "found" /\ c.pc = "idle"
      BY <1>2 DEF Call
    <3> HIDE DEF c
    <3>2. QED BY <1>3, <2>3, <3>1 DEF c
  <2>4. QED
    BY <1>7, <2>1, <2>2, <2>3, AnswerLeaves, NextListedLeaves, PrepareSealLeaves
       DEF ReadCreator, result
<1>8. CASE CheckExists(p)
  <2>1. ASSUME NEW pc \in {"create", "cascade"}, Become(p, [call[p] EXCEPT !.pc = pc]),
               call[p].pc = "exists", pc = "create" => call[p].op = "save"
        PROVE  Leaves
    <3> DEFINE c == [call[p] EXCEPT !.pc = pc]
    <3>1. /\ c.op = call[p].op /\ c.id = call[p].id /\ c.ret = call[p].ret /\ c.pc = pc
          /\ c.row = call[p].row /\ c.rows = call[p].rows
      BY <1>2 DEF Call
    <3> HIDE DEF c
    <3>2. QED BY <1>3, <2>1, <3>1 DEF c
  <2>2. CASE Answer(p, "exists") \/ Answer(p, "missing") BY <2>2, AnswerLeaves
  <2>3. QED BY <1>8, <2>1, <2>2 DEF CheckExists, At
<1>9. QED BY <1>1, <1>4, <1>5, <1>6, <1>7, <1>8

LEMMA ReadsStayApart ==
  ASSUME Inv, Apart, UNCHANGED held, NEW p \in Procs,
         ReadEdges(p) \/ ReadRow(p) \/ ReadVersions(p) \/ ReadCreator(p) \/ CheckExists(p)
  PROVE  Apart'
<1>1. PICK c : ReadLeft(call[p], c) /\ Become(p, c) BY ReadsLeave
<1>2. ApartFrom(call[p], Named, snapIds, record, snapshotOf) BY DEF Apart
<1>3. UNCHANGED <<record, snapshotOf, snapIds>> /\ call[p].pc \notin {"create", "relate", "idle"}
  BY ReadsLeave
<1>4. QED BY <1>1, <1>2, <1>3, QuietStepStaysApart DEF ReadLeft, ApartFrom, CreatesNamed

(* The writes of the other methods: what is absent stays absent.           *)
LEMMA OtherWritesStayApart ==
  ASSUME Inv, Apart, UNCHANGED <<held, nextVid>>, NEW p \in Procs,
         CommitAppend(p) \/ CommitSeal(p) \/ CommitDelete(p) \/ Fail(p)
  PROVE  Apart'
<1>1. record \in [Ids -> RecordRow] BY DEF Inv, RepoOK, TablesOK, TablesTypeOK
<1>2. UNCHANGED snapIds /\ snapshotOf' \subseteq snapshotOf /\ CreatesNamed
  <2>1. CASE CommitAppend(p)
    BY <1>1, <2>1 DEF CommitAppend, AppendVersion, Exists, CreatesNamed
  <2>2. CASE CommitSeal(p) BY <1>1, <2>2 DEF CommitSeal, SealRecord, Exists, CreatesNamed
  <2>3. CASE CommitDelete(p)
    BY <1>1, <2>3 DEF CommitDelete, DeleteCascade, NoRow, CreatesNamed
  <2>4. CASE Fail(p) BY <2>4 DEF Fail, tableVars, CreatesNamed
  <2>5. QED BY <2>1, <2>2, <2>3, <2>4
<1>3. \E ret : Answer(p, ret) /\ ret # "conflict"
  BY DEF CommitAppend, CommitSeal, CommitDelete, Fail
<1>4. QED BY <1>2, <1>3, AnswerStaysApart

(* What save_snapshot is to create is not there: neither its record id nor *)
(* any of its version ids.                                                 *)
LEMMA SnapshotCanBeCreated ==
  ASSUME Inv, OwnRows, Apart, NEW p \in Procs, At(p, "create"), call[p].op = "save_snapshot"
  PROVE  CanCreate(call[p].id, call[p].rows)
<1>1. ~ Exists(call[p].id) BY DEF Apart, ApartFrom, Pending, At, Exists
<1>2. ASSUME NEW v \in version, NEW w \in call[p].rows PROVE v.vid # w.vid
  <2>1. PICK x \in TableShown : Of(v, x) BY TableRowsAreShown
  <2>2. x \in ShownBesides(p) BY <2>1 DEF ShownBesides, TableShown
  <2>3. w.vid # x.vid BY <2>2 DEF OwnRows, Minting, At
  <2>4. QED BY <2>1, <2>3 DEF Of
<1>3. QED BY <1>1, <1>2 DEF CanCreate

LEMMA CommitCreateStaysApart ==
  ASSUME Inv, OwnRows, Apart, UNCHANGED <<held, nextVid>>, NEW p \in Procs, CommitCreate(p)
  PROVE  Apart'
<1> DEFINE c == call[p]
<1>1. /\ c \in Call /\ c.pc = "create" /\ ApartFrom(c, Named, snapIds, record, snapshotOf)
      /\ record \in [Ids -> RecordRow] /\ snapIds \subseteq Ids /\ UNCHANGED snapIds
  BY DEF CommitCreate, At, Inv, RepoOK, CallsOK, TablesOK, TablesTypeOK, Apart
<1>2. c.id \in Ids BY <1>1 DEF Call
<1>3. CASE ~ CanCreate(c.id, c.rows)
  <2>1. c.op = "save" BY <1>1, <1>3, SnapshotCanBeCreated DEF At, ApartFrom
  <2>2. UNCHANGED <<record, snapshotOf>> /\ Answer(p, "conflict")
    BY <1>3 DEF CommitCreate, tableVars
  <2>3. QED BY <1>1, <2>1, <2>2, AnswerStaysApart DEF CreatesNamed
<1>4. CASE /\ Create(c.id, c.row, c.rows, c.creator)
           /\ \/ c.op = "save" /\ Answer(p, "ok")
              \/ c.op = "save_snapshot" /\ Become(p, [c EXCEPT !.pc = "relate"])
              \/ Answer(p, "error")
  <2>1. /\ \A i \in Ids \ {c.id} : record'[i] = record[i]
        /\ snapshotOf' = snapshotOf
    BY <1>1, <1>4 DEF Create
  <2>2. CASE c.op = "save"
    <3>1. c.id \in Named BY <1>1, <2>2 DEF ApartFrom
    <3>2. CreatesNamed BY <2>1, <3>1 DEF CreatesNamed
    <3>3. \E ret : Answer(p, ret) /\ ret # "conflict" BY <1>4, <2>2
    <3>4. QED BY <1>1, <2>1, <3>2, <3>3, AnswerStaysApart
  <2>3. CASE c.op = "save_snapshot"
    <3>1. Pending(c) BY <1>1, <2>3 DEF Pending
    <3>2. \A q \in Procs \ {p} : Pending(call[q]) => call[q].id # c.id
      BY <3>1 DEF Apart
    <3>3. LeavesAlone(p)
      <4>1. ASSUME NEW q \in Procs \ {p}, Pending(call[q])
            PROVE  /\ call[q].pc = "create" => record'[call[q].id].state = "absent"
                   /\ \A e \in snapshotOf' : e.from # call[q].id
        <5>1. call[q].id \in Ids BY DEF Inv, RepoOK, CallsOK, Call
        <5>2. record'[call[q].id] = record[call[q].id] BY <2>1, <3>2, <4>1, <5>1
        <5>3. QED BY <2>1, <4>1, <5>2 DEF Apart, ApartFrom
      <4>2. QED BY <4>1 DEF LeavesAlone
    <3>4. OneSource' /\ StoredAreKnown' /\ Named \cap snapIds' = {}
      BY <1>1, <2>1, <3>1 DEF Apart, ApartFrom, OneSource, StoredAreKnown, Named
    <3>5. ASSUME NEW d, Become(p, d), d.op = "save_snapshot", d.ret # "conflict",
                 d.pc = "idle" \/ (d.pc = "relate" /\ d.id = c.id)
          PROVE  Apart'
      <4>1. ApartFrom(d, Named, snapIds', record', snapshotOf')
        BY <1>1, <2>1, <3>1, <3>5 DEF ApartFrom, Pending
      <4>2. Pending(d) => \A q \in Procs \ {p} : Pending(call[q]) => call[q].id # d.id
        BY <3>2, <3>5 DEF Pending
      <4>3. QED BY <1>1, <3>3, <3>4, <3>5, <4>1, <4>2, CallStepStaysApart
    <3>6. CASE Become(p, [c EXCEPT !.pc = "relate"])
      <4> DEFINE d == [c EXCEPT !.pc = "relate"]
      <4>1. d.op = c.op /\ d.ret = c.ret /\ d.id = c.id /\ d.pc = "relate" BY <1>1 DEF Call
      <4>2. c.ret # "conflict" BY <1>1, <2>3 DEF ApartFrom
      <4> HIDE DEF d
      <4>3. Become(p, d) BY <3>6 DEF d
      <4>4. QED BY <2>3, <3>5, <4>1, <4>2, <4>3
    <3>7. CASE Answer(p, "error")
      <4> DEFINE d == [Idle EXCEPT !.op = c.op, !.id = c.id, !.ret = "error"]
      <4>1. d.op = c.op /\ d.ret = "error" /\ d.pc = "idle" BY <1>1, IdleIsCall DEF Call
      <4> HIDE DEF d
      <4>2. Become(p, d) BY <3>7 DEF Answer, d
      <4>3. QED BY <2>3, <3>5, <4>1, <4>2
    <3>8. QED BY <1>4, <2>3, <3>6, <3>7
  <2>4. QED BY <1>1, <2>2, <2>3 DEF ApartFrom
<1>5. QED BY <1>3, <1>4 DEF CommitCreate

LEMMA CommitRelateStaysApart ==
  ASSUME Inv, Apart, UNCHANGED <<held, nextVid>>, NEW p \in Procs, CommitRelate(p)
  PROVE  Apart'
<1> DEFINE c == call[p]
<1>1. /\ c \in Call /\ c.op = "save_snapshot" /\ Pending(c) /\ c.id \in snapIds
      /\ \A f \in snapshotOf : f.from # c.id
  BY DEF CommitRelate, At, Inv, RepoOK, CallsOK, Apart, ApartFrom, Pending
<1>2. /\ UNCHANGED <<record, snapIds>>
      /\ snapshotOf' = snapshotOf \cup {[from |-> c.id, to |-> c.source]}
  BY DEF CommitRelate, RelateSnapshot
<1>3. \A q \in Procs \ {p} : Pending(call[q]) => call[q].id # c.id BY <1>1 DEF Apart
<1>4. OneSource' /\ StoredAreKnown'
  BY <1>1, <1>2 DEF Apart, OneSource, StoredAreKnown, Named
<1>5. LeavesAlone(p)
  <2>1. ASSUME NEW q \in Procs \ {p}, Pending(call[q])
        PROVE  /\ call[q].pc = "create" => record'[call[q].id].state = "absent"
               /\ \A e \in snapshotOf' : e.from # call[q].id
    BY <1>2, <1>3, <2>1 DEF Apart, ApartFrom
  <2>2. QED BY <2>1 DEF LeavesAlone
<1>6. PICK ret \in {"ok", "error"} : Answer(p, ret) BY DEF CommitRelate
<1> DEFINE d == [Idle EXCEPT !.op = c.op, !.id = c.id, !.ret = ret]
<1>7. d.pc = "idle" /\ d.ret # "conflict" BY <1>6, IdleIsCall DEF Call
<1> HIDE DEF d
<1>8. Become(p, d) BY <1>6 DEF Answer, d
<1>9. ~ Pending(d) /\ ApartFrom(d, Named, snapIds', record', snapshotOf')
  BY <1>7 DEF ApartFrom, Pending
<1>10. Named \cap snapIds' = {} /\ snapIds \subseteq snapIds' BY <1>2 DEF Apart
<1>11. QED BY <1>4, <1>5, <1>8, <1>9, <1>10, CallStepStaysApart

-----------------------------------------------------------------------------
(* The beginnings of calls, and the operations on record values.           *)

(* What a method leaves in the future when it begins, save_snapshot apart: *)
(* nothing to create, or the rows of a record value that is held.          *)
Begun(c) ==
  /\ c.op # "save_snapshot" /\ c.ret # "conflict"
  /\ \/ c.pc \in {"row", "edges", "append", "idle"}
     \/ c.pc = "exists" /\ c.op = "delete"
     \/ /\ c.pc = "exists" /\ c.op = "save"
        /\ \E h \in Ids, now \in Nat :
             /\ held[h].state # "none" /\ c.id = held[h].id /\ c.row = RowOf(held[h], now)
             /\ c.rows = RowsOf(held[h], held[h].id, now)

LEMMA StartSaveLeaves ==
  ASSUME NEW p \in Procs, NEW h \in Ids, held[h].state # "none", NEW creator,
         StartSave(p, held[h], creator)
  PROVE  \E c : Begun(c) /\ Become(p, c)
<1> DEFINE rec == held[h]
<1>1. CASE Start(p, "save", [Idle EXCEPT !.id = rec.id, !.ret = "refused"])
  <2> DEFINE c == [[Idle EXCEPT !.id = rec.id, !.ret = "refused"] EXCEPT !.op = "save"]
  <2>1. c.op = "save" /\ c.pc = "idle" /\ c.ret = "refused" BY IdleIsCall DEF Call
  <2> HIDE DEF c
  <2>2. Become(p, c) BY <1>1 DEF Start, c
  <2>3. QED BY <2>1, <2>2 DEF Begun
<1>2. ASSUME NEW now \in 0 .. MaxClock,
             Start(p, "save", [Idle EXCEPT !.pc = "exists", !.id = rec.id,
                !.creator = creator, !.row = RowOf(rec, now),
                !.rows = RowsOf(rec, rec.id, now)])
      PROVE  \E c : Begun(c) /\ Become(p, c)
  <2> DEFINE row == RowOf(rec, now)
             rows == RowsOf(rec, rec.id, now)
             c == [[Idle EXCEPT !.pc = "exists", !.id = rec.id, !.creator = creator,
                                !.row = row, !.rows = rows] EXCEPT !.op = "save"]
  <2> HIDE DEF row, rows
  <2>1. /\ c.op = "save" /\ c.pc = "exists" /\ c.ret = "none" /\ c.id = rec.id
        /\ c.row = row /\ c.rows = rows
    BY IdleIsCall, IdleHasNothingToSay DEF Call
  <2> HIDE DEF c
  <2>2. Become(p, c) BY <1>2 DEF Start, c, row, rows
  <2>3. now \in Nat BY ClockAssumption
  <2>4. QED BY <2>1, <2>2, <2>3 DEF Begun, row, rows
<1>3. QED BY <1>1, <1>2 DEF StartSave

LEMMA BeginLeaves ==
  ASSUME NEW p \in Procs, Begin(p)
  PROVE  /\ UNCHANGED <<held, record, version, createdBy, snapshotOf>>
         /\ \/ UNCHANGED snapIds /\ \E c : Begun(c) /\ Become(p, c)
            \/ \E h \in Ids, creator \in Creators, new \in Ids :
                 held[h].state # "none" /\ StartSaveSnapshot(p, held[h], creator, new)
<1> DEFINE Left == UNCHANGED snapIds /\ \E c : Begun(c) /\ Become(p, c)
<1>1. UNCHANGED <<held, record, version, createdBy, snapshotOf>>
  BY DEF Begin, StartFind, StartDelete, StartTransition, StartList, StartSave,
         StartSaveSnapshot, StartAddVersion, tableVars
<1>2. ASSUME NEW c, Become(p, c), c.op # "save_snapshot", c.ret = "none",
             c.pc \in {"row", "edges", "append"} \/ (c.pc = "exists" /\ c.op = "delete")
      PROVE  \E d : Begun(d) /\ Become(p, d)
  BY <1>2 DEF Begun
<1>3. ASSUME NEW i, StartFind(p, i) PROVE Left
  <2> DEFINE c == [[Idle EXCEPT !.pc = "row", !.id = i] EXCEPT !.op = "find"]
  <2>1. c.op = "find" /\ c.pc = "row" /\ c.ret = "none"
    BY IdleIsCall, IdleHasNothingToSay DEF Call
  <2> HIDE DEF c
  <2>2. QED BY <1>2, <1>3, <2>1 DEF StartFind, Start, c
<1>4. ASSUME NEW i, StartDelete(p, i) PROVE Left
  <2> DEFINE c == [[Idle EXCEPT !.pc = "exists", !.id = i] EXCEPT !.op = "delete"]
  <2>1. c.op = "delete" /\ c.pc = "exists" /\ c.ret = "none"
    BY IdleIsCall, IdleHasNothingToSay DEF Call
  <2> HIDE DEF c
  <2>2. QED BY <1>2, <1>4, <2>1 DEF StartDelete, Start, c
<1>5. ASSUME NEW i, NEW x, StartTransition(p, i, x) PROVE Left
  <2> DEFINE c == [[Idle EXCEPT !.pc = "row", !.id = i, !.hash = x]
                   EXCEPT !.op = "transition_to_fixed"]
  <2>1. c.op = "transition_to_fixed" /\ c.pc = "row" /\ c.ret = "none"
    BY IdleIsCall, IdleHasNothingToSay DEF Call
  <2> HIDE DEF c
  <2>2. QED BY <1>2, <1>5, <2>1 DEF StartTransition, Start, c
<1>6. ASSUME NEW by, StartList(p, by) PROVE Left
  <2> DEFINE c == [[Idle EXCEPT !.pc = "edges", !.creator = by] EXCEPT !.op = "list_by_creator"]
  <2>1. c.op = "list_by_creator" /\ c.pc = "edges" /\ c.ret = "none"
    BY IdleIsCall, IdleHasNothingToSay DEF Call
  <2> HIDE DEF c
  <2>2. QED BY <1>2, <1>6, <2>1 DEF StartList, Start, c
<1>7. ASSUME NEW i, NEW b, StartAddVersion(p, i, b) PROVE Left
  <2>1. PICK now :
          Start(p, "add_version", [Idle EXCEPT !.pc = "append", !.id = i,
               !.rows = {[vid |-> nextVid, rid |-> i, body |-> b, at |-> now]}])
    BY <1>7 DEF StartAddVersion
  <2> DEFINE rows == {[vid |-> nextVid, rid |-> i, body |-> b, at |-> now]}
             c == [[Idle EXCEPT !.pc = "append", !.id = i, !.rows = rows]
                   EXCEPT !.op = "add_version"]
  <2> HIDE DEF rows
  <2>2. c.op = "add_version" /\ c.pc = "append" /\ c.ret = "none"
    BY IdleIsCall, IdleHasNothingToSay DEF Call
  <2> HIDE DEF c
  <2>3. Become(p, c) BY <2>1 DEF Start, c, rows
  <2>4. QED BY <1>2, <1>7, <2>2, <2>3 DEF StartAddVersion
<1>8. ASSUME NEW h \in Ids, NEW creator \in Creators, held[h].state # "none",
             StartSave(p, held[h], creator)
      PROVE  Left
  BY <1>8, StartSaveLeaves DEF StartSave
<1>9. QED BY <1>1, <1>3, <1>4, <1>5, <1>6, <1>7, <1>8 DEF Begin

LEMMA StartSaveSnapshotStaysApart ==
  ASSUME Inv, Apart, UNCHANGED held, NEW p \in Procs, NEW h \in Ids,
         NEW creator, NEW new \in Ids, StartSaveSnapshot(p, held[h], creator, new)
  PROVE  Apart'
<1>1. PICK now :
        Start(p, "save_snapshot", [Idle EXCEPT !.pc = "create", !.id = new,
             !.creator = creator, !.source = held[h].id, !.row = RowOf(held[h], now),
             !.rows = RowsOf(ReMinted(held[h]), new, now)])
  BY DEF StartSaveSnapshot
<1> DEFINE row == RowOf(held[h], now)
           rows == RowsOf(ReMinted(held[h]), new, now)
           c == [[Idle EXCEPT !.pc = "create", !.id = new, !.creator = creator,
                              !.source = held[h].id, !.row = row, !.rows = rows]
                 EXCEPT !.op = "save_snapshot"]
<1>2. row.state = "snapshot" BY DEF RowOf, StartSaveSnapshot
<1> HIDE DEF row, rows
<1>3. /\ c.op = "save_snapshot" /\ c.pc = "create" /\ c.id = new /\ c.row = row
      /\ c.ret = "none"
  BY IdleIsCall, IdleHasNothingToSay DEF Call
<1> HIDE DEF c
<1>4. Become(p, c) BY <1>1 DEF Start, c, row, rows
<1>5. /\ UNCHANGED <<record, snapshotOf>> /\ snapIds' = snapIds \cup {new}
      /\ new \notin snapIds /\ new \notin Named
  BY DEF StartSaveSnapshot, tableVars, MintedId, Named
<1>6. record[new].state = "absent" /\ \A f \in snapshotOf : f.from # new
  BY <1>5 DEF Apart, OneSource, StoredAreKnown
<1>7. ApartFrom(c, Named, snapIds', record', snapshotOf')
  BY <1>2, <1>3, <1>5, <1>6 DEF ApartFrom
<1>8. \A q \in Procs : Pending(call[q]) => call[q].id \in snapIds /\ call[q].id # c.id
  BY <1>3, <1>5 DEF Apart, ApartFrom
<1>9. LeavesAlone(p)
  <2>1. ASSUME NEW q \in Procs \ {p}, Pending(call[q])
        PROVE  /\ call[q].pc = "create" => record'[call[q].id].state = "absent"
               /\ \A e \in snapshotOf' : e.from # call[q].id
    BY <1>5, <2>1 DEF Apart, ApartFrom
  <2>2. QED BY <2>1 DEF LeavesAlone
<1>10. OneSource' /\ StoredAreKnown' /\ Named \cap snapIds' = {}
  BY <1>5 DEF Apart, OneSource, StoredAreKnown, Named
<1>11. QED BY <1>4, <1>5, <1>7, <1>8, <1>9, <1>10, CallStepStaysApart

(* A record value keeps its id, and only new names another.                *)
LEMMA HoldNames ==
  ASSUME Inv, Hold
  PROVE  Named \subseteq Named' /\ \A i \in Named' : i \in Named \/ i \notin snapIds
<1>1. held \in [Ids -> Record] BY DEF Inv, HeldOK, CoreTypeOK
<1>2. CASE \E h \in Ids, b \in Bodies : h \notin snapIds /\ New(h, b)
  BY <1>1, <1>2 DEF New, Named
<1>3. CASE \E h \in Ids, b \in Bodies : Update(h, b)
  <2>1. \A h \in Ids : held'[h].state = held[h].state /\ held'[h].id = held[h].id
    BY <1>1, <1>3 DEF Update, Record
  <2>2. QED BY <2>1 DEF Named
<1>4. CASE \E h \in Ids, g \in Ids : Snapshot(h, g)
  <2>1. PICK h \in Ids, g \in Ids : Snapshot(h, g) BY <1>4
  <2>2. /\ \A k \in Ids \ {g} : held'[k] = held[k]
        /\ held'[g].id = held[h].id /\ held[g].state = "none" /\ held[h].state # "none"
    BY <1>1, <2>1 DEF Snapshot, Record
  <2>3. QED BY <2>2 DEF Named
<1>5. CASE \E h \in Ids, x \in Bytes : Fix(h, x)
  <2>1. PICK h \in Ids, x \in Bytes : Fix(h, x) BY <1>5
  <2>2. held[h] \in Record /\ held[h].chain # <<>>
    BY <1>1, <2>1 DEF Inv, HeldOK, DigestExactlyWhenFixed, Fix
  <2>3. held'[h].id = held[h].id /\ held'[h].state = "fixed"
    BY <1>1, <2>1, <2>2, FossilizeDescends, FossilizeWellFormed DEF Fix
  <2>4. \A k \in Ids \ {h} : held'[k] = held[k] BY <1>1, <2>1 DEF Fix
  <2>5. held[h].state # "none" BY <2>1 DEF Fix
  <2>6. QED BY <2>3, <2>4, <2>5 DEF Named
<1>6. QED BY <1>2, <1>3, <1>4, <1>5 DEF Hold

LEMMA HoldStaysApart ==
  ASSUME Inv, Apart, Hold
  PROVE  Apart'
<1>1. UNCHANGED <<call, record, snapIds, snapshotOf>> BY DEF Hold, repoVars
<1>2. Named \subseteq Named' /\ Named' \cap snapIds = {} BY HoldNames DEF Apart
<1>3. \A p \in Procs : ApartFrom(call[p], Named', snapIds, record, snapshotOf)
  BY <1>2 DEF Apart, ApartFrom
<1>4. QED BY <1>1, <1>2, <1>3 DEF Apart, OneSource, StoredAreKnown

LEMMA BeginStaysApart ==
  ASSUME Inv, Apart, NEW p \in Procs, Begin(p)
  PROVE  Apart'
<1>1. UNCHANGED <<held, record, snapshotOf>> BY BeginLeaves
<1>2. ASSUME NEW h \in Ids, NEW creator, NEW new \in Ids,
             StartSaveSnapshot(p, held[h], creator, new)
      PROVE  Apart'
  BY <1>1, <1>2, StartSaveSnapshotStaysApart
<1>3. ASSUME UNCHANGED snapIds, NEW c, Begun(c), Become(p, c) PROVE Apart'
  <2>1. \A h \in Ids : held[h].id \in Ids BY DEF Inv, HeldOK, CoreTypeOK, Record
  <2>2. c.pc = "exists" /\ c.op = "save" => c.id \in Named
    BY <1>3, <2>1 DEF Begun, Named
  <2>3. QED BY <1>1, <1>3, <2>2, QuietStepStaysApart DEF Begun, CreatesNamed
<1>4. QED BY <1>2, <1>3, BeginLeaves

LEMMA ApartAlways == Spec => []Apart
<1>1. Init => Apart
  <2> SUFFICES ASSUME Init PROVE Apart OBVIOUS
  <2>1. Named = {} BY DEF Init, CoreInit, Nothing, Named
  <2>2. /\ snapIds = {} /\ snapshotOf = {} /\ \A i \in Ids : record[i].state = "absent"
        /\ \A p \in Procs : call[p] = Idle
    BY DEF Init, RepoInit, TablesInit, NoRow
  <2>3. Idle.op = "none" /\ Idle.pc = "idle" BY DEF Idle
  <2>4. QED
    BY <2>1, <2>2, <2>3 DEF Apart, ApartFrom, OneSource, StoredAreKnown, Pending
<1>2. Inv /\ OneBody /\ OwnRows /\ Apart /\ [Next]_vars => Apart'
  <2> SUFFICES ASSUME Inv, OwnRows, Apart, [Next]_vars PROVE Apart' OBVIOUS
  <2>1. CASE UNCHANGED vars
    <3>1. UNCHANGED <<held, call, record, snapIds, snapshotOf>> BY <2>1 DEF vars, repoVars
    <3>2. Named' = Named BY <3>1 DEF Named
    <3>3. \A p \in Procs : ApartFrom(call'[p], Named', snapIds', record', snapshotOf')
      BY <3>1, <3>2 DEF Apart
    <3>4. OneSource' /\ StoredAreKnown' BY <3>1, <3>2 DEF Apart, OneSource, StoredAreKnown
    <3>5. QED BY <3>1, <3>2, <3>3, <3>4 DEF Apart
  <2>2. ASSUME NEW p \in Procs, Query(p) PROVE Apart'
    BY <2>2, ReadsStayApart, CommitCreateStaysApart, CommitRelateStaysApart,
       OtherWritesStayApart DEF Query
  <2>3. ASSUME NEW p \in Procs, Fail(p) PROVE Apart'
    BY <2>3, OtherWritesStayApart DEF Fail
  <2>4. QED BY <2>1, <2>2, <2>3, HoldStaysApart, BeginStaysApart DEF Next
<1>3. QED BY <1>1, <1>2, InvIsInvariant, VersionsShowOneBody, PTL DEF Spec

(* save_snapshot never finds one of its ids taken, whatever is saved,      *)
(* appended, fixed, snapshot again or deleted around it.                   *)
THEOREM SnapshotsDoNotCollide == Spec => []SnapshotsNeverCollide
<1>1. Apart => SnapshotsNeverCollide BY DEF Apart, ApartFrom, SnapshotsNeverCollide
<1>2. QED BY <1>1, ApartAlways, PTL

-----------------------------------------------------------------------------
(* Where nobody deletes, what is linked is there.                          *)

SnapshotOrFixed(row) == row.state \in {"snapshot", "fixed"}

LinkedBy(c, r, e) ==
  /\ c.pc = "relate" => SnapshotOrFixed(r[c.id])
  /\ c.op = "save_snapshot" /\ c.ret = "ok" => \E f \in e : f.from = c.id

Linked ==
  /\ \A e \in snapshotOf : SnapshotOrFixed(record[e.from])
  /\ \A p \in Procs : LinkedBy(call[p], record, snapshotOf)

(* Snapshots and Fixed records stay that, edges stay.                      *)
StaysLinked ==
  /\ \A i \in Ids : SnapshotOrFixed(record[i]) => SnapshotOrFixed(record'[i])
  /\ snapshotOf \subseteq snapshotOf'

LEMMA CallStepStaysLinked ==
  ASSUME Inv, Linked, StaysLinked, NEW p \in Procs, NEW c, Become(p, c),
         LinkedBy(c, record', snapshotOf'),
         \A e \in snapshotOf' : e \in snapshotOf \/ SnapshotOrFixed(record'[e.from])
  PROVE  Linked'
<1>1. \A q \in Procs : call'[q] = IF q = p THEN c ELSE call[q]
  BY DEF Become, Inv, RepoOK, CallsOK
<1>2. ASSUME NEW q \in Procs PROVE LinkedBy(call'[q], record', snapshotOf')
  <2>1. CASE q = p BY <1>1, <2>1
  <2>2. CASE q # p
    <3>1. call[q].id \in Ids BY DEF Inv, RepoOK, CallsOK, Call
    <3>2. LinkedBy(call[q], record', snapshotOf')
      BY <3>1 DEF Linked, LinkedBy, StaysLinked
    <3>3. QED BY <1>1, <2>2, <3>2
  <2>3. QED BY <2>1, <2>2
<1>3. ASSUME NEW e \in snapshotOf' PROVE SnapshotOrFixed(record'[e.from])
  <2>1. \A f \in snapshotOf : f.from \in Ids BY DEF Inv, RepoOK, TablesOK, TablesTypeOK
  <2>2. QED BY <1>3, <2>1 DEF Linked, StaysLinked
<1>4. QED BY <1>2, <1>3 DEF Linked

LEMMA AnswerStaysLinked ==
  ASSUME Inv, Linked, StaysLinked, snapshotOf' = snapshotOf, NEW p \in Procs, NEW ret,
         Answer(p, ret), call[p].op = "save_snapshot" => ret # "ok"
  PROVE  Linked'
<1> DEFINE c == [Idle EXCEPT !.op = call[p].op, !.id = call[p].id, !.ret = ret]
<1>1. c.pc = "idle" /\ c.op = call[p].op /\ c.ret = ret BY IdleIsCall DEF Call
<1> HIDE DEF c
<1>2. LinkedBy(c, record', snapshotOf') BY <1>1 DEF LinkedBy
<1>3. QED BY <1>2, CallStepStaysLinked DEF Answer, c

LEMMA SameTablesStayLinked == UNCHANGED <<record, snapshotOf>> => StaysLinked
BY DEF StaysLinked

LEMMA ReadsStayLinked ==
  ASSUME Inv, Linked, NEW p \in Procs,
         ReadEdges(p) \/ ReadRow(p) \/ ReadVersions(p) \/ ReadCreator(p) \/ CheckExists(p)
  PROVE  Linked'
<1>1. PICK c : ReadLeft(call[p], c) /\ Become(p, c) BY ReadsLeave
<1>2. UNCHANGED <<record, snapshotOf>> BY ReadsLeave
<1>3. LinkedBy(call[p], record, snapshotOf) BY DEF Linked
<1>4. LinkedBy(c, record', snapshotOf') BY <1>1, <1>2, <1>3 DEF LinkedBy, ReadLeft
<1>5. QED BY <1>1, <1>2, <1>4, SameTablesStayLinked, CallStepStaysLinked

LEMMA BeginStaysLinked ==
  ASSUME Inv, Linked, NEW p \in Procs, Begin(p)
  PROVE  Linked'
<1>1. UNCHANGED <<record, snapshotOf>> BY BeginLeaves
<1>2. ASSUME NEW c, Become(p, c), c.pc # "relate", c.op = "save_snapshot" => c.ret # "ok"
      PROVE  Linked'
  <2>1. LinkedBy(c, record', snapshotOf') BY <1>2 DEF LinkedBy
  <2>2. QED BY <1>1, <1>2, <2>1, SameTablesStayLinked, CallStepStaysLinked
<1>3. ASSUME NEW c, Begun(c), Become(p, c) PROVE Linked'
  BY <1>2, <1>3 DEF Begun
<1>4. ASSUME NEW h, NEW creator, NEW new, StartSaveSnapshot(p, held[h], creator, new)
      PROVE  Linked'
  <2>1. PICK now :
          Start(p, "save_snapshot", [Idle EXCEPT !.pc = "create", !.id = new,
               !.creator = creator, !.source = held[h].id, !.row = RowOf(held[h], now),
               !.rows = RowsOf(ReMinted(held[h]), new, now)])
    BY <1>4 DEF StartSaveSnapshot
  <2> DEFINE row == RowOf(held[h], now)
             rows == RowsOf(ReMinted(held[h]), new, now)
             c == [[Idle EXCEPT !.pc = "create", !.id = new, !.creator = creator,
                                !.source = held[h].id, !.row = row, !.rows = rows]
                   EXCEPT !.op = "save_snapshot"]
  <2> HIDE DEF row, rows
  <2>2. c.pc = "create" /\ c.ret = "none" BY IdleIsCall, IdleHasNothingToSay DEF Call
  <2> HIDE DEF c
  <2>3. Become(p, c) BY <2>1 DEF Start, c, row, rows
  <2>4. QED BY <1>2, <2>2, <2>3
<1>5. QED BY <1>3, <1>4, BeginLeaves

LEMMA CommitCreateStaysLinked ==
  ASSUME Inv, Apart, Linked, NEW p \in Procs, CommitCreate(p)
  PROVE  Linked'
<1> DEFINE c == call[p]
<1>1. /\ c \in Call /\ c.id \in Ids /\ c.pc = "create"
      /\ ApartFrom(c, Named, snapIds, record, snapshotOf)
      /\ record \in [Ids -> RecordRow]
  BY DEF CommitCreate, At, Inv, RepoOK, CallsOK, Call, TablesOK, TablesTypeOK, Apart
<1>2. CASE UNCHANGED tableVars /\ Answer(p, "conflict")
  BY <1>2, SameTablesStayLinked, AnswerStaysLinked DEF tableVars
<1>3. CASE /\ CanCreate(c.id, c.rows)
           /\ Create(c.id, c.row, c.rows, c.creator)
           /\ \/ c.op = "save" /\ Answer(p, "ok")
              \/ c.op = "save_snapshot" /\ Become(p, [c EXCEPT !.pc = "relate"])
              \/ Answer(p, "error")
  <2>1. /\ record[c.id].state = "absent" /\ snapshotOf' = snapshotOf
        /\ \A i \in Ids : record'[i] = IF i = c.id THEN c.row ELSE record[i]
    BY <1>1, <1>3 DEF CanCreate, Create, Exists
  <2>2. StaysLinked BY <2>1 DEF StaysLinked, SnapshotOrFixed
  <2>3. CASE \E ret \in {"ok", "error"} : (c.op = "save" \/ ret # "ok") /\ Answer(p, ret)
    BY <2>1, <2>2, <2>3, AnswerStaysLinked
  <2>4. CASE c.op = "save_snapshot" /\ Become(p, [c EXCEPT !.pc = "relate"])
    <3> DEFINE d == [c EXCEPT !.pc = "relate"]
    <3>1. d.op = c.op /\ d.ret = c.ret /\ d.id = c.id /\ d.pc = "relate" BY <1>1 DEF Call
    <3> HIDE DEF d
    <3>2. SnapshotOrFixed(record'[c.id])
      BY <1>1, <2>1, <2>4 DEF ApartFrom, Pending, SnapshotOrFixed
    <3>3. LinkedBy(c, record, snapshotOf) BY DEF Linked
    <3>4. LinkedBy(d, record', snapshotOf') BY <2>1, <3>1, <3>2, <3>3 DEF LinkedBy
    <3>5. Become(p, d) BY <2>4 DEF d
    <3>6. QED BY <2>1, <2>2, <3>4, <3>5, CallStepStaysLinked
  <2>5. QED BY <1>3, <2>3, <2>4
<1>4. QED BY <1>2, <1>3 DEF CommitCreate

LEMMA CommitRelateStaysLinked ==
  ASSUME Inv, Linked, NEW p \in Procs, CommitRelate(p)
  PROVE  Linked'
<1> DEFINE c == call[p]
<1>1. c \in Call /\ SnapshotOrFixed(record[c.id])
  BY DEF CommitRelate, At, Inv, RepoOK, CallsOK, Linked, LinkedBy
<1>2. /\ record' = record
      /\ snapshotOf' = snapshotOf \cup {[from |-> c.id, to |-> c.source]}
  BY DEF CommitRelate, RelateSnapshot
<1>3. StaysLinked BY <1>2 DEF StaysLinked
<1>4. PICK ret \in {"ok", "error"} : Answer(p, ret) BY DEF CommitRelate
<1> DEFINE d == [Idle EXCEPT !.op = c.op, !.id = c.id, !.ret = ret]
<1>5. d.pc = "idle" /\ d.id = c.id BY <1>1, IdleIsCall DEF Call
<1> HIDE DEF d
<1>6. Become(p, d) BY <1>4 DEF Answer, d
<1>7. LinkedBy(d, record', snapshotOf')
  <2>1. [from |-> c.id, to |-> c.source].from = d.id BY <1>5
  <2>2. \E f \in snapshotOf' : f.from = d.id BY <1>2, <2>1
  <2>3. QED BY <1>5, <2>2 DEF LinkedBy
<1>8. \A e \in snapshotOf' : e \in snapshotOf \/ SnapshotOrFixed(record'[e.from])
  BY <1>1, <1>2
<1>9. QED BY <1>3, <1>6, <1>7, <1>8, CallStepStaysLinked

LEMMA OtherWritesStayLinked ==
  ASSUME Inv, Apart, Linked, NEW p \in Procs, CommitAppend(p) \/ CommitSeal(p) \/ Fail(p)
  PROVE  Linked'
<1>1. record \in [Ids -> RecordRow] BY DEF Inv, RepoOK, TablesOK, TablesTypeOK
<1>2. StaysLinked /\ snapshotOf' = snapshotOf
  <2>1. CASE CommitAppend(p)
    BY <1>1, <2>1 DEF CommitAppend, AppendVersion, StaysLinked, SnapshotOrFixed, RecordRow
  <2>2. CASE CommitSeal(p)
    BY <1>1, <2>2 DEF CommitSeal, SealRecord, StaysLinked, SnapshotOrFixed
  <2>3. CASE Fail(p) BY <2>3 DEF Fail, tableVars, StaysLinked
  <2>4. QED BY <2>1, <2>2, <2>3
<1>3. CASE Fail(p) BY <1>2, <1>3, AnswerStaysLinked DEF Fail
<1>4. CASE CommitAppend(p) \/ CommitSeal(p)
  <2>1. call[p].op # "save_snapshot"
    BY <1>4 DEF CommitAppend, CommitSeal, At, Apart, ApartFrom
  <2>2. QED BY <1>2, <1>4, <2>1, AnswerStaysLinked DEF CommitAppend, CommitSeal
<1>5. QED BY <1>3, <1>4

LEMMA HoldOrStutterStaysLinked ==
  ASSUME Linked, Hold \/ UNCHANGED vars
  PROVE  Linked'
<1>1. UNCHANGED <<call, record, snapshotOf>> BY DEF Hold, vars, repoVars
<1>2. QED BY <1>1 DEF Linked

LEMMA LinkedAlways ==
  ASSUME "delete" \notin Ops
  PROVE  Spec => []Linked
<1>1. Init => Linked
  <2> SUFFICES ASSUME Init PROVE Linked OBVIOUS
  <2>1. snapshotOf = {} /\ \A p \in Procs : call[p] = Idle
    BY DEF Init, RepoInit, TablesInit
  <2>2. Idle.op = "none" /\ Idle.pc = "idle" BY DEF Idle
  <2>3. QED BY <2>1, <2>2 DEF Linked, LinkedBy
<1>2. Inv /\ Kept /\ Apart /\ Linked /\ [Next]_vars => Linked'
  <2> SUFFICES ASSUME Inv, Kept, Apart, Linked, [Next]_vars PROVE Linked' OBVIOUS
  <2>1. ASSUME NEW p \in Procs, Query(p) PROVE Linked'
    <3>1. ~ CommitDelete(p) BY DEF Kept, CallsKnow, Knows, AwaitsOwn, CommitDelete, At
    <3>2. QED
      BY <2>1, <3>1, ReadsStayLinked, CommitCreateStaysLinked, CommitRelateStaysLinked,
         OtherWritesStayLinked DEF Query
  <2>2. ASSUME NEW p \in Procs, Fail(p) PROVE Linked' BY <2>2, OtherWritesStayLinked
  <2>3. QED BY <2>1, <2>2, BeginStaysLinked, HoldOrStutterStaysLinked DEF Next
<1>3. QED BY <1>1, <1>2, InvIsInvariant, KeptAlways, ApartAlways, PTL DEF Spec

(* Where nobody deletes, a snapshot_of edge starts from a record that is   *)
(* stored with its versions, and that was minted by the one save_snapshot  *)
(* that linked it; and a save_snapshot that answered Ok is linked, although*)
(* its two queries are not one transaction.                                *)
THEOREM SnapshotsAreAlwaysLinked ==
  ASSUME "delete" \notin Ops
  PROVE  Spec => []SnapshotsAreLinked
<1>1. Inv /\ Apart /\ Linked => SnapshotsAreLinked
  <2> SUFFICES ASSUME Inv, Apart, Linked PROVE SnapshotsAreLinked OBVIOUS
  <2>1. ASSUME NEW e \in snapshotOf
        PROVE  /\ e.from \in snapIds /\ record[e.from].state \in {"snapshot", "fixed"}
               /\ VersionsOf(e.from) # {}
    <3>1. e.from \in Ids BY DEF Inv, RepoOK, TablesOK, TablesTypeOK
    <3>2. record[e.from].state \in {"snapshot", "fixed"} BY DEF Linked, SnapshotOrFixed
    <3>3. VersionsOf(e.from) # {}
      BY <3>1, <3>2 DEF Inv, RepoOK, TablesOK, EveryRecordHasAVersion, Exists
    <3>4. QED BY <3>2, <3>3 DEF Apart, OneSource
  <2>2. \A p \in Procs : call[p].op = "save_snapshot" /\ call[p].ret = "ok"
                           => \E e \in snapshotOf : e.from = call[p].id
    BY DEF Linked, LinkedBy
  <2>3. QED BY <2>1, <2>2 DEF SnapshotsAreLinked, Apart, OneSource
<1>2. QED BY <1>1, InvIsInvariant, ApartAlways, LinkedAlways, PTL

-----------------------------------------------------------------------------
(* Where nobody deletes, state and body are sealed together.               *)

HasFossil(i, hash, rows) == \E w \in rows : w.rid = i /\ IsFossil(w.body, hash)

(* What a call is to write.                                                *)
SealedRows(c) ==
  /\ c.pc = "seal" => \A w \in c.rows : IsFossil(w.body, c.row.hash)
  /\ c.pc = "create" \/ (c.pc = "exists" /\ c.op = "save") =>
       (c.row.state = "fixed" => HasFossil(c.id, c.row.hash, c.rows))

SealedHeld ==
  \A h \in Ids : held[h].state = "fixed" =>
    \E j \in DOMAIN held[h].chain : IsFossil(held[h].chain[j].body, held[h].hash)

SealedTable == \A i \in Ids : record[i].state = "fixed" => HasFossil(i, record[i].hash, version)

Sealed == SealedHeld /\ SealedTable /\ \A p \in Procs : SealedRows(call[p])

LEMMA FossilIsFossil == \A body, hash : IsFossil(Fossil(body, hash), hash)
BY DEF IsFossil, Fossil

LEMMA CallStepStaysSealed ==
  ASSUME Inv, Sealed, UNCHANGED held, NEW p \in Procs, NEW c, Become(p, c),
         SealedRows(c), SealedTable'
  PROVE  Sealed'
<1>1. \A q \in Procs : call'[q] = IF q = p THEN c ELSE call[q]
  BY DEF Become, Inv, RepoOK, CallsOK
<1>2. \A q \in Procs : SealedRows(call'[q]) BY <1>1 DEF Sealed
<1>3. SealedHeld' BY DEF Sealed, SealedHeld
<1>4. QED BY <1>2, <1>3 DEF Sealed

LEMMA AnswerStaysSealed ==
  ASSUME Inv, Sealed, UNCHANGED held, NEW p \in Procs, NEW ret, Answer(p, ret), SealedTable'
  PROVE  Sealed'
<1> DEFINE c == [Idle EXCEPT !.op = call[p].op, !.id = call[p].id, !.ret = ret]
<1>1. c.pc = "idle" BY IdleIsCall DEF Call
<1> HIDE DEF c
<1>2. SealedRows(c) BY <1>1 DEF SealedRows
<1>3. QED BY <1>2, CallStepStaysSealed DEF Answer, c

LEMMA SameTableStaysSealed ==
  ASSUME SealedTable, UNCHANGED <<record, version>>
  PROVE  SealedTable'
BY DEF SealedTable

(* No record becomes Fixed or gets another hash, and rows are only added.  *)
LEMMA GrowthStaysSealed ==
  ASSUME SealedTable, version \subseteq version',
         \A i \in Ids : record'[i].state = "fixed" =>
           \/ record[i].state = "fixed" /\ record'[i].hash = record[i].hash
           \/ HasFossil(i, record'[i].hash, version')
  PROVE  SealedTable'
BY DEF SealedTable, HasFossil

LEMMA ReadsStaySealed ==
  ASSUME Inv, Sealed, UNCHANGED held, NEW p \in Procs,
         ReadEdges(p) \/ ReadRow(p) \/ ReadVersions(p) \/ ReadCreator(p) \/ CheckExists(p)
  PROVE  Sealed'
<1>1. PICK c : ReadLeft(call[p], c) /\ Become(p, c) BY ReadsLeave
<1>2. UNCHANGED <<record, version>> BY ReadsLeave
<1>3. SealedRows(call[p]) BY DEF Sealed
<1>4. SealedRows(c) BY <1>1, <1>3 DEF SealedRows, ReadLeft
<1>5. SealedTable' BY <1>2, SameTableStaysSealed DEF Sealed
<1>6. QED BY <1>1, <1>4, <1>5, CallStepStaysSealed

LEMMA BeginStaysSealed ==
  ASSUME Inv, Sealed, NEW p \in Procs, Begin(p)
  PROVE  Sealed'
<1>1. UNCHANGED held /\ SealedTable' BY BeginLeaves, SameTableStaysSealed DEF Sealed
<1>2. ASSUME NEW h \in Ids, NEW now PROVE
        RowOf(held[h], now).state = "fixed" =>
          HasFossil(held[h].id, RowOf(held[h], now).hash, RowsOf(held[h], held[h].id, now))
  <2> DEFINE rec == held[h]
  <2> SUFFICES ASSUME rec.state = "fixed"
               PROVE  \E w \in RowsOf(rec, rec.id, now) : w.rid = rec.id /\ IsFossil(w.body, rec.hash)
    BY DEF RowOf, HasFossil
  <2>1. PICK j \in DOMAIN rec.chain : IsFossil(rec.chain[j].body, rec.hash)
    BY DEF Sealed, SealedHeld
  <2> DEFINE w == [vid |-> rec.chain[j].vid, rid |-> rec.id, body |-> rec.chain[j].body,
                   at |-> now]
  <2>2. w \in RowsOf(rec, rec.id, now) BY DEF RowsOf
  <2>3. w.body = rec.chain[j].body /\ w.rid = rec.id OBVIOUS
  <2>4. QED BY <2>1, <2>2, <2>3
<1>3. ASSUME NEW c, Begun(c), Become(p, c) PROVE Sealed'
  <2>1. SealedRows(c) BY <1>2, <1>3 DEF Begun, SealedRows
  <2>2. QED BY <1>1, <1>3, <2>1, CallStepStaysSealed
<1>4. ASSUME NEW h, NEW creator, NEW new, StartSaveSnapshot(p, held[h], creator, new)
      PROVE  Sealed'
  <2>1. PICK now :
          Start(p, "save_snapshot", [Idle EXCEPT !.pc = "create", !.id = new,
               !.creator = creator, !.source = held[h].id, !.row = RowOf(held[h], now),
               !.rows = RowsOf(ReMinted(held[h]), new, now)])
    BY <1>4 DEF StartSaveSnapshot
  <2> DEFINE row == RowOf(held[h], now)
             rows == RowsOf(ReMinted(held[h]), new, now)
             c == [[Idle EXCEPT !.pc = "create", !.id = new, !.creator = creator,
                                !.source = held[h].id, !.row = row, !.rows = rows]
                   EXCEPT !.op = "save_snapshot"]
  <2>2. row.state = "snapshot" BY <1>4 DEF StartSaveSnapshot, RowOf
  <2> HIDE DEF row, rows
  <2>3. c.pc = "create" /\ c.row = row BY IdleIsCall DEF Call
  <2> HIDE DEF c
  <2>4. Become(p, c) BY <2>1 DEF Start, c, row, rows
  <2>5. SealedRows(c) BY <2>2, <2>3 DEF SealedRows
  <2>6. QED BY <1>1, <2>4, <2>5, CallStepStaysSealed
<1>5. QED BY <1>3, <1>4, BeginLeaves

LEMMA CommitCreateStaysSealed ==
  ASSUME Inv, Sealed, UNCHANGED held, NEW p \in Procs, CommitCreate(p)
  PROVE  Sealed'
<1> DEFINE c == call[p]
<1>1. /\ c \in Call /\ c.id \in Ids /\ c.pc = "create" /\ SealedRows(c)
      /\ record \in [Ids -> RecordRow]
  BY DEF CommitCreate, At, Inv, RepoOK, CallsOK, Call, TablesOK, TablesTypeOK, Sealed
<1>2. SealedTable'
  <2>1. CASE UNCHANGED tableVars BY <2>1, SameTableStaysSealed DEF tableVars, Sealed
  <2>2. CASE Create(c.id, c.row, c.rows, c.creator)
    <3>1. /\ version' = version \cup c.rows
          /\ \A i \in Ids : record'[i] = IF i = c.id THEN c.row ELSE record[i]
      BY <1>1, <2>2 DEF Create
    <3>2. c.row.state = "fixed" => HasFossil(c.id, c.row.hash, version')
      BY <1>1, <3>1 DEF SealedRows, HasFossil
    <3>3. QED BY <3>1, <3>2, GrowthStaysSealed DEF Sealed
  <2>3. QED BY <2>1, <2>2 DEF CommitCreate
<1>3. CASE \E ret : Answer(p, ret) BY <1>2, <1>3, AnswerStaysSealed
<1>4. CASE Become(p, [c EXCEPT !.pc = "relate"])
  <2> DEFINE d == [c EXCEPT !.pc = "relate"]
  <2>1. d.pc = "relate" BY <1>1 DEF Call
  <2> HIDE DEF d
  <2>2. SealedRows(d) BY <2>1 DEF SealedRows
  <2>3. QED BY <1>2, <1>4, <2>2, CallStepStaysSealed DEF d
<1>5. QED BY <1>3, <1>4 DEF CommitCreate

(* The transaction of a transition writes the fossil under the id of a     *)
(* version that its record has; by OneBody no other record has that id, so *)
(* the seals of the others are left as they are.                           *)
LEMMA CommitSealStaysSealed ==
  ASSUME Inv, OneBody, Kept, Sealed, UNCHANGED held, NEW p \in Procs, CommitSeal(p)
  PROVE  Sealed'
<1> DEFINE c == call[p]
<1>1. PICK r \in c.rows : SealRecord(c.id, c.row.hash, c.row.updated, r.vid, r.body)
  BY DEF CommitSeal
<1>2. /\ c \in Call /\ c.id \in Ids /\ c.pc = "seal" /\ SealedRows(c)
      /\ record \in [Ids -> RecordRow]
      /\ record[c.id].state # "absent" /\ HasRow(c.id, r, version)
  BY DEF CommitSeal, At, Inv, RepoOK, CallsOK, Call, TablesOK, TablesTypeOK, Sealed, Kept,
         CallsKnow, Knows, KnowsRecord, KnowsRows
<1>3. /\ version' = {IF v.vid = r.vid THEN [v EXCEPT !.body = r.body] ELSE v : v \in version}
      /\ record'[c.id].hash = c.row.hash
      /\ \A i \in Ids \ {c.id} : record'[i] = record[i]
  BY <1>1, <1>2 DEF SealRecord, Exists
<1>4. PICK u \in version : u.vid = r.vid /\ u.rid = c.id BY <1>2 DEF HasRow
<1>5. \A v \in version : v.vid = r.vid => v.rid = c.id
  <2>1. ASSUME NEW v \in version, v.vid = r.vid PROVE v.rid = c.id
    <3>1. PICK x \in TableShown : Of(u, x) BY TableRowsAreShown
    <3>2. PICK y \in TableShown : Of(v, y) BY TableRowsAreShown
    <3>3. QED BY <1>4, <2>1, <3>1, <3>2, ShownInParts DEF Of, OneBody
  <2>2. QED BY <2>1
<1>6. HasFossil(c.id, c.row.hash, version')
  <2> DEFINE w == [u EXCEPT !.body = r.body]
  <2>1. u \in VersionRow BY TableRowsAreShown
  <2>2. w.rid = c.id /\ w.body = r.body BY <1>4, <2>1 DEF VersionRow
  <2>3. w \in version' BY <1>3, <1>4
  <2>4. IsFossil(r.body, c.row.hash) BY <1>2 DEF SealedRows
  <2>5. QED BY <2>2, <2>3, <2>4 DEF HasFossil
<1>7. ASSUME NEW i \in Ids, i # c.id, record'[i].state = "fixed"
      PROVE  HasFossil(i, record'[i].hash, version')
  <2>1. record'[i] = record[i] BY <1>3, <1>7
  <2>2. PICK v \in version : v.rid = i /\ IsFossil(v.body, record[i].hash)
    BY <1>7, <2>1 DEF Sealed, SealedTable, HasFossil
  <2>3. v \in version' BY <1>3, <1>5, <1>7, <2>2
  <2>4. QED BY <2>1, <2>2, <2>3 DEF HasFossil
<1>8. SealedTable' BY <1>3, <1>6, <1>7 DEF SealedTable
<1>9. QED BY <1>8, AnswerStaysSealed DEF CommitSeal

LEMMA OtherWritesStaySealed ==
  ASSUME Inv, Sealed, UNCHANGED held, NEW p \in Procs,
         CommitRelate(p) \/ CommitAppend(p) \/ Fail(p)
  PROVE  Sealed'
<1>1. record \in [Ids -> RecordRow] BY DEF Inv, RepoOK, TablesOK, TablesTypeOK
<1>2. SealedTable'
  <2>1. CASE CommitRelate(p)
    BY <2>1, SameTableStaysSealed DEF CommitRelate, RelateSnapshot, Sealed
  <2>2. CASE Fail(p) BY <2>2, SameTableStaysSealed DEF Fail, tableVars, Sealed
  <2>3. CASE CommitAppend(p)
    <3>1. PICK v \in call[p].rows : AppendVersion(v) BY <2>3 DEF CommitAppend
    <3>2. \A i \in Ids : /\ record'[i].state = record[i].state
                         /\ record'[i].hash = record[i].hash
      BY <1>1, <3>1 DEF AppendVersion, RecordRow
    <3>3. QED BY <3>1, <3>2, GrowthStaysSealed DEF AppendVersion, Sealed
  <2>4. QED BY <2>1, <2>2, <2>3
<1>3. \E ret : Answer(p, ret) BY DEF CommitRelate, CommitAppend, Fail
<1>4. QED BY <1>2, <1>3, AnswerStaysSealed

LEMMA HoldStaysSealed ==
  ASSUME Inv, Sealed, Hold
  PROVE  Sealed'
<1>0. held \in [Ids -> Record] BY DEF Inv, HeldOK, CoreTypeOK
<1>1. SealedHeld'
  <2>0. ASSUME NEW h \in Ids, \A g \in Ids \ {h} : held'[g] = held[g],
               held'[h].state = "mutable"
        PROVE  SealedHeld'
    BY <2>0 DEF SealedHeld, Sealed
  <2> USE DEF SealedHeld, Sealed
  <2>1. ASSUME NEW h \in Ids, NEW b \in Bodies, New(h, b) \/ Update(h, b) PROVE SealedHeld'
    <3>1. CASE New(h, b) BY <1>0, <2>0, <3>1 DEF New
    <3>2. CASE Update(h, b)
      <4>1. /\ held[h] \in Record /\ held[h].state = "mutable"
            /\ \A g \in Ids \ {h} : held'[g] = held[g]
        BY <1>0, <3>2 DEF Update
      <4>2. held'[h].state = "mutable" BY <1>0, <3>2, <4>1 DEF Update, Record
      <4>3. QED BY <2>0, <4>1, <4>2
    <3>3. QED BY <2>1, <3>1, <3>2
  <2>2. ASSUME NEW h \in Ids, NEW g \in Ids, Snapshot(h, g) PROVE SealedHeld'
    BY <1>0, <2>2 DEF Snapshot, Record
  <2>3. ASSUME NEW h \in Ids, NEW x \in Bytes, Fix(h, x) PROVE SealedHeld'
    <3> DEFINE n == Len(held[h].chain)
    <3>1. held[h] \in Record /\ held[h].chain \in Seq(Version) /\ held[h].chain # <<>>
      BY <1>0, <2>3 DEF Inv, HeldOK, DigestExactlyWhenFixed, Record, Fix
    <3>2. n \in DOMAIN held[h].chain /\ held[h].chain[n] \in Version BY <3>1
    <3>3. /\ Fossilize(held[h], x).chain = [held[h].chain EXCEPT ![n].body = Fossil(@, x)]
          /\ Fossilize(held[h], x).hash = x
      BY <3>1 DEF Fossilize, Record
    <3>4. Fossilize(held[h], x).chain[n].body = Fossil(held[h].chain[n].body, x)
      BY <3>2, <3>3 DEF Version
    <3>5. /\ n \in DOMAIN Fossilize(held[h], x).chain
          /\ IsFossil(Fossilize(held[h], x).chain[n].body, x)
      BY <3>2, <3>3, <3>4, FossilIsFossil
    <3>6. \A g \in Ids : held'[g] = IF g = h THEN Fossilize(held[h], x) ELSE held[g]
      BY <1>0, <2>3 DEF Fix
    <3>7. QED BY <3>3, <3>5, <3>6
  <2>4. QED BY <2>1, <2>2, <2>3 DEF Hold
<1>2. UNCHANGED <<call, record, version>> BY DEF Hold, repoVars
<1>3. QED BY <1>1, <1>2 DEF Sealed, SealedTable

LEMMA SealedAlways ==
  ASSUME "delete" \notin Ops
  PROVE  Spec => []Sealed
<1>1. Init => Sealed
  <2> SUFFICES ASSUME Init PROVE Sealed OBVIOUS
  <2>1. /\ \A p \in Procs : call[p] = Idle
        /\ \A i \in Ids : record[i].state = "absent" /\ held[i].state = "none"
    BY DEF Init, RepoInit, TablesInit, NoRow, CoreInit, Nothing
  <2>2. Idle.pc = "idle" BY DEF Idle
  <2>3. QED BY <2>1, <2>2 DEF Sealed, SealedHeld, SealedTable, SealedRows
<1>2. Inv /\ OneBody /\ OwnRows /\ Kept /\ Sealed /\ [Next]_vars => Sealed'
  <2> SUFFICES ASSUME Inv, OneBody, Kept, Sealed, [Next]_vars PROVE Sealed' OBVIOUS
  <2>1. ASSUME NEW p \in Procs, Query(p) PROVE Sealed'
    <3>1. ~ CommitDelete(p) BY DEF Kept, CallsKnow, Knows, AwaitsOwn, CommitDelete, At
    <3>2. QED
      BY <2>1, <3>1, ReadsStaySealed, CommitCreateStaysSealed, CommitSealStaysSealed,
         OtherWritesStaySealed DEF Query
  <2>2. ASSUME NEW p \in Procs, Fail(p) PROVE Sealed' BY <2>2, OtherWritesStaySealed DEF Fail
  <2>3. CASE UNCHANGED vars
    BY <2>3 DEF vars, repoVars, Sealed, SealedHeld, SealedTable
  <2>4. QED BY <2>1, <2>2, <2>3, BeginStaysSealed, HoldStaysSealed DEF Next
<1>3. QED BY <1>1, <1>2, InvIsInvariant, VersionsShowOneBody, KeptAlways, PTL DEF Spec

(* Where nobody deletes, a Fixed record has, among its versions, a body    *)
(* that is the fossil of its hash, however many PUTs and other fixes       *)
(* commit between the reading of the chain and the transaction: state and  *)
(* body are sealed together.                                               *)
THEOREM SealedBodiesAreFossils ==
  ASSUME "delete" \notin Ops
  PROVE  Spec => []SealedBodyIsFossil
<1>1. Sealed => SealedBodyIsFossil
  BY DEF Sealed, SealedTable, HasFossil, IsFossil, SealedBodyIsFossil, VersionsOf
<1>2. QED BY <1>1, SealedAlways, PTL
=============================================================================
