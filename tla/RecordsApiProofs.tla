------------------------- MODULE RecordsApiProofs -------------------------
(***************************************************************************)
(* Proofs about RecordsApi: what the service promises its clients, however *)
(* its handlers race, fail and are dropped.                                *)
(*                                                                         *)
(* A step of the service is, for the repository, a step of one of its      *)
(* calls, the beginning of one, a record that is created and handed to     *)
(* save, or a call that is dropped (ServiceStep); each of them keeps what  *)
(* is proved of the repository (RepoInv).  Nothing is ever deleted, so the *)
(* tables only grow (TableGrows), and what a handler has learned of them   *)
(* stays true until it acts on it (Learned).  With HashesAreOfChains these *)
(* make up ApiInv, and there is one lemma for each step of a handler.      *)
(*                                                                         *)
(* The second half is about the object store.  BodiesIn(G) says that every *)
(* body in the tables or in a call is in G, and BodiesStayIn, that this is *)
(* kept for any G that sealing respects.  With what a fix knows            *)
(* between its first look at a payload and its copy (NamesInv), keys name  *)
(* their payloads; with G the bodies whose payload is stored, fossils have *)
(* theirs.                                                                 *)
(***************************************************************************)
EXTENDS RecordsApi, CallsProofs

RepoInv == Inv /\ OneBody /\ OwnRows /\ Kept

(* Record::new and the beginning of save, in one step of POST.             *)
Posts(p, i, b, creator) == New(i, b) /\ StartSave(p, held'[i], creator)

(* The future of a handler is dropped, and that of its call with it.       *)
Drops(p) == Become(p, Idle) /\ UNCHANGED <<held, nextVid, tableVars, clock, snapIds>>

(* What the service does with the call of p.                               *)
ServiceStep(p) ==
  \/ Query(p) \/ Fail(p) \/ Drops(p)
  \/ \E i \in Ids : StartFind(p, i) /\ UNCHANGED <<held, nextVid>>
  \/ \E i \in Ids, x \in Bytes : StartTransition(p, i, x) /\ UNCHANGED <<held, nextVid>>
  \/ \E i \in Ids, b \in Bodies : StartAddVersion(p, i, b) /\ UNCHANGED held
  \/ \E i \in Ids, b \in Bodies, c \in Creators : Posts(p, i, b, c)

-----------------------------------------------------------------------------
(* POST.                                                                   *)

(* What a POST leaves in its future: the one version of the new record.    *)
PostLeft(c, i, b) ==
  /\ c.op = "save" /\ c.pc = "exists" /\ c.ret = "none" /\ c.id = i
  /\ c.chain = <<>> /\ c.row.state = "mutable"
  /\ c.rows # {}
  /\ \A w \in c.rows : w.vid = nextVid /\ w.body = b /\ w.rid = i /\ w.at = clock'

LEMMA PostLeaves ==
  ASSUME Inv, NEW p \in Procs, NEW i \in Ids, NEW b \in Bodies, NEW creator,
         Posts(p, i, b, creator)
  PROVE  /\ nextVid' = nextVid + 1 /\ UNCHANGED <<tableVars, snapIds>> /\ Stamp(clock')
         /\ held' = [held EXCEPT ![i] = [state |-> "mutable", id |-> i, hash |-> NoHash,
                                         chain |-> <<Mint(b)>>]]
         /\ WellFormed(held'[i]) /\ held'[i].state = "mutable"
         /\ \E c : PostLeft(c, i, b) /\ Become(p, c)
<1> DEFINE rec == [state |-> "mutable", id |-> i, hash |-> NoHash, chain |-> <<Mint(b)>>]
<1>1. /\ nextVid' = nextVid + 1 /\ UNCHANGED <<tableVars, snapIds>> /\ nextVid < MaxVid
      /\ held' = [held EXCEPT ![i] = rec]
  BY DEF Posts, New, StartSave
<1>2. held'[i] = rec BY <1>1 DEF Inv, HeldOK, CoreTypeOK
<1>3. Mint(b) \in Version
  BY <1>1, MintIsVersion, BodiesAssumption DEF Inv, HeldOK, CoreTypeOK
<1>4. /\ rec.state = "mutable" /\ rec.id = i /\ rec.hash = NoHash /\ rec.chain = <<Mint(b)>>
      /\ rec.chain \in Seq(Version) /\ rec.chain # <<>>
  BY <1>3
<1>5. WellFormed(rec) BY <1>4 DEF WellFormed, Record, States, Hashes
<1>6. \A now : \A w \in RowsOf(rec, i, now) :
        w.vid = nextVid /\ w.body = b /\ w.rid = i /\ w.at = now
  <2> SUFFICES ASSUME NEW now, NEW j \in DOMAIN rec.chain
               PROVE  rec.chain[j].vid = nextVid /\ rec.chain[j].body = b
    BY DEF RowsOf
  <2>1. DOMAIN rec.chain = {1} BY <1>4
  <2>2. rec.chain[j] = Mint(b) BY <1>4, <2>1
  <2>3. QED BY <2>2 DEF Mint
<1>7. \A now \in Nat : RowsOf(rec, i, now) # {} BY <1>4, RowsOfChain
<1>8. \A now : RowOf(rec, now).state = "mutable" BY <1>4 DEF RowOf
<1> HIDE DEF rec
<1>9. PICK now \in 0 .. MaxClock :
        /\ Stamp(now)
        /\ Start(p, "save", [Idle EXCEPT !.pc = "exists", !.id = i, !.creator = creator,
                !.row = RowOf(rec, now), !.rows = RowsOf(rec, i, now)])
  BY <1>2, <1>4 DEF Posts, StartSave
<1> DEFINE row == RowOf(rec, now)
           rows == RowsOf(rec, i, now)
           c == [[Idle EXCEPT !.pc = "exists", !.id = i, !.creator = creator,
                              !.row = row, !.rows = rows] EXCEPT !.op = "save"]
<1>10. now \in Nat /\ clock' = now BY <1>9, ClockAssumption DEF Stamp
<1>11. /\ row.state = "mutable" /\ rows # {}
       /\ \A w \in rows : w.vid = nextVid /\ w.body = b /\ w.rid = i /\ w.at = clock'
  BY <1>6, <1>7, <1>8, <1>10
<1> HIDE DEF row, rows
<1>12. /\ c.op = "save" /\ c.pc = "exists" /\ c.ret = "none" /\ c.id = i
       /\ c.chain = <<>> /\ c.row = row /\ c.rows = rows
  BY IdleIsCall, IdleHasNothingToSay, IdleShowsNothing DEF Call
<1> HIDE DEF c
<1>13. Become(p, c) BY <1>9 DEF Start, c, row, rows
<1>14. PostLeft(c, i, b) BY <1>11, <1>12 DEF PostLeft
<1>15. Stamp(clock') BY <1>9, <1>10
<1>16. QED BY <1>1, <1>2, <1>4, <1>5, <1>13, <1>14, <1>15 DEF rec

LEMMA PostKeepsInv ==
  ASSUME Inv, NEW p \in Procs, NEW i \in Ids, NEW b \in Bodies, NEW creator \in Creators,
         Posts(p, i, b, creator)
  PROVE  Inv'
<1>1. HeldOK' BY NewKeepsHeldOK DEF Posts, Inv
<1>2. WellFormed(held'[i]) /\ held'[i].state = "mutable" BY PostLeaves
<1>3. RepoOK' BY <1>2, StartSaveStep DEF Posts, Inv
<1>4. QED BY <1>1, <1>3 DEF Inv

LEMMA PostMoves ==
  ASSUME Inv, NEW p \in Procs, NEW i \in Ids, NEW b \in Bodies, NEW creator,
         Posts(p, i, b, creator)
  PROVE  Moves(p, [m \in Nat |-> [body |-> b, rid |-> i]])
<1> DEFINE for == [m \in Nat |-> [body |-> b, rid |-> i]]
           rec == [state |-> "mutable", id |-> i, hash |-> NoHash, chain |-> <<Mint(b)>>]
<1>1. nextVid \in Nat BY VidAssumption DEF Inv, HeldOK, CoreTypeOK
<1>2. /\ nextVid' = nextVid + 1 /\ UNCHANGED version
      /\ held' = [held EXCEPT ![i] = rec]
  BY PostLeaves DEF tableVars
<1>3. PICK c : PostLeft(c, i, b) /\ Become(p, c) BY PostLeaves
<1>4. call'[p] = c /\ \A q \in Procs \ {p} : call'[q] = call[q]
  BY <1>3 DEF Become, Inv, RepoOK, CallsOK
<1>5. ASSUME NEW x, x.vid = nextVid, x.body = b, x.rid = i PROVE Fresh(for, x)
  BY <1>1, <1>2, <1>5 DEF Fresh, Minted
<1> HIDE DEF for
<1>6. /\ rec.id = i /\ DOMAIN rec.chain = {1}
      /\ rec.chain[1].vid = nextVid /\ rec.chain[1].body = b
  BY DEF Mint
<1>7. /\ held'[i] = rec /\ \A g \in Ids \ {i} : held'[g] = held[g]
  BY <1>2 DEF Inv, HeldOK, CoreTypeOK
<1> HIDE DEF rec
<1>8. ASSUME NEW x \in HeldShown' PROVE Inherited(HeldShown, x) \/ Fresh(for, x)
  <2>1. PICK g \in Ids : /\ held'[g].id = x.rid
                         /\ \E j \in DOMAIN held'[g].chain :
                              held'[g].chain[j].vid = x.vid /\ held'[g].chain[j].body = x.body
    BY <1>8 DEF HeldShown
  <2>2. CASE g = i BY <1>5, <1>6, <1>7, <2>1, <2>2
  <2>3. CASE g # i
    <3>1. x \in HeldShown BY <1>7, <1>8, <2>1, <2>3 DEF HeldShown
    <3>2. QED BY <3>1, InheritedFromItself
  <2>4. QED BY <2>2, <2>3
<1>9. ASSUME NEW x \in CallShown(call'[p]) PROVE Fresh(for, x)
  BY <1>3, <1>4, <1>5, <1>9 DEF CallShown, PostLeft, Of
<1>10. ~ Minting(call'[p]) BY <1>3, <1>4 DEF Minting, PostLeft
<1>11. \A x \in TableShown' : Inherited(Sources(p), x) BY <1>2, SameTableInherits
<1>12. QED
  BY <1>1, <1>2, <1>4, <1>8, <1>9, <1>10, <1>11 DEF Moves, for

LEMMA PostKnows ==
  ASSUME Inv, Kept, NEW p \in Procs, NEW i \in Ids, NEW b \in Bodies, NEW creator,
         Posts(p, i, b, creator)
  PROVE  Kept'
<1>1. /\ UNCHANGED tableVars /\ held'[i].state = "mutable"
      /\ \A g \in Ids \ {i} : held'[g] = held[g]
  BY PostLeaves DEF Inv, HeldOK, CoreTypeOK
<1>2. CallsKnow' BY <1>1, StartSaveKnows DEF Posts
<1>3. FixedHeldAreWhole' BY <1>1 DEF Kept, FixedHeldAreWhole
<1>4. QED BY <1>1, <1>2, <1>3, SameTablesStayWhole DEF Kept, tableVars

-----------------------------------------------------------------------------
(* A dropped call.                                                         *)

LEMMA DropKeepsRepo ==
  ASSUME RepoInv, NEW p \in Procs, Drops(p)
  PROVE  RepoInv'
<1>1. Inv /\ Kept /\ UNCHANGED <<held, nextVid, record, version, createdBy, clock, snapIds>>
  BY DEF RepoInv, Drops, tableVars
<1>2. Inv'
  <2>1. HeldOK' BY <1>1, MintingKeepsHeld DEF Inv, HeldOK, CoreTypeOK
  <2>2. CallOK(Idle) BY IdleIsCall DEF CallOK
  <2>3. Idle.op = "none" BY DEF Idle
  <2>4. CallsOK' BY <1>1, <2>2, StoreCall DEF Inv, RepoOK, Drops
  <2>5. TablesOK' BY <1>1, UnchangedTables DEF Inv, RepoOK, Drops
  <2>6. QED BY <1>1, <2>1, <2>4, <2>5 DEF Inv, RepoOK
<1>3. OneBody' /\ OwnRows'
  <2>1. ~ Minting(Idle) BY IdleShowsNothing DEF Minting
  <2>2. \A x \in CallShown(Idle) : Inherited(Sources(p), x)
    BY IdleShowsNothing, NothingNewToShow
  <2>3. Moved(p) BY <1>1, <2>1, <2>2, QuietMove, SameTableInherits DEF Drops
  <2>4. nextVid \in Nat BY <1>1, VidAssumption DEF Inv, HeldOK, CoreTypeOK
  <2>5. QED BY <1>1, <2>3, <2>4, MovesKeepOneBody, MovesKeepOwnRows DEF RepoInv
<1>4. Kept'
  <2>1. Idle.op = "none" /\ Idle.pc = "idle" /\ Idle.ret = "none" BY DEF Idle
  <2>2. Knows(Idle, record', version', createdBy')
    BY <2>1 DEF Knows, AwaitsOwn, KnowsRecord, KnowsRows, SaidSo, KnowsEdges
  <2>3. CallsKnow'
    BY <1>1, <2>2, SameTablesGrow, CallStepKeepsKnowledge DEF Inv, RepoOK, Kept, Drops
  <2>4. FixedHeldAreWhole' BY <1>1 DEF Kept, FixedHeldAreWhole
  <2>5. QED BY <1>1, <2>3, <2>4, SameTablesStayWhole DEF Kept
<1>5. QED BY <1>2, <1>3, <1>4 DEF RepoInv

-----------------------------------------------------------------------------
(* What is proved of the repository holds in the service.                  *)

LEMMA StartsBegin ==
  ASSUME NEW p \in Procs,
         \/ \E i \in Ids : StartFind(p, i) /\ UNCHANGED <<held, nextVid>>
         \/ \E i \in Ids, x \in Bytes : StartTransition(p, i, x) /\ UNCHANGED <<held, nextVid>>
         \/ \E i \in Ids, b \in Bodies : StartAddVersion(p, i, b) /\ UNCHANGED held
  PROVE  Begin(p) /\ UNCHANGED <<held, tableVars, snapIds>>
<1>1. UNCHANGED <<held, tableVars, snapIds>> BY DEF StartFind, StartTransition, StartAddVersion
<1>2. QED BY <1>1 DEF Begin

LEMMA ServiceStepKeepsRepo ==
  ASSUME RepoInv, NEW p \in Procs, ServiceStep(p)
  PROVE  RepoInv'
<1>1. Inv /\ OneBody /\ OwnRows /\ Kept BY DEF RepoInv
<1>2. nextVid \in Nat BY <1>1, VidAssumption DEF Inv, HeldOK, CoreTypeOK
<1>3. ASSUME Inv', Moved(p), Kept' PROVE RepoInv'
  BY <1>1, <1>2, <1>3, MovesKeepOneBody, MovesKeepOwnRows DEF RepoInv
<1>4. ASSUME Query(p) PROVE RepoInv'
  BY <1>1, <1>3, <1>4, QueryStep, QueryMoves, QueryKeeps
<1>5. ASSUME Fail(p) PROVE RepoInv'
  <2>1. Inv' BY <1>1, <1>5, InvStep DEF Next
  <2>2. Moved(p) BY <1>1, <1>5, FailMoves
  <2>3. UNCHANGED <<held, record, version>> BY <1>5 DEF Fail, tableVars
  <2>4. FixedHeldAreWhole' BY <1>1, <2>3 DEF Kept, FixedHeldAreWhole
  <2>5. Kept' BY <1>1, <1>5, <2>3, <2>4, FailKnows, SameTablesStayWhole DEF Kept
  <2>6. QED BY <1>3, <2>1, <2>2, <2>5
<1>6. ASSUME \/ \E i \in Ids : StartFind(p, i) /\ UNCHANGED <<held, nextVid>>
             \/ \E i \in Ids, x \in Bytes :
                  StartTransition(p, i, x) /\ UNCHANGED <<held, nextVid>>
             \/ \E i \in Ids, b \in Bodies : StartAddVersion(p, i, b) /\ UNCHANGED held
      PROVE  RepoInv'
  <2>1. Begin(p) /\ UNCHANGED <<held, tableVars, snapIds>> BY <1>6, StartsBegin
  <2>2. Inv' /\ Moved(p) BY <1>1, <2>1, BeginStep, BeginMoves
  <2>3. CallsKnow'
    BY <1>1, <1>6, StartFindKnows, StartTransitionKnows, StartAddVersionKnows
  <2>4. FixedHeldAreWhole' BY <1>1, <2>1 DEF Kept, FixedHeldAreWhole
  <2>5. Kept' BY <1>1, <2>1, <2>3, <2>4, SameTablesStayWhole DEF Kept, tableVars
  <2>6. QED BY <1>3, <2>2, <2>5
<1>7. ASSUME NEW i \in Ids, NEW b \in Bodies, NEW c \in Creators, Posts(p, i, b, c)
      PROVE  RepoInv'
  <2>1. Inv' /\ Kept' BY <1>1, <1>7, PostKeepsInv, PostKnows
  <2>2. Moves(p, [m \in Nat |-> [body |-> b, rid |-> i]]) BY <1>1, <1>7, PostMoves
  <2>3. QED BY <1>3, <2>1, <2>2 DEF Moved
<1>8. QED BY <1>4, <1>5, <1>6, <1>7, DropKeepsRepo DEF ServiceStep

LEMMA NoStepKeepsRepo ==
  ASSUME RepoInv, UNCHANGED vars
  PROVE  RepoInv'
<1>1. Inv' BY InvStep DEF RepoInv
<1>2. OneBody' /\ OwnRows' BY OneBodyStep DEF RepoInv
<1>3. Kept'
  BY DEF vars, repoVars, RepoInv, Kept, CallsKnow, FixedRowsAreWhole, FixedHeldAreWhole
<1>4. QED BY <1>1, <1>2, <1>3 DEF RepoInv

LEMMA RepoInvInitially == Init => RepoInv
BY InvInitially, OneBodyInitially, KeptInitially DEF RepoInv

-----------------------------------------------------------------------------
(* What the handlers know.                                                 *)

(* A body after a step is the body before it, its key migrated or not.     *)
Migrated(new, old) == new = old \/ (old.form # "inline" /\ new.form = "fixed")

(* The record has a version with the body b, migrated since or not.        *)
ShowsBody(V, i, b) == \E v \in V : v.rid = i /\ Migrated(v.body, b)

(* The record has a version that was hashed, and whose digest h is, unless *)
(* it is a key, which sealing may turn into the key of h.                  *)
Vouched(V, i, h) == \E v \in V : v.rid = i /\ (v.body.form = "inline" => v.body.of = h)

(* A request, at each of its points.                                       *)
RequestOK(r) ==
  /\ r \in Request
  /\ r.pc # "idle" => r.status = 0
  /\ r.pc = "find" => r.route \in {"put", "fix"}
  /\ r.pc = "project" => r.route \in {"get", "put", "fix"}
  /\ r.pc \in {"verify", "copy", "store", "seal"} => r.route = "fix"
  /\ r.pc = "upload" => r.route = "asset"
  /\ r.pc # "idle" /\ r.route = "fix" => r.hash \in Bytes
  /\ r.route = "put" => r.body \in Bodies \cup {Malformed}
  /\ r.pc = "append" => r.route = "put" /\ r.body \in Bodies
  /\ r.pc \in {"verify", "copy"} => r.body \in Keys
  /\ r.pc \in {"store", "upload"} => r.bytes \in Bytes

(* A call, at each of its awaits ...                                       *)
CallServes(c) ==
  /\ c.op \in {"none", "find", "save", "add_version", "transition_to_fixed"}
  /\ c.pc \notin {"edges", "relate", "cascade"}
  /\ c.pc \in {"row", "versions", "creator"} => c.op \in {"find", "transition_to_fixed"}
  /\ c.pc \in {"exists", "create"} => c.op = "save" /\ c.row.state = "mutable"
  /\ c.pc = "append" => c.op = "add_version"
  /\ c.pc = "seal" => c.op = "transition_to_fixed"
  /\ c.ret = "found" => c.op = "find"

(* ... and at each point of its request.                                   *)
Serves(r, c) ==
  /\ r.pc \in {"idle", "verify", "copy", "store", "upload"} => c.pc = "idle"
  /\ r.pc \in {"find", "project"} => c.op = "find" /\ c.id = r.id
  /\ r.pc = "save" => c.op = "save"
  /\ r.pc = "append" => c.op = "add_version" /\ c.id = r.id
  /\ r.pc = "seal" => c.op = "transition_to_fixed" /\ c.id = r.id

(* What a find has found.                                                  *)
FoundRows(c, V) ==
  c.ret = "found" =>
    c.chain # <<>> /\ \A j \in DOMAIN c.chain : HasRow(c.id, c.chain[j], V)

(* What a fix has checked, and is to write.                                *)
Checked(r, c, V) ==
  /\ r.pc \in {"verify", "copy", "store"} => Vouched(V, r.id, r.hash)
  /\ c.op = "transition_to_fixed" /\ c.pc # "idle" =>
       c.hash \in Bytes /\ Vouched(V, c.id, c.hash)
  /\ c.pc = "seal" =>
       /\ c.row.hash = c.hash
       /\ \A w \in c.rows : w.body = Fossil(w.body, c.hash)

(* What a PUT has written, and is to show.                                 *)
PutShows(r, c, V) ==
  r.route = "put" =>
    /\ r.pc = "append" /\ c.pc = "append" => \A w \in c.rows : w.rid = r.id /\ w.body = r.body
    /\ r.pc = "project" \/ (r.pc = "append" /\ c.ret = "ok") => ShowsBody(V, r.id, r.body)
    /\ r.status = 200 \/ (r.pc = "project" /\ (c.pc = "creator" \/ c.ret = "found")) =>
         \E j \in DOMAIN c.chain : Migrated(c.chain[j].body, r.body)

(* What a fix has sealed, and is to show.                                  *)
FixShows(r, c, R) ==
  r.route = "fix" =>
    /\ r.pc = "project" => R[r.id].state = "fixed"
    /\ r.status = 200 \/ (r.pc = "project" /\ (c.pc \in {"versions", "creator"} \/ c.ret = "found"))
         => c.row.state = "fixed"

Learned(r, c, V, R) ==
  /\ RequestOK(r) /\ CallServes(c) /\ Serves(r, c)
  /\ FoundRows(c, V) /\ Checked(r, c, V) /\ PutShows(r, c, V) /\ FixShows(r, c, R)

(* A Fixed record whose bodies are of one kind has its hash among them.    *)
Sealing(body, hash) == body.form \in {"inline", "fixed"} /\ body.of = hash

HashesAreOfChains ==
  \A i \in Ids : record[i].state = "fixed" /\ OfOneKind(VersionsOf(i)) =>
    \E v \in version : v.rid = i /\ Sealing(v.body, record[i].hash)

ApiInv ==
  /\ RepoInv
  /\ BlobTypeOK /\ storage \in BOOLEAN /\ req \in [Procs -> Request]
  /\ \A p \in Procs : Learned(req[p], call[p], version, record)
  /\ HashesAreOfChains

(* What a step may do to the tables.                                       *)
TableGrows ==
  /\ \A i \in Ids : record[i].state = "fixed" => record'[i].state = "fixed"
  /\ \A v \in version : \E w \in version' :
       w.vid = v.vid /\ w.rid = v.rid /\ Migrated(w.body, v.body)

LEMMA LearnedStays ==
  ASSUME TableGrows, NEW r, NEW c, Learned(r, c, version, record)
  PROVE  Learned(r, c, version', record')
<1>1. \A i, w : HasRow(i, w, version) => HasRow(i, w, version') BY DEF TableGrows, HasRow
<1>2. \A i, h : Vouched(version, i, h) => Vouched(version', i, h)
  BY DEF TableGrows, Vouched, Migrated
<1>3. \A i, b : ShowsBody(version, i, b) => ShowsBody(version', i, b)
  BY DEF TableGrows, ShowsBody, Migrated
<1>4. \A i \in Ids : record[i].state = "fixed" => record'[i].state = "fixed" BY DEF TableGrows
<1>5. r.id \in Ids BY DEF Learned, RequestOK, Request
<1>6. FoundRows(c, version') BY <1>1 DEF Learned, FoundRows
<1>7. Checked(r, c, version') BY <1>2 DEF Learned, Checked
<1>8. PutShows(r, c, version') BY <1>3 DEF Learned, PutShows
<1>9. FixShows(r, c, record') BY <1>4, <1>5 DEF Learned, FixShows
<1>10. QED BY <1>6, <1>7, <1>8, <1>9 DEF Learned

-----------------------------------------------------------------------------
(* A query.                                                                *)

(* What it leaves in the future of the call "old".                         *)
QueryLeft(old, c) ==
  /\ c.op = old.op /\ c.id = old.id
  /\ \/ c.pc = "idle" /\ c.ret # "found" /\ c.rows = {} /\ c.chain = <<>>
     \/ /\ old.pc = "row" /\ c.pc = "versions" /\ c.row = record[old.id]
        /\ c.ret = "none" /\ c.hash = old.hash /\ c.rows = old.rows /\ c.chain = old.chain
     \/ /\ old.pc = "versions" /\ c.pc = "creator" /\ c.chain \in OrderedReads(old.id)
        /\ c.ret = "none" /\ c.hash = old.hash /\ c.row = old.row /\ c.rows = old.rows
     \/ /\ old.pc = "creator" /\ c.pc = "idle" /\ c.op = "find" /\ c.ret = "found"
        /\ c.row = old.row /\ c.rows = old.rows /\ c.chain = old.chain
     \/ /\ old.pc = "creator" /\ c.pc = "seal" /\ c.op = "transition_to_fixed"
        /\ c.ret = "none" /\ c.hash = old.hash /\ c.row.hash = old.hash /\ c.chain = old.chain
        /\ \E j \in DOMAIN old.chain :
             /\ j = Len(old.chain)
             /\ \A w \in c.rows : /\ w.vid = old.chain[j].vid
                                 /\ w.body = Fossil(old.chain[j].body, old.hash)
     \/ /\ old.pc = "exists" /\ c.pc = "create" /\ c.op = "save"
        /\ c.ret = "none" /\ c.row = old.row /\ c.rows = old.rows /\ c.chain = old.chain

LEMMA AnswerLeaves ==
  ASSUME CallsOK, NEW p \in Procs, NEW ret \in Rets \ {"found"}, Answer(p, ret)
  PROVE  \E c : QueryLeft(call[p], c) /\ Become(p, c)
<1> DEFINE c == [Idle EXCEPT !.op = call[p].op, !.id = call[p].id, !.ret = ret]
<1>1. /\ c.op = call[p].op /\ c.id = call[p].id /\ c.ret = ret /\ c.pc = "idle"
      /\ c.rows = {} /\ c.chain = <<>>
  BY IdleIsCall, IdleShowsNothing DEF Call
<1> HIDE DEF c
<1>2. QueryLeft(call[p], c) BY <1>1 DEF QueryLeft
<1>3. QED BY <1>2 DEF Answer, c

LEMMA ReadRowLeaves ==
  ASSUME RepoInv, NEW p \in Procs, CallServes(call[p]), ReadRow(p)
  PROVE  \E c : QueryLeft(call[p], c) /\ Become(p, c)
<1>1. CallsOK /\ call[p] \in Call /\ call[p].pc = "row" /\ call[p].ret = "none"
  BY DEF RepoInv, Inv, RepoOK, CallsOK, ReadRow, At, Kept, CallsKnow, Knows, AwaitsOwn
<1>2. CASE Become(p, [call[p] EXCEPT !.pc = "versions", !.row = record[call[p].id]])
  <2> DEFINE c == [call[p] EXCEPT !.pc = "versions", !.row = record[call[p].id]]
  <2>1. /\ c.op = call[p].op /\ c.id = call[p].id /\ c.pc = "versions"
        /\ c.row = record[call[p].id] /\ c.ret = "none" /\ c.hash = call[p].hash
        /\ c.rows = call[p].rows /\ c.chain = call[p].chain
    BY <1>1 DEF Call
  <2> HIDE DEF c
  <2>2. QueryLeft(call[p], c) BY <1>1, <2>1 DEF QueryLeft
  <2>3. QED BY <1>2, <2>2 DEF c
<1>3. CASE Answer(p, "missing") \/ Answer(p, "empty")
  BY <1>1, <1>3, AnswerLeaves DEF Rets
<1>4. call[p].op # "list_by_creator" BY DEF CallServes
<1>5. QED BY <1>2, <1>3, <1>4 DEF ReadRow

LEMMA ReadVersionsLeaves ==
  ASSUME RepoInv, NEW p \in Procs, ReadVersions(p)
  PROVE  \E c : QueryLeft(call[p], c) /\ Become(p, c)
<1>1. call[p] \in Call /\ call[p].pc = "versions" /\ call[p].ret = "none"
  BY DEF RepoInv, Inv, RepoOK, CallsOK, ReadVersions, At, Kept, CallsKnow, Knows, AwaitsOwn
<1>2. PICK s \in OrderedReads(call[p].id) :
        Become(p, [call[p] EXCEPT !.pc = "creator", !.chain = s])
  BY DEF ReadVersions
<1> DEFINE c == [call[p] EXCEPT !.pc = "creator", !.chain = s]
<1>3. /\ c.op = call[p].op /\ c.id = call[p].id /\ c.pc = "creator" /\ c.chain = s
      /\ c.ret = "none" /\ c.hash = call[p].hash /\ c.row = call[p].row
      /\ c.rows = call[p].rows
  BY <1>1 DEF Call
<1> HIDE DEF c
<1>4. QueryLeft(call[p], c) BY <1>1, <1>2, <1>3 DEF QueryLeft
<1>5. QED BY <1>2, <1>4 DEF c

LEMMA PrepareSealLeaves ==
  ASSUME RepoInv, NEW p \in Procs, At(p, "creator"), call[p].op = "transition_to_fixed",
         PrepareSeal(p)
  PROVE  \E c : QueryLeft(call[p], c) /\ Become(p, c)
<1> DEFINE n == Len(call[p].chain)
           last == call[p].chain[n]
           w == [last EXCEPT !.body = Fossil(@, call[p].hash)]
<1>1. CallsOK /\ call[p] \in Call /\ call[p].pc = "creator" /\ call[p].ret = "none"
  BY DEF RepoInv, Inv, RepoOK, CallsOK, At, Kept, CallsKnow, Knows, AwaitsOwn
<1>2. call[p].chain # <<>> /\ call[p].chain \in Seq(VersionRow)
  BY <1>1 DEF RepoInv, Kept, CallsKnow, Knows, KnowsRecord, Call
<1>3. n \in DOMAIN call[p].chain /\ last \in VersionRow BY <1>2
<1>4. w.vid = call[p].chain[n].vid /\ w.body = Fossil(call[p].chain[n].body, call[p].hash)
  BY <1>3 DEF VersionRow
<1>n. n = Len(call[p].chain) OBVIOUS
<1> HIDE DEF n, last, w
<1>5. CASE Answer(p, "fixed") BY <1>1, <1>5, AnswerLeaves DEF Rets
<1>6. ASSUME NEW now,
             Become(p, [call[p] EXCEPT !.pc = "seal",
                          !.row = [state |-> "fixed", hash |-> call[p].hash, updated |-> now],
                          !.rows = {w}])
      PROVE  \E c : QueryLeft(call[p], c) /\ Become(p, c)
  <2> DEFINE c == [call[p] EXCEPT !.pc = "seal",
                     !.row = [state |-> "fixed", hash |-> call[p].hash, updated |-> now],
                     !.rows = {w}]
  <2>1. /\ c.op = call[p].op /\ c.id = call[p].id /\ c.pc = "seal" /\ c.rows = {w}
        /\ c.ret = "none" /\ c.hash = call[p].hash /\ c.row.hash = call[p].hash
        /\ c.chain = call[p].chain
    BY <1>1 DEF Call
  <2> HIDE DEF c
  <2>2. \A x \in c.rows : /\ x.vid = call[p].chain[n].vid
                          /\ x.body = Fossil(call[p].chain[n].body, call[p].hash)
    BY <1>4, <2>1
  <2>3. QueryLeft(call[p], c) BY <1>1, <1>3, <1>n, <2>1, <2>2 DEF QueryLeft
  <2>4. QED BY <1>6, <2>3 DEF c
<1>7. QED BY <1>5, <1>6 DEF PrepareSeal, n, last, w

LEMMA ReadCreatorLeaves ==
  ASSUME RepoInv, NEW p \in Procs, CallServes(call[p]), ReadCreator(p)
  PROVE  \E c : QueryLeft(call[p], c) /\ Become(p, c)
<1>1. call[p] \in Call /\ call[p].pc = "creator" /\ At(p, "creator")
  BY DEF RepoInv, Inv, RepoOK, CallsOK, ReadCreator, At
<1>2. EdgesTo(call[p].id) # {} /\ Assembled(call[p].row, call[p].chain) = "found"
  BY <1>1, ReadIsFound DEF RepoInv
<1>3. call[p].op # "list_by_creator" BY DEF CallServes
<1>4. CASE call[p].op = "find" /\ Become(p, [call[p] EXCEPT !.pc = "idle", !.ret = "found"])
  <2> DEFINE c == [call[p] EXCEPT !.pc = "idle", !.ret = "found"]
  <2>1. /\ c.op = call[p].op /\ c.id = call[p].id /\ c.pc = "idle" /\ c.ret = "found"
        /\ c.row = call[p].row /\ c.rows = call[p].rows /\ c.chain = call[p].chain
    BY <1>1 DEF Call
  <2> HIDE DEF c
  <2>2. QueryLeft(call[p], c) BY <1>1, <1>4, <2>1 DEF QueryLeft
  <2>3. QED BY <1>4, <2>2 DEF c
<1>5. CASE call[p].op = "transition_to_fixed" /\ PrepareSeal(p)
  BY <1>1, <1>5, PrepareSealLeaves
<1>6. QED BY <1>2, <1>3, <1>4, <1>5 DEF ReadCreator

LEMMA CheckExistsLeaves ==
  ASSUME RepoInv, NEW p \in Procs, CallServes(call[p]), CheckExists(p)
  PROVE  \E c : QueryLeft(call[p], c) /\ Become(p, c)
<1>1. CallsOK /\ call[p] \in Call /\ call[p].pc = "exists" /\ call[p].ret = "none"
  BY DEF RepoInv, Inv, RepoOK, CallsOK, CheckExists, At, Kept, CallsKnow, Knows, AwaitsOwn
<1>2. call[p].op = "save" BY <1>1 DEF CallServes
<1>3. CASE Answer(p, "exists") BY <1>1, <1>3, AnswerLeaves DEF Rets
<1>4. CASE Become(p, [call[p] EXCEPT !.pc = "create"])
  <2> DEFINE c == [call[p] EXCEPT !.pc = "create"]
  <2>1. /\ c.op = call[p].op /\ c.id = call[p].id /\ c.pc = "create" /\ c.ret = "none"
        /\ c.row = call[p].row /\ c.rows = call[p].rows /\ c.chain = call[p].chain
    BY <1>1 DEF Call
  <2> HIDE DEF c
  <2>2. QueryLeft(call[p], c) BY <1>1, <1>2, <2>1 DEF QueryLeft
  <2>3. QED BY <1>4, <2>2 DEF c
<1>5. QED BY <1>2, <1>3, <1>4 DEF CheckExists

LEMMA CommitsLeave ==
  ASSUME RepoInv, NEW p \in Procs, CallServes(call[p]),
         CommitCreate(p) \/ CommitAppend(p) \/ CommitSeal(p)
  PROVE  \E c : QueryLeft(call[p], c) /\ Become(p, c)
<1>1. CallsOK BY DEF RepoInv, Inv, RepoOK
<1>2. \E ret \in {"ok", "conflict", "error"} : Answer(p, ret)
  <2>1. CASE CommitCreate(p)
    <3>1. call[p].op = "save" BY <2>1 DEF CallServes, CommitCreate, At
    <3>2. QED BY <2>1, <3>1 DEF CommitCreate
  <2>2. CASE CommitAppend(p) BY <2>2 DEF CommitAppend
  <2>3. CASE CommitSeal(p) BY <2>3 DEF CommitSeal
  <2>4. QED BY <2>1, <2>2, <2>3
<1>3. QED BY <1>1, <1>2, AnswerLeaves DEF Rets

(* Which queries the service makes.                                        *)
LEMMA ServiceQueries ==
  ASSUME NEW p \in Procs, CallServes(call[p]), Query(p)
  PROVE  \/ ReadRow(p) \/ ReadVersions(p) \/ ReadCreator(p) \/ CheckExists(p)
         \/ CommitCreate(p) \/ CommitAppend(p) \/ CommitSeal(p)
BY DEF Query, CallServes, ReadEdges, CommitRelate, CommitDelete, At

LEMMA QueryLeaves ==
  ASSUME RepoInv, NEW p \in Procs, CallServes(call[p]), Query(p)
  PROVE  \E c : QueryLeft(call[p], c) /\ Become(p, c)
BY ServiceQueries, ReadRowLeaves, ReadVersionsLeaves, ReadCreatorLeaves, CheckExistsLeaves,
   CommitsLeave

(* What a query writes.                                                    *)
LEMMA QueryWrites ==
  ASSUME NEW p \in Procs, CallServes(call[p]), Query(p)
  PROVE  \/ UNCHANGED tableVars /\ call[p].pc \notin {"append", "seal"}
         \/ /\ call[p].pc = "create" /\ CanCreate(call[p].id, call[p].rows)
            /\ Create(call[p].id, call[p].row, call[p].rows, call[p].creator)
         \/ call[p].pc = "append" /\ \E v \in call[p].rows : AppendVersion(v)
         \/ /\ call[p].pc = "seal"
            /\ \E v \in call[p].rows :
                 SealRecord(call[p].id, call[p].row.hash, call[p].row.updated, v.vid, v.body)
BY ServiceQueries
   DEF ReadRow, ReadVersions, ReadCreator, CheckExists, CommitCreate, CommitAppend, CommitSeal, At

(* What a transition is about to rewrite is a version of its record, and   *)
(* rewriting it migrates it.                                               *)
LEMMA SealMigrates ==
  ASSUME RepoInv, NEW p \in Procs, call[p].pc = "seal", NEW w \in call[p].rows,
         NEW v \in version, v.vid = w.vid
  PROVE  Migrated(w.body, v.body) /\ v.rid = call[p].id
<1>1. Inv /\ OneBody /\ KnowsRows(call[p], version)
  BY DEF RepoInv, Kept, CallsKnow, Knows
<1>2. Whole(w.body) /\ HasRow(call[p].id, w, version) BY <1>1 DEF KnowsRows
<1>3. PICK x \in Sources(p) : Of(w, x) BY <1>1, RowsAreShown
<1>4. PICK y \in TableShown : Of(v, y) BY <1>1, TableRowsAreShown
<1>5. x \in Shown /\ y \in Shown BY ShownInParts
<1>6. SameVersion(w.body, v.body)
  BY <1>1, <1>3, <1>4, <1>5 DEF OneBody, Of
<1>7. Migrated(w.body, v.body) BY <1>2, <1>6 DEF Migrated, SameVersion, Whole
<1>8. PICK u \in version : u.vid = w.vid /\ u.rid = call[p].id BY <1>2 DEF HasRow
<1>9. PICK z \in TableShown : Of(u, z) BY <1>1, TableRowsAreShown
<1>10. z \in Shown BY ShownInParts
<1>11. v.rid = u.rid BY <1>1, <1>4, <1>5, <1>8, <1>9, <1>10 DEF OneBody, Of
<1>12. QED BY <1>7, <1>8, <1>11

LEMMA SealedTables ==
  ASSUME RepoInv, NEW p \in Procs, call[p].pc = "seal", NEW w \in call[p].rows,
         SealRecord(call[p].id, call[p].row.hash, call[p].row.updated, w.vid, w.body)
  PROVE  /\ record'[call[p].id].state = "fixed" /\ record'[call[p].id].hash = call[p].row.hash
         /\ \A i \in Ids \ {call[p].id} : record'[i] = record[i]
         /\ version' = {IF v.vid = w.vid THEN [v EXCEPT !.body = w.body] ELSE v : v \in version}
         /\ \A v \in version : [v EXCEPT !.body = w.body].body = w.body
         /\ \A v \in version : [v EXCEPT !.body = w.body].vid = v.vid
         /\ \A v \in version : [v EXCEPT !.body = w.body].rid = v.rid
<1>1. record \in [Ids -> RecordRow] /\ version \subseteq VersionRow /\ call[p].id \in Ids
  BY DEF RepoInv, Inv, RepoOK, TablesOK, TablesTypeOK, CallsOK, Call
<1>2. record[call[p].id].state # "absent"
  BY DEF RepoInv, Kept, CallsKnow, Knows, KnowsRecord
<1>3. \A v \in version : v \in [vid : Vids, rid : Ids, body : Body, at : Nat]
  BY <1>1 DEF VersionRow
<1>4. QED BY <1>1, <1>2, <1>3 DEF SealRecord, Exists

LEMMA QueryGrows ==
  ASSUME RepoInv, NEW p \in Procs, CallServes(call[p]), Query(p)
  PROVE  TableGrows
<1>1. record \in [Ids -> RecordRow] /\ version \subseteq VersionRow /\ call[p].id \in Ids
      /\ call[p].rows \subseteq VersionRow
  BY DEF RepoInv, Inv, RepoOK, TablesOK, TablesTypeOK, CallsOK, Call
<1>2. CASE UNCHANGED tableVars BY <1>2 DEF TableGrows, Migrated, tableVars
<1>3. CASE /\ CanCreate(call[p].id, call[p].rows)
           /\ Create(call[p].id, call[p].row, call[p].rows, call[p].creator)
  <2>1. \A i \in Ids : record[i].state = "fixed" => record'[i] = record[i]
    BY <1>1, <1>3 DEF CanCreate, Create, Exists
  <2>2. version \subseteq version' BY <1>3 DEF Create
  <2>3. QED BY <2>1, <2>2 DEF TableGrows, Migrated
<1>4. ASSUME NEW v \in call[p].rows, AppendVersion(v) PROVE TableGrows
  <2>1. v.rid \in Ids BY <1>1 DEF VersionRow
  <2>2. \A i \in Ids : record'[i].state = record[i].state
    BY <1>1, <1>4, <2>1 DEF AppendVersion, RecordRow
  <2>3. version \subseteq version' BY <1>4 DEF AppendVersion
  <2>4. QED BY <2>2, <2>3 DEF TableGrows, Migrated
<1>5. ASSUME call[p].pc = "seal", NEW w \in call[p].rows,
             SealRecord(call[p].id, call[p].row.hash, call[p].row.updated, w.vid, w.body)
      PROVE  TableGrows
  <2>1. \A i \in Ids : record[i].state = "fixed" => record'[i].state = "fixed"
    BY <1>5, SealedTables
  <2>2. ASSUME NEW v \in version
        PROVE  \E u \in version' : u.vid = v.vid /\ u.rid = v.rid /\ Migrated(u.body, v.body)
    <3> DEFINE u == IF v.vid = w.vid THEN [v EXCEPT !.body = w.body] ELSE v
    <3>1. u \in version' /\ u.vid = v.vid /\ u.rid = v.rid BY <1>5, SealedTables
    <3>2. v.vid = w.vid => u.body = w.body BY <1>5, SealedTables
    <3>3. v.vid = w.vid => Migrated(w.body, v.body) BY <1>5, SealMigrates
    <3>4. Migrated(u.body, v.body) BY <3>2, <3>3 DEF Migrated
    <3> HIDE DEF u
    <3>5. QED BY <3>1, <3>4
  <2>3. QED BY <2>1, <2>2 DEF TableGrows
<1>6. QED BY <1>2, <1>3, <1>4, <1>5, QueryWrites

-----------------------------------------------------------------------------
(* The hashes of Fixed records.                                            *)

LEMMA FewerAreOfOneKind ==
  ASSUME NEW S, NEW T, S \subseteq T, OfOneKind(T)
  PROVE  OfOneKind(S)
BY DEF OfOneKind

LEMMA SealHashes ==
  ASSUME RepoInv, HashesAreOfChains, NEW p \in Procs, call[p].pc = "seal",
         CallServes(call[p]), TableGrows,
         NEW r, Checked(r, call[p], version), NEW w \in call[p].rows,
         SealRecord(call[p].id, call[p].row.hash, call[p].row.updated, w.vid, w.body)
  PROVE  HashesAreOfChains'
<1> DEFINE i == call[p].id
           h == call[p].hash
<1>1. /\ h \in Bytes /\ Vouched(version, i, h) /\ call[p].row.hash = h
      /\ w.body = Fossil(w.body, h)
  BY DEF Checked, CallServes
<1>2. \A v \in version : v.body.form \in Forms BY DEF RepoInv, Inv, RepoOK, TablesOK, TablesTypeOK, VersionRow, Body
<1> SUFFICES ASSUME NEW j \in Ids, record'[j].state = "fixed", OfOneKind(VersionsOf(j)')
             PROVE  \E v \in version' : v.rid = j /\ Sealing(v.body, record'[j].hash)
  BY DEF HashesAreOfChains
<1>3. CASE j # i
  <2>1. \A v \in version : v.rid = j => v \in version' BY <1>3, SealMigrates, SealedTables
  <2>2. VersionsOf(j) \subseteq VersionsOf(j)' BY <2>1 DEF VersionsOf
  <2>3. OfOneKind(VersionsOf(j)) BY <2>2, FewerAreOfOneKind
  <2>4. record'[j] = record[j] BY <1>3, SealedTables
  <2>5. QED BY <2>1, <2>3, <2>4 DEF HashesAreOfChains
<1>4. CASE j = i
  <2>1. record'[i].hash = h BY <1>1, SealedTables
  <2>2. PICK v \in version : v.vid = w.vid /\ v.rid = i
    BY DEF RepoInv, Kept, CallsKnow, Knows, KnowsRows, HasRow
  <2> DEFINE u == [v EXCEPT !.body = w.body]
  <2>3. u \in version' /\ u.rid = i /\ u.body = w.body BY <2>2, SealedTables
  <2> HIDE DEF u
  <2>4. CASE w.body.form # "inline"
    <3>1. Sealing(w.body, h) BY <1>1, <2>4 DEF Fossil, Sealing
    <3>2. QED BY <1>4, <2>1, <2>3, <3>1
  <2>5. CASE w.body.form = "inline"
    <3>1. PICK x \in version : x.rid = i /\ (x.body.form = "inline" => x.body.of = h)
      BY <1>1 DEF Vouched
    <3>2. PICK y \in version' : y.rid = i /\ Migrated(y.body, x.body)
      BY <3>1 DEF TableGrows
    <3>3. y.body.form = "inline" BY <1>4, <2>3, <2>5, <3>2 DEF OfOneKind, VersionsOf
    <3>4. y.body = x.body BY <3>2, <3>3 DEF Migrated
    <3>5. Sealing(y.body, h) BY <3>1, <3>3, <3>4 DEF Sealing
    <3>6. QED BY <1>4, <2>1, <3>2, <3>5
  <2>6. QED BY <2>4, <2>5
<1>5. QED BY <1>3, <1>4

LEMMA QueryHashes ==
  ASSUME RepoInv, HashesAreOfChains, NEW p \in Procs, CallServes(call[p]), Query(p),
         TableGrows, NEW r, Checked(r, call[p], version)
  PROVE  HashesAreOfChains'
<1>1. record \in [Ids -> RecordRow] /\ call[p].id \in Ids /\ call[p].rows \subseteq VersionRow
  BY DEF RepoInv, Inv, RepoOK, TablesOK, TablesTypeOK, CallsOK, Call
<1>2. CASE UNCHANGED tableVars
  <2>1. record' = record /\ version' = version BY <1>2 DEF tableVars
  <2>2. QED BY <2>1 DEF HashesAreOfChains, VersionsOf
<1>3. ASSUME version \subseteq version',
             \A i \in Ids : record'[i].state = "fixed" =>
               record[i].state = "fixed" /\ record'[i].hash = record[i].hash
      PROVE  HashesAreOfChains'
  <2> SUFFICES ASSUME NEW i \in Ids, record'[i].state = "fixed", OfOneKind(VersionsOf(i)')
               PROVE  \E v \in version' : v.rid = i /\ Sealing(v.body, record'[i].hash)
    BY DEF HashesAreOfChains
  <2>1. VersionsOf(i) \subseteq VersionsOf(i)' BY <1>3 DEF VersionsOf
  <2>2. OfOneKind(VersionsOf(i)) BY <2>1, FewerAreOfOneKind
  <2>3. QED BY <1>3, <2>2 DEF HashesAreOfChains
<1>4. CASE /\ call[p].pc = "create" /\ CanCreate(call[p].id, call[p].rows)
           /\ Create(call[p].id, call[p].row, call[p].rows, call[p].creator)
  <2>1. call[p].row.state = "mutable" BY <1>4 DEF CallServes
  <2>2. \A i \in Ids : record'[i].state = "fixed" => record'[i] = record[i]
    BY <1>1, <1>4, <2>1 DEF Create
  <2>3. QED BY <1>3, <1>4, <2>2 DEF Create
<1>5. ASSUME NEW v \in call[p].rows, AppendVersion(v) PROVE HashesAreOfChains'
  <2>1. v.rid \in Ids BY <1>1 DEF VersionRow
  <2>2. \A i \in Ids : record'[i].state = record[i].state /\ record'[i].hash = record[i].hash
    BY <1>1, <1>5, <2>1 DEF AppendVersion, RecordRow
  <2>3. QED BY <1>3, <1>5, <2>2 DEF AppendVersion
<1>6. ASSUME call[p].pc = "seal", NEW w \in call[p].rows,
             SealRecord(call[p].id, call[p].row.hash, call[p].row.updated, w.vid, w.body)
      PROVE  HashesAreOfChains'
  BY <1>6, SealHashes
<1>7. QED BY <1>2, <1>4, <1>5, <1>6, QueryWrites

-----------------------------------------------------------------------------
(* What a query teaches.                                                   *)

LEMMA FossilAgain ==
  ASSUME NEW b, NEW h, NEW x, x = Fossil(b, h)
  PROVE  x = Fossil(x, h)
BY DEF Fossil

(* An append is in the table, whatever it answers.                         *)
LEMMA AppendShows ==
  ASSUME NEW p \in Procs, CallServes(call[p]), Query(p), call[p].pc = "append",
         NEW r, PutShows(r, call[p], version), r.route = "put", r.pc = "append"
  PROVE  ShowsBody(version', r.id, r.body)
<1>1. PICK v \in call[p].rows : AppendVersion(v) BY QueryWrites
<1>2. v \in version' BY <1>1 DEF AppendVersion
<1>3. v.rid = r.id /\ v.body = r.body BY DEF PutShows
<1>4. QED BY <1>2, <1>3 DEF ShowsBody, Migrated

(* The versions of a record that a read returns show what is in the table. *)
LEMMA ReadShows ==
  ASSUME RepoInv, NEW i \in Ids, NEW s \in OrderedReads(i), NEW b, ShowsBody(version, i, b)
  PROVE  \E j \in DOMAIN s : Migrated(s[j].body, b)
<1>1. PICK v \in version : v.rid = i /\ Migrated(v.body, b) BY DEF ShowsBody
<1>2. v \in VersionsOf(i) BY <1>1 DEF VersionsOf
<1>3. PICK j \in DOMAIN s : s[j] = v
  BY <1>2, OrderedReadIsComplete DEF RepoInv, Inv, RepoOK
<1>4. QED BY <1>1, <1>3

LEMMA QueryLearns ==
  ASSUME RepoInv, NEW p \in Procs, NEW r, Learned(r, call[p], version, record), TableGrows,
         Query(p), NEW c, QueryLeft(call[p], c)
  PROVE  Learned(r, c, version', record')
<1> DEFINE old == call[p]
<1>1. CallServes(old) /\ RequestOK(r) /\ Serves(r, old) BY DEF Learned
<1>2. /\ old.pc # "idle" /\ old.pc \in Awaits \cup {"idle"}
      /\ old.ret = "none" /\ old.id \in Ids
  BY DEF RepoInv, Inv, RepoOK, CallsOK, Call, Kept, CallsKnow, Knows, AwaitsOwn, Query, At,
         ReadEdges, ReadRow, ReadVersions, ReadCreator, CheckExists, CommitCreate,
         CommitRelate, CommitAppend, CommitSeal, CommitDelete
<1>3. /\ FoundRows(old, version') /\ Checked(r, old, version')
      /\ PutShows(r, old, version') /\ FixShows(r, old, record')
  BY LearnedStays DEF Learned
<1>4. r.pc \in {"find", "project", "save", "append", "seal"} /\ r.status = 0 /\ r.id \in Ids
  BY <1>1, <1>2 DEF RequestOK, Request, Serves, Points
<1>5. KnowsRecord(old, record, version) BY DEF RepoInv, Kept, CallsKnow, Knows
<1>6. CallServes(c)
  BY <1>1, <1>2 DEF CallServes, QueryLeft
<1>7. Serves(r, c) BY <1>1, <1>4 DEF Serves, QueryLeft
<1>8. FoundRows(c, version')
  <2>1. CASE c.ret # "found" BY <2>1 DEF FoundRows
  <2>2. CASE c.ret = "found"
    <3>1. old.pc = "creator" /\ c.chain = old.chain /\ c.id = old.id BY <2>2 DEF QueryLeft
    <3>2. old.chain # <<>> /\ \A j \in DOMAIN old.chain : HasRow(old.id, old.chain[j], version)
      BY <1>5, <3>1 DEF KnowsRecord
    <3>3. \A w : HasRow(old.id, w, version) => HasRow(old.id, w, version')
      BY DEF TableGrows, HasRow
    <3>4. QED BY <3>1, <3>2, <3>3 DEF FoundRows
  <2>3. QED BY <2>1, <2>2
<1>9. Checked(r, c, version')
  <2>1. r.pc \notin {"verify", "copy", "store"} BY <1>4
  <2>2. c.op = "transition_to_fixed" /\ c.pc # "idle" =>
          c.hash \in Bytes /\ Vouched(version', c.id, c.hash)
    BY <1>2, <1>3 DEF QueryLeft, Checked
  <2>3. ASSUME c.pc = "seal"
        PROVE  c.row.hash = c.hash /\ \A w \in c.rows : w.body = Fossil(w.body, c.hash)
    BY <2>3, FossilAgain DEF QueryLeft
  <2>4. QED BY <2>1, <2>2, <2>3 DEF Checked
<1>10. PutShows(r, c, version')
  <2> SUFFICES ASSUME r.route = "put"
               PROVE  /\ c.pc # "append"
                      /\ r.pc = "project" \/ (r.pc = "append" /\ c.ret = "ok") =>
                           ShowsBody(version', r.id, r.body)
                      /\ r.pc = "project" /\ (c.pc = "creator" \/ c.ret = "found") =>
                           \E j \in DOMAIN c.chain : Migrated(c.chain[j].body, r.body)
    BY <1>4 DEF PutShows
  <2>1. c.pc # "append" BY DEF QueryLeft
  <2>2. r.pc = "project" => ShowsBody(version', r.id, r.body) BY <1>3 DEF PutShows
  <2>3. r.pc = "append" => old.pc = "append" BY <1>1, <1>2 DEF Serves, CallServes, Awaits
  <2>4. r.pc = "append" => ShowsBody(version', r.id, r.body)
    BY <1>1, <2>3, AppendShows DEF Learned
  <2>5. ASSUME r.pc = "project", c.pc = "creator"
        PROVE  \E j \in DOMAIN c.chain : Migrated(c.chain[j].body, r.body)
    <3>1. c.chain \in OrderedReads(r.id) BY <1>1, <2>5 DEF QueryLeft, Serves
    <3>2. ShowsBody(version, r.id, r.body) BY <2>5 DEF Learned, PutShows
    <3>3. QED BY <1>4, <3>1, <3>2, ReadShows
  <2>6. ASSUME r.pc = "project", c.ret = "found"
        PROVE  \E j \in DOMAIN c.chain : Migrated(c.chain[j].body, r.body)
    <3>1. old.pc = "creator" /\ c.chain = old.chain BY <2>6 DEF QueryLeft
    <3>2. QED BY <1>3, <2>6, <3>1 DEF PutShows
  <2>7. QED BY <2>1, <2>2, <2>4, <2>5, <2>6
<1>11. FixShows(r, c, record')
  <2> SUFFICES ASSUME r.route = "fix", r.pc = "project"
               PROVE  /\ record'[r.id].state = "fixed"
                      /\ c.pc \in {"versions", "creator"} \/ c.ret = "found" =>
                           c.row.state = "fixed"
    BY <1>4 DEF FixShows
  <2>1. record'[r.id].state = "fixed" BY <1>3 DEF FixShows
  <2>2. record[r.id].state = "fixed" BY DEF Learned, FixShows
  <2>3. c.pc = "versions" => c.row.state = "fixed"
    BY <1>1, <2>2 DEF QueryLeft, Serves
  <2>4. c.pc = "creator" \/ c.ret = "found" => c.row.state = "fixed"
    BY <1>3 DEF QueryLeft, FixShows
  <2>5. QED BY <2>1, <2>3, <2>4
<1>12. QED BY <1>1, <1>6, <1>7, <1>8, <1>9, <1>10, <1>11 DEF Learned

-----------------------------------------------------------------------------
(* What the other steps of a handler teach it.                             *)

LEMMA FailLearns ==
  ASSUME NEW p \in Procs, NEW r, NEW V, NEW R, Learned(r, call[p], V, R), call[p].pc # "idle",
         NEW c, c.op = call[p].op, c.id = call[p].id, c.pc = "idle", c.ret = "error"
  PROVE  Learned(r, c, V, R)
<1>1. RequestOK(r) /\ CallServes(call[p]) /\ Serves(r, call[p]) BY DEF Learned
<1>2. r.pc \in {"find", "project", "save", "append", "seal"} /\ r.status = 0
  BY <1>1 DEF RequestOK, Request, Serves, Points
<1>3. CallServes(c) /\ FoundRows(c, V) BY <1>1 DEF CallServes, FoundRows
<1>4. Serves(r, c) BY <1>1, <1>2 DEF Serves
<1>5. Checked(r, c, V) BY <1>2 DEF Checked
<1>6. PutShows(r, c, V) BY <1>2 DEF Learned, PutShows
<1>7. FixShows(r, c, R) BY <1>2 DEF Learned, FixShows
<1>8. QED BY <1>1, <1>3, <1>4, <1>5, <1>6, <1>7 DEF Learned

(* A handler has answered.                                                 *)
LEMMA AnswerLearns ==
  ASSUME NEW old, NEW c, NEW V, NEW R, Learned(old, c, V, R), c.pc = "idle",
         NEW r \in Request, r.pc = "idle", r.route = "put" => r.body \in Bodies \cup {Malformed},
         r.status = 200 => \/ r.route = "asset"
                           \/ /\ old.pc = "project" /\ c.ret = "found"
                              /\ r.route = old.route /\ r.body = old.body
  PROVE  Learned(r, c, V, R)
<1>1. RequestOK(r) BY DEF RequestOK
<1>2. Serves(r, c) BY DEF Serves
<1>3. CallServes(c) /\ FoundRows(c, V) BY DEF Learned
<1>4. Checked(r, c, V) BY DEF Checked
<1>5. PutShows(r, c, V) BY DEF Learned, PutShows
<1>6. FixShows(r, c, R) BY DEF Learned, FixShows
<1>7. QED BY <1>1, <1>2, <1>3, <1>4, <1>5, <1>6 DEF Learned

(* A handler has begun to find its record.                                 *)
LEMMA FindLearns ==
  ASSUME NEW r, RequestOK(r), r.pc \in {"find", "project"}, NEW c, NEW V, NEW R,
         c.op = "find", c.pc = "row", c.id = r.id, c.ret = "none",
         r.route = "put" /\ r.pc = "project" => ShowsBody(V, r.id, r.body),
         r.route = "fix" /\ r.pc = "project" => R[r.id].state = "fixed"
  PROVE  Learned(r, c, V, R)
<1>1. r.status = 0 BY DEF RequestOK
<1>2. CallServes(c) /\ Serves(r, c) /\ FoundRows(c, V) /\ Checked(r, c, V)
  BY DEF CallServes, Serves, FoundRows, Checked
<1>3. PutShows(r, c, V) /\ FixShows(r, c, R) BY <1>1 DEF PutShows, FixShows
<1>4. QED BY <1>2, <1>3 DEF Learned

(* POST has begun to save.                                                 *)
LEMMA SaveLearns ==
  ASSUME NEW r, RequestOK(r), r.pc = "save", r.route = "post", NEW c, NEW V, NEW R,
         c.op = "save", c.pc = "exists", c.ret = "none", c.row.state = "mutable"
  PROVE  Learned(r, c, V, R)
<1>1. CallServes(c) /\ Serves(r, c) /\ FoundRows(c, V) /\ Checked(r, c, V)
  BY DEF CallServes, Serves, FoundRows, Checked
<1>2. PutShows(r, c, V) /\ FixShows(r, c, R) BY DEF PutShows, FixShows
<1>3. QED BY <1>1, <1>2 DEF Learned

(* PUT has begun to append.                                                *)
LEMMA AppendLearns ==
  ASSUME NEW r, RequestOK(r), r.pc = "append", NEW c, NEW V, NEW R,
         c.op = "add_version", c.pc = "append", c.id = r.id, c.ret = "none",
         \A w \in c.rows : w.rid = r.id /\ w.body = r.body
  PROVE  Learned(r, c, V, R)
<1>1. r.status = 0 /\ r.route = "put" BY DEF RequestOK
<1>2. CallServes(c) /\ Serves(r, c) /\ FoundRows(c, V) /\ Checked(r, c, V)
  BY DEF CallServes, Serves, FoundRows, Checked
<1>3. PutShows(r, c, V) /\ FixShows(r, c, R) BY <1>1 DEF PutShows, FixShows
<1>4. QED BY <1>2, <1>3 DEF Learned

(* fix has begun its transition.                                           *)
LEMMA SealLearns ==
  ASSUME NEW r, RequestOK(r), r.pc = "seal", NEW c, NEW V, NEW R,
         c.op = "transition_to_fixed", c.pc = "row", c.id = r.id, c.ret = "none",
         c.hash = r.hash, Vouched(V, r.id, r.hash)
  PROVE  Learned(r, c, V, R)
<1>1. r.status = 0 /\ r.route = "fix" /\ r.hash \in Bytes BY DEF RequestOK
<1>2. CallServes(c) /\ Serves(r, c) /\ FoundRows(c, V) BY DEF CallServes, Serves, FoundRows
<1>3. Checked(r, c, V) BY <1>1 DEF Checked
<1>4. PutShows(r, c, V) /\ FixShows(r, c, R) BY <1>1 DEF PutShows, FixShows
<1>5. QED BY <1>2, <1>3, <1>4 DEF Learned

(* A handler goes to the store, while its call is over.                    *)
LEMMA StoreLearns ==
  ASSUME NEW old, NEW c, NEW V, NEW R, Learned(old, c, V, R), c.pc = "idle",
         NEW r, RequestOK(r), r.pc \in {"verify", "copy", "store", "upload"},
         r.pc # "upload" => Vouched(V, r.id, r.hash)
  PROVE  Learned(r, c, V, R)
<1>1. r.status = 0 /\ r.route \in {"fix", "asset"} BY DEF RequestOK
<1>2. CallServes(c) /\ FoundRows(c, V) /\ Serves(r, c) BY DEF Learned, Serves
<1>3. Checked(r, c, V) BY DEF Checked
<1>4. PutShows(r, c, V) /\ FixShows(r, c, R) BY <1>1 DEF PutShows, FixShows
<1>5. QED BY <1>2, <1>3, <1>4 DEF Learned

(* What a find has found vouches for the digest that is checked.           *)
LEMMA FoundVouches ==
  ASSUME RepoInv, NEW p \in Procs, FoundRows(call[p], version), call[p].ret = "found", NEW h,
         Last(call[p].chain).body.form = "inline" => Last(call[p].chain).body.of = h
  PROVE  /\ Last(call[p].chain).body \in Body
         /\ Vouched(version, call[p].id, h)
<1> DEFINE n == Len(call[p].chain)
           last == call[p].chain[n]
<1>1. Inv /\ OneBody BY DEF RepoInv
<1>2. call[p].chain \in Seq(VersionRow) /\ call[p].chain # <<>>
  BY <1>1 DEF Inv, RepoOK, CallsOK, Call, FoundRows
<1>3. n \in DOMAIN call[p].chain /\ last \in VersionRow /\ Last(call[p].chain) = last
  BY <1>2 DEF Last
<1>4. HasRow(call[p].id, last, version) BY <1>3 DEF FoundRows
<1>5. PICK v \in version : v.vid = last.vid /\ v.rid = call[p].id BY <1>4 DEF HasRow
<1>6. PICK x \in Sources(p) : Of(last, x) BY <1>1, <1>3, RowsAreShown
<1>7. PICK y \in TableShown : Of(v, y) BY <1>1, TableRowsAreShown
<1>8. x \in Shown /\ y \in Shown BY ShownInParts
<1>9. SameVersion(last.body, v.body) BY <1>1, <1>5, <1>6, <1>7, <1>8 DEF OneBody, Of
<1>10. v.body.form = "inline" => v.body.of = h BY <1>3, <1>9 DEF SameVersion
<1>11. last.body \in Body BY <1>3 DEF VersionRow
<1>12. QED BY <1>3, <1>5, <1>10, <1>11 DEF Vouched

-----------------------------------------------------------------------------
(* The steps of the handlers.                                              *)

LEMMA HandlerStep ==
  ASSUME ApiInv, RepoInv', BlobTypeOK', UNCHANGED storage, HashesAreOfChains', TableGrows,
         NEW p \in Procs, NEW r, Goto(p, r), NEW c, Become(p, c),
         Learned(r, c, version', record')
  PROVE  ApiInv'
<1>1. req \in [Procs -> Request] /\ call \in [Procs -> Call] /\ storage \in BOOLEAN
  BY DEF ApiInv, RepoInv, Inv, RepoOK, CallsOK
<1>2. r \in Request BY DEF Learned, RequestOK
<1>3. req' \in [Procs -> Request] /\ storage' \in BOOLEAN BY <1>1, <1>2 DEF Goto
<1>4. ASSUME NEW q \in Procs PROVE Learned(req'[q], call'[q], version', record')
  <2>1. CASE q = p BY <1>1, <2>1 DEF Goto, Become
  <2>2. CASE q # p
    <3>1. req'[q] = req[q] /\ call'[q] = call[q] BY <1>1, <2>2 DEF Goto, Become
    <3>2. Learned(req[q], call[q], version', record') BY LearnedStays DEF ApiInv
    <3>3. QED BY <3>1, <3>2
  <2>3. QED BY <2>1, <2>2
<1>5. QED BY <1>3, <1>4 DEF ApiInv

LEMMA SameTablesSameHashes ==
  ASSUME HashesAreOfChains, UNCHANGED <<record, version>>
  PROVE  HashesAreOfChains' /\ TableGrows
BY DEF HashesAreOfChains, VersionsOf, TableGrows, Migrated

(* A handler begins a call.                                                *)
LEMMA StartStep ==
  ASSUME ApiInv, NEW p \in Procs, ServiceStep(p), UNCHANGED tableVars, BlobTypeOK',
         UNCHANGED storage, NEW r, Goto(p, r), NEW c, Become(p, c),
         Learned(r, c, version, record)
  PROVE  ApiInv'
<1>1. RepoInv' BY ServiceStepKeepsRepo DEF ApiInv
<1>2. version' = version /\ record' = record BY DEF tableVars
<1>3. HashesAreOfChains' /\ TableGrows BY <1>2, SameTablesSameHashes DEF ApiInv
<1>4. Learned(r, c, version', record') BY <1>2
<1>5. QED BY <1>1, <1>3, <1>4, HandlerStep

(* A handler goes on without its repository.                               *)
LEMMA LocalStep ==
  ASSUME ApiInv, NEW p \in Procs, UNCHANGED vars, BlobTypeOK', UNCHANGED storage,
         NEW r, Goto(p, r), Learned(r, call[p], version, record)
  PROVE  ApiInv'
<1>1. RepoInv' BY NoStepKeepsRepo DEF ApiInv
<1>2. version' = version /\ record' = record /\ call' = call BY DEF vars, repoVars
<1>3. HashesAreOfChains' /\ TableGrows BY <1>2, SameTablesSameHashes DEF ApiInv
<1>4. call \in [Procs -> Call] BY DEF ApiInv, RepoInv, Inv, RepoOK, CallsOK
<1>5. Become(p, call[p]) BY <1>2, <1>4 DEF Become
<1>6. Learned(r, call[p], version', record') BY <1>2
<1>7. QED BY <1>1, <1>3, <1>5, <1>6, HandlerStep

(* What the beginnings of the calls leave in their futures.                *)
LEMMA StartFindLeaves ==
  ASSUME NEW p \in Procs, NEW i \in Ids, StartFind(p, i)
  PROVE  \E c : /\ c.op = "find" /\ c.pc = "row" /\ c.id = i /\ c.ret = "none"
                /\ c.rows = {} /\ c.chain = <<>>
                /\ Become(p, c)
<1> DEFINE c == [[Idle EXCEPT !.pc = "row", !.id = i] EXCEPT !.op = "find"]
<1>1. /\ c.op = "find" /\ c.pc = "row" /\ c.id = i /\ c.ret = "none"
      /\ c.rows = {} /\ c.chain = <<>>
  BY IdleIsCall, IdleHasNothingToSay, IdleShowsNothing DEF Call
<1>2. Become(p, c) BY DEF StartFind, Start
<1> HIDE DEF c
<1>3. QED BY <1>1, <1>2

LEMMA StartTransitionLeaves ==
  ASSUME NEW p \in Procs, NEW i \in Ids, NEW h \in Bytes, StartTransition(p, i, h)
  PROVE  \E c : /\ c.op = "transition_to_fixed" /\ c.pc = "row" /\ c.id = i /\ c.hash = h
                /\ c.ret = "none" /\ c.rows = {} /\ c.chain = <<>> /\ Become(p, c)
<1> DEFINE c == [[Idle EXCEPT !.pc = "row", !.id = i, !.hash = h]
                 EXCEPT !.op = "transition_to_fixed"]
<1>1. /\ c.op = "transition_to_fixed" /\ c.pc = "row" /\ c.id = i /\ c.hash = h
      /\ c.ret = "none" /\ c.rows = {} /\ c.chain = <<>>
  BY IdleIsCall, IdleHasNothingToSay, IdleShowsNothing DEF Call
<1>2. Become(p, c) BY DEF StartTransition, Start
<1> HIDE DEF c
<1>3. QED BY <1>1, <1>2

LEMMA StartAddVersionLeaves ==
  ASSUME NEW p \in Procs, NEW i \in Ids, NEW b \in Bodies, StartAddVersion(p, i, b)
  PROVE  /\ nextVid' = nextVid + 1 /\ Stamp(clock')
         /\ \E c : /\ c.op = "add_version" /\ c.pc = "append" /\ c.id = i /\ c.ret = "none"
                   /\ \A w \in c.rows : /\ w.vid = nextVid /\ w.rid = i /\ w.body = b
                                        /\ w.at = clock'
                   /\ c.chain = <<>> /\ Become(p, c)
<1>1. PICK now \in 0 .. MaxClock :
        /\ Stamp(now)
        /\ Start(p, "add_version", [Idle EXCEPT !.pc = "append", !.id = i,
          !.rows = {[vid |-> nextVid, rid |-> i, body |-> b, at |-> now]}])
  BY DEF StartAddVersion
<1> DEFINE rows == {[vid |-> nextVid, rid |-> i, body |-> b, at |-> now]}
           c == [[Idle EXCEPT !.pc = "append", !.id = i, !.rows = rows]
                 EXCEPT !.op = "add_version"]
<1>2. clock' = now BY <1>1 DEF Stamp
<1>3. \A w \in rows : w.vid = nextVid /\ w.rid = i /\ w.body = b /\ w.at = clock' BY <1>2
<1> HIDE DEF rows
<1>4. /\ c.op = "add_version" /\ c.pc = "append" /\ c.id = i /\ c.ret = "none"
      /\ c.rows = rows /\ c.chain = <<>>
  BY IdleIsCall, IdleHasNothingToSay, IdleShowsNothing DEF Call
<1> HIDE DEF c
<1>5. Become(p, c) BY <1>1 DEF Start, c, rows
<1>6. nextVid' = nextVid + 1 /\ Stamp(clock') BY <1>1, <1>2 DEF StartAddVersion
<1>7. QED BY <1>3, <1>4, <1>5, <1>6

LEMMA NoRequestIsRequest == NoRequest \in Request
BY IdsAssumption DEF NoRequest, Request, Hashes, Points

(* The fields of a request, their values apart from their sets.            *)
Statuses == {0, 200, 201, 400, 404, 409, 413, 500}
Routed   == Routes \cup {"none"}
Bodied   == Body \cup {Malformed}

LEMMA RequestFields ==
  Request = [route : Routed, pc : Points, id : Ids, body : Bodied, hash : Hashes,
             bytes : Hashes, status : Statuses]
BY DEF Request, Routed, Bodied, Statuses

LEMMA FieldValues ==
  /\ \A pc \in {"idle", "find", "save", "append", "verify", "copy", "store", "seal",
                 "project", "upload"} : pc \in Points
  /\ \A route \in {"get", "post", "put", "fix", "asset"} : route \in Routed
  /\ \A status \in {200, 201, 400, 404, 409, 413, 500} : status \in Statuses
  /\ NoRequest.status = 0 /\ NoRequest.pc = "idle"
BY DEF Points, Routed, Routes, Statuses, NoRequest

(* The fields of the request of p, and of its call.                        *)
LEMMA WhatIsLearned ==
  ASSUME ApiInv, NEW p \in Procs
  PROVE  /\ req[p] \in Request /\ req[p].id \in Ids
         /\ RepoInv /\ BlobTypeOK
         /\ RequestOK(req[p]) /\ CallServes(call[p]) /\ Serves(req[p], call[p])
         /\ Learned(req[p], call[p], version, record)
<1>1. Learned(req[p], call[p], version, record) BY DEF ApiInv
<1>2. req[p] \in Request BY DEF ApiInv
<1>3. QED BY <1>1, <1>2 DEF ApiInv, Learned, Request

-----------------------------------------------------------------------------
(* A handler answers.                                                      *)

LEMMA ReplyStep ==
  ASSUME ApiInv, NEW p \in Procs, NEW status \in {200, 201, 400, 404, 409, 413, 500},
         Reply(p, status), UNCHANGED <<vars, storage>>, BlobTypeOK', call[p].pc = "idle",
         status = 200 => \/ req[p].route = "asset"
                         \/ req[p].pc = "project" /\ call[p].ret = "found"
  PROVE  ApiInv'
<1> DEFINE r == [req[p] EXCEPT !.pc = "idle", !.status = status]
<1>1. req[p] \in Request /\ RequestOK(req[p]) /\ Learned(req[p], call[p], version, record)
  BY WhatIsLearned
<1>2. /\ r \in Request /\ r.pc = "idle" /\ r.status = status
      /\ r.route = req[p].route /\ r.body = req[p].body
  <2>1. status \in Statuses /\ "idle" \in Points BY FieldValues
  <2>2. QED BY <1>1, <2>1, RequestFields
<1> HIDE DEF r
<1>3. r.route = "put" => r.body \in Bodies \cup {Malformed} BY <1>1, <1>2 DEF RequestOK
<1>4. Learned(r, call[p], version, record) BY <1>1, <1>2, <1>3, AnswerLearns
<1>5. QED BY <1>4, LocalStep DEF Reply, r

(* A request is refused before its first await.                            *)
LEMMA RejectStep ==
  ASSUME ApiInv, NEW p \in Procs, NEW status \in {400, 413, 500},
         NEW route \in {"post", "fix", "asset"},
         Accept(p, route, [NoRequest EXCEPT !.status = status]),
         UNCHANGED <<vars, storage>>, BlobTypeOK'
  PROVE  ApiInv'
<1> DEFINE r == [[NoRequest EXCEPT !.status = status] EXCEPT !.route = route]
<1>1. /\ Learned(req[p], call[p], version, record) /\ call[p].pc = "idle"
  BY WhatIsLearned DEF Accept, Serving, Serves
<1>2. r \in Request /\ r.pc = "idle" /\ r.status = status /\ r.route = route
  <2>1. status \in Statuses /\ route \in Routed /\ NoRequest.pc = "idle" BY FieldValues
  <2>2. QED BY <2>1, NoRequestIsRequest, RequestFields
<1> HIDE DEF r
<1>3. Learned(r, call[p], version, record) BY <1>1, <1>2, AnswerLearns
<1>4. QED BY <1>3, LocalStep DEF Accept, r

(* The last find of a handler begins.                                      *)
LEMMA ProjectStep ==
  ASSUME ApiInv, NEW p \in Procs, Project(p), UNCHANGED storage,
         req[p].route \in {"get", "put", "fix"},
         req[p].route = "put" => ShowsBody(version, req[p].id, req[p].body),
         req[p].route = "fix" => record[req[p].id].state = "fixed", req[p].pc # "idle"
  PROVE  ApiInv'
<1> DEFINE r == [req[p] EXCEPT !.pc = "project"]
<1>1. req[p] \in Request /\ RequestOK(req[p]) /\ req[p].id \in Ids /\ BlobTypeOK
  BY WhatIsLearned
<1>2. /\ r \in Request /\ r.pc = "project" /\ r.status = req[p].status /\ r.id = req[p].id
      /\ r.route = req[p].route /\ r.body = req[p].body /\ r.hash = req[p].hash
  BY <1>1 DEF Request, Points
<1> HIDE DEF r
<1>3. RequestOK(r) BY <1>1, <1>2 DEF RequestOK
<1>4. PICK c : /\ c.op = "find" /\ c.pc = "row" /\ c.id = req[p].id /\ c.ret = "none"
               /\ Become(p, c)
  BY <1>1, StartFindLeaves DEF Project
<1>5. Learned(r, c, version, record) BY <1>2, <1>3, <1>4, FindLearns
<1>6. ServiceStep(p) BY <1>1 DEF Project, ServiceStep
<1>7. BlobTypeOK' /\ UNCHANGED tableVars BY <1>1 DEF Project, StartFind, BlobTypeOK
<1>8. QED BY <1>4, <1>5, <1>6, <1>7, StartStep DEF Project, r

(* fix begins its transition.                                              *)
LEMMA BeginSealStep ==
  ASSUME ApiInv, NEW p \in Procs, BeginSeal(p), UNCHANGED storage, BlobTypeOK',
         req[p].route = "fix", req[p].pc # "idle",
         Vouched(version, req[p].id, req[p].hash)
  PROVE  ApiInv'
<1> DEFINE r == [req[p] EXCEPT !.pc = "seal"]
<1>1. req[p] \in Request /\ RequestOK(req[p]) /\ req[p].id \in Ids BY WhatIsLearned
<1>2. /\ r \in Request /\ r.pc = "seal" /\ r.status = req[p].status /\ r.id = req[p].id
      /\ r.route = req[p].route /\ r.hash = req[p].hash
  BY <1>1 DEF Request, Points
<1> HIDE DEF r
<1>3. RequestOK(r) /\ r.hash \in Bytes BY <1>1, <1>2 DEF RequestOK
<1>4. PICK c : /\ c.op = "transition_to_fixed" /\ c.pc = "row" /\ c.id = req[p].id
               /\ c.hash = req[p].hash /\ c.ret = "none" /\ Become(p, c)
  BY <1>1, <1>2, <1>3, StartTransitionLeaves DEF BeginSeal
<1>5. Learned(r, c, version, record) BY <1>2, <1>3, <1>4, SealLearns
<1>6. ServiceStep(p) BY <1>1, <1>2, <1>3 DEF BeginSeal, ServiceStep
<1>7. UNCHANGED tableVars BY DEF BeginSeal, StartTransition
<1>8. QED BY <1>4, <1>5, <1>6, <1>7, StartStep DEF BeginSeal, r

-----------------------------------------------------------------------------
(* Requests arrive.                                                        *)

LEMMA SameBlobIsTyped ==
  ASSUME ApiInv, UNCHANGED blob
  PROVE  BlobTypeOK'
BY DEF ApiInv, BlobTypeOK

LEMMA StoringKeepsType ==
  ASSUME ApiInv, NEW k, NEW x \in Hashes, NEW outcome, PutIfAbsent(k, x, outcome)
  PROVE  BlobTypeOK'
BY DEF ApiInv, BlobTypeOK, PutIfAbsent, Put

LEMMA AcceptGetStep ==
  ASSUME ApiInv, NEW p \in Procs, NEW i \in Ids, AcceptGet(p, i), UNCHANGED storage
  PROVE  ApiInv'
<1> DEFINE r == [[NoRequest EXCEPT !.pc = "project", !.id = i] EXCEPT !.route = "get"]
<1>1. r \in Request /\ r.pc = "project" /\ r.id = i /\ r.route = "get" /\ r.status = 0
  <2>1. "project" \in Points /\ "get" \in Routed /\ NoRequest.status = 0 BY FieldValues
  <2>2. QED BY <2>1, NoRequestIsRequest, RequestFields
<1>2. Goto(p, r) BY DEF AcceptGet, Accept
<1> HIDE DEF r
<1>3. RequestOK(r) BY <1>1 DEF RequestOK
<1>4. PICK c : c.op = "find" /\ c.pc = "row" /\ c.id = i /\ c.ret = "none" /\ Become(p, c)
  BY StartFindLeaves DEF AcceptGet
<1>5. Learned(r, c, version, record) BY <1>1, <1>3, <1>4, FindLearns
<1>6. ServiceStep(p) BY DEF AcceptGet, ServiceStep
<1>7. BlobTypeOK' /\ UNCHANGED tableVars BY SameBlobIsTyped DEF AcceptGet, StartFind
<1>8. QED BY <1>2, <1>4, <1>5, <1>6, <1>7, StartStep

LEMMA AcceptPutStep ==
  ASSUME ApiInv, NEW p \in Procs, NEW i \in Ids, NEW b \in Bodies \cup {Malformed},
         AcceptPut(p, i, b), UNCHANGED storage
  PROVE  ApiInv'
<1> DEFINE r == [[NoRequest EXCEPT !.pc = "find", !.id = i, !.body = b] EXCEPT !.route = "put"]
<1>1. /\ r \in Request /\ r.pc = "find" /\ r.id = i /\ r.route = "put" /\ r.status = 0
      /\ r.body = b
  <2>1. "find" \in Points /\ "put" \in Routed /\ NoRequest.status = 0 BY FieldValues
  <2>2. b \in Bodied BY BodiesAssumption DEF Bodied
  <2>3. QED BY <2>1, <2>2, NoRequestIsRequest, RequestFields
<1>2. Goto(p, r) BY DEF AcceptPut, Accept
<1> HIDE DEF r
<1>3. RequestOK(r) BY <1>1 DEF RequestOK
<1>4. PICK c : c.op = "find" /\ c.pc = "row" /\ c.id = i /\ c.ret = "none" /\ Become(p, c)
  BY StartFindLeaves DEF AcceptPut
<1>5. Learned(r, c, version, record) BY <1>1, <1>3, <1>4, FindLearns
<1>6. ServiceStep(p) BY DEF AcceptPut, ServiceStep
<1>7. BlobTypeOK' /\ UNCHANGED tableVars BY SameBlobIsTyped DEF AcceptPut, StartFind
<1>8. QED BY <1>2, <1>4, <1>5, <1>6, <1>7, StartStep

LEMMA AcceptFixStep ==
  ASSUME ApiInv, NEW p \in Procs, NEW i \in Ids, NEW h \in Hashes,
         AcceptFix(p, i, h), UNCHANGED storage
  PROVE  ApiInv'
<1>1. CASE h = NoHash
  <2>1. Accept(p, "fix", [NoRequest EXCEPT !.status = 400]) /\ UNCHANGED <<vars, blob>>
    BY <1>1 DEF AcceptFix
  <2>2. BlobTypeOK' BY <2>1, SameBlobIsTyped
  <2>3. QED BY <2>1, <2>2, RejectStep
<1>2. CASE h # NoHash
  <2> DEFINE r == [[NoRequest EXCEPT !.pc = "find", !.id = i, !.hash = h] EXCEPT !.route = "fix"]
  <2>1. h \in Bytes BY <1>2 DEF Hashes
  <2>2. /\ r \in Request /\ r.pc = "find" /\ r.id = i /\ r.route = "fix" /\ r.status = 0
        /\ r.hash = h
    <3>1. "find" \in Points /\ "fix" \in Routed /\ NoRequest.status = 0 BY FieldValues
    <3>2. QED BY <3>1, NoRequestIsRequest, RequestFields
  <2>3. Goto(p, r) BY <1>2 DEF AcceptFix, Accept
  <2> HIDE DEF r
  <2>4. RequestOK(r) BY <2>1, <2>2 DEF RequestOK
  <2>5. StartFind(p, i) /\ UNCHANGED <<held, nextVid, blob>> BY <1>2 DEF AcceptFix
  <2>6. PICK c : c.op = "find" /\ c.pc = "row" /\ c.id = i /\ c.ret = "none" /\ Become(p, c)
    BY <2>5, StartFindLeaves
  <2>7. Learned(r, c, version, record) BY <2>2, <2>4, <2>6, FindLearns
  <2>8. ServiceStep(p) BY <2>5 DEF ServiceStep
  <2>9. BlobTypeOK' /\ UNCHANGED tableVars BY <2>5, SameBlobIsTyped DEF StartFind
  <2>10. QED BY <2>3, <2>6, <2>7, <2>8, <2>9, StartStep
<1>3. QED BY <1>1, <1>2

LEMMA AcceptPostStep ==
  ASSUME ApiInv, NEW p \in Procs, NEW i \in Ids, NEW b \in Bodies \cup {Malformed},
         NEW creator \in Creators, AcceptPost(p, i, b, creator), UNCHANGED storage
  PROVE  ApiInv'
<1>1. CASE b = Malformed
  <2>1. Accept(p, "post", [NoRequest EXCEPT !.status = 400]) /\ UNCHANGED <<vars, blob>>
    BY <1>1 DEF AcceptPost
  <2>2. BlobTypeOK' BY <2>1, SameBlobIsTyped
  <2>3. QED BY <2>1, <2>2, RejectStep
<1>2. CASE b # Malformed
  <2> DEFINE r == [[NoRequest EXCEPT !.pc = "save", !.id = i, !.body = b] EXCEPT !.route = "post"]
  <2>1. b \in Bodies BY <1>2
  <2>2. r \in Request /\ r.pc = "save" /\ r.route = "post" /\ r.status = 0
    <3>1. "save" \in Points /\ "post" \in Routed /\ NoRequest.status = 0 BY FieldValues
    <3>2. b \in Bodied BY <2>1, BodiesAssumption DEF Bodied
    <3>3. QED BY <3>1, <3>2, NoRequestIsRequest, RequestFields
  <2>3. Goto(p, r) BY <1>2 DEF AcceptPost, Accept
  <2> HIDE DEF r
  <2>4. RequestOK(r) BY <2>2 DEF RequestOK
  <2>5. Posts(p, i, b, creator) /\ UNCHANGED blob BY <1>2 DEF AcceptPost, Posts
  <2>6. Inv BY DEF ApiInv, RepoInv
  <2>7. PICK c : PostLeft(c, i, b) /\ Become(p, c) BY <2>1, <2>5, <2>6, PostLeaves
  <2>8. Learned(r, c, version, record) BY <2>2, <2>4, <2>7, SaveLearns DEF PostLeft
  <2>9. ServiceStep(p) BY <2>1, <2>5 DEF ServiceStep
  <2>10. UNCHANGED tableVars BY <2>1, <2>5, <2>6, PostLeaves
  <2>11. BlobTypeOK' BY <2>5, SameBlobIsTyped
  <2>12. QED BY <2>3, <2>7, <2>8, <2>9, <2>10, <2>11, StartStep
<1>3. QED BY <1>1, <1>2

LEMMA AcceptAssetStep ==
  ASSUME ApiInv, NEW p \in Procs, NEW x, AcceptAsset(p, x), UNCHANGED storage
  PROVE  ApiInv'
<1>1. UNCHANGED <<vars, blob>> /\ BlobTypeOK' BY SameBlobIsTyped DEF AcceptAsset
<1>2. CASE \E status \in {400, 413, 500} :
             Accept(p, "asset", [NoRequest EXCEPT !.status = status])
  BY <1>1, <1>2, RejectStep
<1>3. CASE x \in Bytes /\ Accept(p, "asset", [NoRequest EXCEPT !.pc = "upload", !.bytes = x])
  <2> DEFINE r == [[NoRequest EXCEPT !.pc = "upload", !.bytes = x] EXCEPT !.route = "asset"]
  <2>1. /\ r \in Request /\ r.pc = "upload" /\ r.route = "asset" /\ r.status = 0 /\ r.bytes = x
    <3>1. "upload" \in Points /\ "asset" \in Routed /\ NoRequest.status = 0 BY FieldValues
    <3>2. x \in Hashes BY <1>3 DEF Hashes
    <3>3. QED BY <3>1, <3>2, NoRequestIsRequest, RequestFields
  <2>2. Goto(p, r) BY <1>3 DEF Accept
  <2> HIDE DEF r
  <2>3. RequestOK(r) BY <1>3, <2>1 DEF RequestOK
  <2>4. /\ Learned(req[p], call[p], version, record) /\ call[p].pc = "idle"
    BY <1>3, WhatIsLearned DEF Accept, Serving, Serves
  <2>5. Learned(r, call[p], version, record) BY <2>1, <2>3, <2>4, StoreLearns
  <2>6. QED BY <1>1, <2>2, <2>5, LocalStep
<1>4. QED BY <1>2, <1>3 DEF AcceptAsset

-----------------------------------------------------------------------------
(* Requests are handled.                                                   *)

LEMMA RefusedStep ==
  ASSUME ApiInv, NEW p \in Procs, Refused(p) \/ Saved(p) \/ Projected(p) \/ StorageFails(p),
         UNCHANGED storage
  PROVE  ApiInv'
<1>1. UNCHANGED vars /\ UNCHANGED blob /\ BlobTypeOK'
  BY SameBlobIsTyped DEF Refused, Saved, Projected, StorageFails
<1>2. ASSUME NEW ret \in DOMAIN ErrorStatus
      PROVE  ErrorStatus[ret] \in {404, 409, 500}
  BY DEF ErrorStatus
<1>3. CASE Refused(p)
  <2>1. PICK ret \in DOMAIN ErrorStatus : At(p, "idle") /\ Reply(p, ErrorStatus[ret])
    BY <1>3 DEF Refused, Returned
  <2>2. PICK status \in {404, 409, 500} : Reply(p, status) BY <1>2, <2>1
  <2>3. QED BY <1>1, <2>1, <2>2, ReplyStep DEF At
<1>4. CASE Saved(p)
  <2>1. Reply(p, 201) /\ call[p].pc = "idle" BY <1>4 DEF Saved, Returned, At
  <2>2. QED BY <1>1, <2>1, ReplyStep
<1>5. CASE Projected(p)
  <2>1. /\ Reply(p, 200) /\ call[p].pc = "idle" /\ req[p].pc = "project"
        /\ call[p].ret = "found"
    BY <1>5 DEF Projected, Returned, At, Serving
  <2>2. QED BY <1>1, <2>1, ReplyStep
<1>6. CASE StorageFails(p)
  <2>1. Reply(p, 500) /\ req[p].pc \in {"verify", "copy", "store", "upload"}
    BY <1>6 DEF StorageFails
  <2>2. call[p].pc = "idle" BY <2>1, WhatIsLearned DEF Serves
  <2>3. QED BY <1>1, <2>1, <2>2, ReplyStep
<1>7. QED BY <1>3, <1>4, <1>5, <1>6

LEMMA PutCheckedStep ==
  ASSUME ApiInv, NEW p \in Procs, PutChecked(p), UNCHANGED storage
  PROVE  ApiInv'
<1>1. /\ req[p].route = "put" /\ req[p].pc = "find" /\ call[p].pc = "idle"
      /\ UNCHANGED blob /\ BlobTypeOK'
  BY SameBlobIsTyped DEF PutChecked, Returned, Serving, At
<1>2. req[p] \in Request /\ RequestOK(req[p]) /\ req[p].id \in Ids BY WhatIsLearned
<1>3. CASE (Reply(p, 409) \/ Reply(p, 400)) /\ UNCHANGED vars
  BY <1>1, <1>3, ReplyStep
<1>4. CASE /\ req[p].body # Malformed /\ Goto(p, [req[p] EXCEPT !.pc = "append"])
           /\ StartAddVersion(p, req[p].id, req[p].body) /\ UNCHANGED held
  <2> DEFINE r == [req[p] EXCEPT !.pc = "append"]
  <2>1. /\ r \in Request /\ r.pc = "append" /\ r.status = req[p].status /\ r.id = req[p].id
        /\ r.route = "put" /\ r.body = req[p].body
    <3>1. "append" \in Points BY FieldValues
    <3>2. QED BY <1>1, <1>2, <3>1, RequestFields
  <2> HIDE DEF r
  <2>2. req[p].body \in Bodies BY <1>1, <1>2, <1>4 DEF RequestOK
  <2>3. RequestOK(r) BY <1>1, <1>2, <2>1, <2>2 DEF RequestOK
  <2>4. PICK c : /\ c.op = "add_version" /\ c.pc = "append" /\ c.id = req[p].id
                 /\ c.ret = "none" /\ \A w \in c.rows : w.rid = req[p].id /\ w.body = req[p].body
                 /\ Become(p, c)
    BY <1>2, <1>4, <2>2, StartAddVersionLeaves
  <2>5. Learned(r, c, version, record) BY <2>1, <2>3, <2>4, AppendLearns
  <2>6. ServiceStep(p) BY <1>2, <1>4, <2>2 DEF ServiceStep
  <2>7. UNCHANGED tableVars BY <1>4 DEF StartAddVersion
  <2>8. QED BY <1>1, <1>4, <2>4, <2>5, <2>6, <2>7, StartStep DEF r
<1>5. QED BY <1>3, <1>4 DEF PutChecked

LEMMA PutAppendedStep ==
  ASSUME ApiInv, NEW p \in Procs, PutAppended(p), UNCHANGED storage
  PROVE  ApiInv'
<1>1. req[p].pc = "append" /\ call[p].ret = "ok" /\ Project(p)
  BY DEF PutAppended, Returned, Serving
<1>2. req[p].route = "put" BY <1>1, WhatIsLearned DEF RequestOK
<1>3. ShowsBody(version, req[p].id, req[p].body)
  BY <1>1, <1>2, WhatIsLearned DEF Learned, PutShows
<1>4. QED BY <1>1, <1>2, <1>3, ProjectStep

(* transition_to_fixed has said that the record is Fixed.                  *)
LEMMA SealedStep ==
  ASSUME ApiInv, NEW p \in Procs, Sealed(p), UNCHANGED storage
  PROVE  ApiInv'
<1>1. req[p].pc = "seal" /\ call[p].ret = "ok" /\ Project(p)
  BY DEF Sealed, Returned, Serving
<1>2. req[p].route = "fix" /\ call[p].op = "transition_to_fixed" /\ call[p].id = req[p].id
  BY <1>1, WhatIsLearned DEF RequestOK, Serves
<1>3. SaidSo(call[p], record) BY DEF ApiInv, RepoInv, Kept, CallsKnow, Knows
<1>4. record[req[p].id].state = "fixed" BY <1>1, <1>2, <1>3 DEF SaidSo
<1>5. QED BY <1>1, <1>2, <1>4, ProjectStep

LEMMA FixCheckedStep ==
  ASSUME ApiInv, NEW p \in Procs, FixChecked(p), UNCHANGED storage
  PROVE  ApiInv'
<1> DEFINE body == Last(call[p].chain).body
<1>1. /\ req[p].route = "fix" /\ req[p].pc = "find" /\ call[p].pc = "idle"
      /\ call[p].ret = "found" /\ UNCHANGED blob /\ BlobTypeOK'
  BY SameBlobIsTyped DEF FixChecked, Returned, Serving, At
<1>2. /\ req[p] \in Request /\ RequestOK(req[p]) /\ call[p].id = req[p].id
      /\ Learned(req[p], call[p], version, record) /\ FoundRows(call[p], version)
  BY <1>1, WhatIsLearned DEF Serves, Learned
<1>3. ASSUME body.form = "inline" => body.of = req[p].hash
      PROVE  body \in Body /\ Vouched(version, req[p].id, req[p].hash)
  BY <1>1, <1>2, <1>3, FoundVouches DEF ApiInv
<1>4. CASE (Reply(p, 409) \/ Reply(p, 400) \/ Reply(p, 500)) /\ UNCHANGED vars
  BY <1>1, <1>4, ReplyStep
<1>5. CASE body.of = req[p].hash /\ BeginSeal(p)
  <2>1. Vouched(version, req[p].id, req[p].hash) BY <1>3, <1>5
  <2>2. QED BY <1>1, <1>5, <2>1, BeginSealStep
<1>6. CASE /\ body.form # "inline" /\ Goto(p, [req[p] EXCEPT !.pc = "verify", !.body = body])
           /\ UNCHANGED vars
  <2>1. body \in Body /\ Vouched(version, req[p].id, req[p].hash) BY <1>3, <1>6
  <2>2. body \in Keys BY <1>6, <2>1 DEF Keys
  <2> HIDE DEF body
  <2> DEFINE r == [req[p] EXCEPT !.pc = "verify", !.body = body]
  <2>3. /\ r \in Request /\ r.pc = "verify" /\ r.status = req[p].status /\ r.id = req[p].id
        /\ r.route = "fix" /\ r.body = body /\ r.hash = req[p].hash
    <3>1. "verify" \in Points BY FieldValues
    <3>2. body \in Bodied BY <2>1 DEF Bodied
    <3>3. QED BY <1>1, <1>2, <3>1, <3>2, RequestFields
  <2> HIDE DEF r
  <2>4. RequestOK(r) BY <1>1, <1>2, <2>2, <2>3 DEF RequestOK
  <2>5. Learned(r, call[p], version, record) BY <1>1, <1>2, <2>1, <2>3, <2>4, StoreLearns
  <2>6. QED BY <1>1, <1>6, <2>5, LocalStep DEF r
<1>7. QED BY <1>4, <1>5, <1>6 DEF FixChecked

(* From one request to the store to the next.                              *)
LEMMA StoreStep ==
  ASSUME ApiInv, NEW p \in Procs, req[p].pc \in {"verify", "copy"},
         NEW pc \in {"copy", "store"}, NEW x \in Hashes, pc = "store" => x \in Bytes,
         Goto(p, [req[p] EXCEPT !.pc = pc, !.bytes = x]), UNCHANGED <<vars, blob, storage>>
  PROVE  ApiInv'
<1> DEFINE r == [req[p] EXCEPT !.pc = pc, !.bytes = x]
<1>1. /\ req[p] \in Request /\ RequestOK(req[p]) /\ call[p].pc = "idle" /\ BlobTypeOK'
      /\ Learned(req[p], call[p], version, record)
  BY WhatIsLearned, SameBlobIsTyped DEF Serves
<1>2. Vouched(version, req[p].id, req[p].hash) BY <1>1 DEF Learned, Checked
<1>3. /\ r \in Request /\ r.pc = pc /\ r.status = req[p].status /\ r.id = req[p].id
      /\ r.route = req[p].route /\ r.body = req[p].body /\ r.hash = req[p].hash /\ r.bytes = x
  <2>1. pc \in Points BY FieldValues
  <2>2. QED BY <1>1, <2>1, RequestFields
<1> HIDE DEF r
<1>4. RequestOK(r) BY <1>1, <1>3 DEF RequestOK
<1>5. Learned(r, call[p], version, record) BY <1>1, <1>2, <1>3, <1>4, StoreLearns
<1>6. QED BY <1>1, <1>5, LocalStep DEF r

LEMMA VerifyHashStep ==
  ASSUME ApiInv, NEW p \in Procs, VerifyHash(p), UNCHANGED storage
  PROVE  ApiInv'
<1>1. req[p].pc = "verify" /\ UNCHANGED <<vars, blob>> /\ BlobTypeOK'
  BY SameBlobIsTyped DEF VerifyHash, Serving
<1>2. req[p] \in Request /\ call[p].pc = "idle" BY <1>1, WhatIsLearned DEF Serves
<1>3. CASE Reply(p, 500) \/ Reply(p, 400) BY <1>1, <1>2, <1>3, ReplyStep
<1>4. CASE Goto(p, [req[p] EXCEPT !.pc = "copy"])
  <2>1. req[p].bytes \in Hashes BY <1>2 DEF Request
  <2>2. [req[p] EXCEPT !.pc = "copy"] = [req[p] EXCEPT !.pc = "copy", !.bytes = req[p].bytes]
    <3>1. /\ req[p] = [x \in DOMAIN req[p] |-> req[p][x]]
          /\ "bytes" \in DOMAIN req[p] /\ "pc" \in DOMAIN req[p]
      BY <1>2 DEF Request
    <3>2. QED BY <3>1
  <2>3. Goto(p, [req[p] EXCEPT !.pc = "copy", !.bytes = req[p].bytes]) BY <1>4, <2>2
  <2>4. QED BY <1>1, <2>1, <2>3, StoreStep
<1>5. QED BY <1>3, <1>4 DEF VerifyHash

LEMMA CopyBlobStep ==
  ASSUME ApiInv, NEW p \in Procs, CopyBlob(p), UNCHANGED storage
  PROVE  ApiInv'
<1>1. req[p].pc = "copy" /\ UNCHANGED <<vars, blob>> /\ BlobTypeOK'
  BY SameBlobIsTyped DEF CopyBlob, Serving
<1>2. /\ req[p] \in Request /\ call[p].pc = "idle" /\ req[p].body \in Keys
      /\ blob \in [Keys -> Hashes]
  BY <1>1, WhatIsLearned DEF Serves, RequestOK, BlobTypeOK
<1>3. CASE Reply(p, 500) BY <1>1, <1>2, <1>3, ReplyStep
<1>4. CASE /\ Get(req[p].body) # NoHash
           /\ Goto(p, [req[p] EXCEPT !.pc = "store", !.bytes = Get(req[p].body)])
  <2>1. Get(req[p].body) \in Hashes /\ Get(req[p].body) \in Bytes
    BY <1>2, <1>4 DEF Get, Hashes
  <2>2. QED BY <1>1, <1>4, <2>1, StoreStep
<1>5. QED BY <1>3, <1>4 DEF CopyBlob

LEMMA StoreFixedStep ==
  ASSUME ApiInv, NEW p \in Procs, StoreFixed(p), UNCHANGED storage
  PROVE  ApiInv'
<1>1. req[p].pc = "store" BY DEF StoreFixed, Serving
<1>2. /\ req[p] \in Request /\ call[p].pc = "idle" /\ req[p].route = "fix"
      /\ Vouched(version, req[p].id, req[p].hash)
  BY <1>1, WhatIsLearned DEF Serves, RequestOK, Learned, Checked
<1>3. req[p].bytes \in Hashes BY <1>2 DEF Request
<1>4. BlobTypeOK' BY <1>3, StoringKeepsType DEF StoreFixed
<1>5. CASE BeginSeal(p) BY <1>1, <1>2, <1>4, <1>5, BeginSealStep
<1>6. CASE Reply(p, 500) /\ UNCHANGED vars BY <1>2, <1>4, <1>6, ReplyStep
<1>7. QED BY <1>5, <1>6 DEF StoreFixed

LEMMA UploadStep ==
  ASSUME ApiInv, NEW p \in Procs, Upload(p), UNCHANGED storage
  PROVE  ApiInv'
<1>1. req[p].pc = "upload" /\ UNCHANGED vars BY DEF Upload, Serving
<1>2. req[p] \in Request /\ call[p].pc = "idle" /\ req[p].route = "asset"
  BY <1>1, WhatIsLearned DEF Serves, RequestOK
<1>3. req[p].bytes \in Hashes BY <1>2 DEF Request
<1>4. BlobTypeOK' BY <1>3, StoringKeepsType DEF Upload
<1>5. \E status \in {200, 201, 500} : Reply(p, status) BY DEF Upload
<1>6. QED BY <1>1, <1>2, <1>4, <1>5, ReplyStep

-----------------------------------------------------------------------------
(* Calls go on, fail and are dropped.                                      *)

LEMMA SameRequestGoesOn ==
  ASSUME ApiInv, NEW p \in Procs, UNCHANGED req
  PROVE  Goto(p, req[p])
BY DEF ApiInv, Goto

LEMMA HandlerQueryStep ==
  ASSUME ApiInv, NEW p \in Procs, Query(p), UNCHANGED <<blob, req, storage>>
  PROVE  ApiInv'
<1>1. /\ RepoInv /\ CallServes(call[p]) /\ Learned(req[p], call[p], version, record)
      /\ Goto(p, req[p]) /\ BlobTypeOK'
  BY WhatIsLearned, SameRequestGoesOn, SameBlobIsTyped
<1>2. PICK c : QueryLeft(call[p], c) /\ Become(p, c) BY <1>1, QueryLeaves
<1>3. TableGrows BY <1>1, QueryGrows
<1>4. Learned(req[p], c, version', record') BY <1>1, <1>2, <1>3, QueryLearns
<1>5. RepoInv' BY <1>1, ServiceStepKeepsRepo DEF ServiceStep
<1>6. HashesAreOfChains' BY <1>1, <1>3, QueryHashes DEF ApiInv, Learned
<1>7. QED BY <1>1, <1>2, <1>3, <1>4, <1>5, <1>6, HandlerStep

LEMMA HandlerFailStep ==
  ASSUME ApiInv, NEW p \in Procs, Fail(p), UNCHANGED <<blob, req, storage>>
  PROVE  ApiInv'
<1> DEFINE c == [Idle EXCEPT !.op = call[p].op, !.id = call[p].id, !.ret = "error"]
<1>1. /\ RepoInv /\ Learned(req[p], call[p], version, record) /\ Goto(p, req[p]) /\ BlobTypeOK'
      /\ call[p].pc # "idle"
  BY WhatIsLearned, SameRequestGoesOn, SameBlobIsTyped DEF Fail, At
<1>2. call[p] \in Call BY <1>1 DEF RepoInv, Inv, RepoOK, CallsOK
<1>3. c.op = call[p].op /\ c.id = call[p].id /\ c.pc = "idle" /\ c.ret = "error"
  BY <1>2, IdleIsCall DEF Call, Idle
<1>4. Become(p, c) BY DEF Fail, Answer
<1> HIDE DEF c
<1>5. Learned(req[p], c, version, record) BY <1>1, <1>3, FailLearns
<1>6. ServiceStep(p) /\ UNCHANGED tableVars BY DEF ServiceStep, Fail
<1>7. QED BY <1>1, <1>4, <1>5, <1>6, StartStep

LEMMA DropStep ==
  ASSUME ApiInv, NEW p \in Procs, Drop(p), UNCHANGED storage
  PROVE  ApiInv'
<1>1. /\ Goto(p, NoRequest) /\ Become(p, Idle) /\ BlobTypeOK' /\ UNCHANGED tableVars
      /\ ServiceStep(p)
  BY SameBlobIsTyped DEF Drop, Become, ServiceStep, Drops
<1>2. Idle.pc = "idle" /\ Idle.op = "none" /\ Idle.ret = "none" BY DEF Idle
<1>3. RequestOK(NoRequest) /\ NoRequest.route = "none" /\ NoRequest.pc = "idle"
  BY NoRequestIsRequest DEF NoRequest, RequestOK
<1>4. /\ CallServes(Idle) /\ Serves(NoRequest, Idle) /\ FoundRows(Idle, version)
      /\ Checked(NoRequest, Idle, version)
  BY <1>2, <1>3 DEF CallServes, Serves, FoundRows, Checked
<1>5. PutShows(NoRequest, Idle, version) /\ FixShows(NoRequest, Idle, record)
  BY <1>3 DEF PutShows, FixShows
<1>6. Learned(NoRequest, Idle, version, record) BY <1>3, <1>4, <1>5 DEF Learned
<1>7. QED BY <1>1, <1>6, StartStep

(* A step that is no request's.                                            *)
LEMMA OutsideStep ==
  ASSUME ApiInv, UNCHANGED <<vars, req, storage>>, BlobTypeOK'
  PROVE  ApiInv'
<1>1. UNCHANGED <<record, version, call>> /\ UNCHANGED vars /\ UNCHANGED <<req, storage>>
  BY DEF vars, repoVars
<1>2. RepoInv' BY <1>1, NoStepKeepsRepo DEF ApiInv
<1>3. HashesAreOfChains' BY <1>1, SameTablesSameHashes DEF ApiInv
<1>4. QED BY <1>1, <1>2, <1>3 DEF ApiInv

LEMMA ExternalStep ==
  ASSUME ApiInv, External
  PROVE  ApiInv'
<1>1. BlobTypeOK' BY DEF ApiInv, BlobTypeOK, External, Delete, Put, Hashes
<1>2. QED BY <1>1, OutsideStep DEF External

-----------------------------------------------------------------------------
LEMMA ApiInvInitially == ApiInit => ApiInv
<1> SUFFICES ASSUME ApiInit PROVE ApiInv
  OBVIOUS
<1>1. RepoInv BY RepoInvInitially DEF ApiInit
<1>2. BlobTypeOK /\ storage \in BOOLEAN
  BY DeploysAssumption DEF ApiInit, BlobInit, BlobTypeOK, Hashes
<1>3. req \in [Procs -> Request] BY NoRequestIsRequest DEF ApiInit
<1>4. \A p \in Procs : req[p] = NoRequest /\ call[p] = Idle BY DEF ApiInit, Init, RepoInit
<1>5. Learned(NoRequest, Idle, version, record)
  <2>1. Idle.pc = "idle" /\ Idle.op = "none" /\ Idle.ret = "none" BY DEF Idle
  <2>2. RequestOK(NoRequest) /\ NoRequest.route = "none" /\ NoRequest.pc = "idle"
    BY NoRequestIsRequest DEF NoRequest, RequestOK
  <2>3. /\ CallServes(Idle) /\ Serves(NoRequest, Idle) /\ FoundRows(Idle, version)
        /\ Checked(NoRequest, Idle, version)
    BY <2>1, <2>2 DEF CallServes, Serves, FoundRows, Checked
  <2>4. PutShows(NoRequest, Idle, version) /\ FixShows(NoRequest, Idle, record)
    BY <2>2 DEF PutShows, FixShows
  <2>5. QED BY <2>2, <2>3, <2>4 DEF Learned
<1>6. HashesAreOfChains
  <2>1. \A i \in Ids : record[i].state = "absent" BY DEF ApiInit, Init, RepoInit, TablesInit, NoRow
  <2>2. QED BY <2>1 DEF HashesAreOfChains
<1>7. QED BY <1>1, <1>2, <1>3, <1>4, <1>5, <1>6 DEF ApiInv

LEMMA ArriveStep ==
  ASSUME ApiInv, NEW p \in Procs, Arrive(p)
  PROVE  ApiInv'
BY AcceptGetStep, AcceptPutStep, AcceptPostStep, AcceptFixStep, AcceptAssetStep DEF Arrive

LEMMA HandleStep ==
  ASSUME ApiInv, NEW p \in Procs, Handle(p)
  PROVE  ApiInv'
BY HandlerQueryStep, RefusedStep, PutCheckedStep, PutAppendedStep, FixCheckedStep,
   VerifyHashStep, CopyBlobStep, StoreFixedStep, SealedStep, UploadStep DEF Handle

LEMMA DisturbStep ==
  ASSUME ApiInv, NEW p \in Procs, Disturb(p)
  PROVE  ApiInv'
BY HandlerFailStep, RefusedStep, DropStep DEF Disturb

LEMMA ApiInvStep == ApiInv /\ [ApiNext]_apiVars => ApiInv'
<1> SUFFICES ASSUME ApiInv, [ApiNext]_apiVars PROVE ApiInv'
  OBVIOUS
<1>1. CASE ApiNext BY <1>1, ExternalStep, ArriveStep, HandleStep, DisturbStep DEF ApiNext
<1>2. CASE UNCHANGED apiVars
  <2>1. UNCHANGED <<vars, req, storage>> /\ UNCHANGED blob BY <1>2 DEF apiVars
  <2>2. BlobTypeOK' BY <2>1, SameBlobIsTyped
  <2>3. QED BY <2>1, <2>2, OutsideStep
<1>3. QED BY <1>1, <1>2

LEMMA ApiInvAlways == ApiSpec => []ApiInv
BY ApiInvInitially, ApiInvStep, PTL DEF ApiSpec

(* The service is typed: every request and every call that it makes is of  *)
(* the shapes the handlers give them, and so are the tables and the store. *)
THEOREM ServiceIsTyped == ApiSpec => []ApiTypeOK
<1>1. ApiInv => ApiTypeOK
  BY DEF ApiInv, RepoInv, Inv, HeldOK, RepoOK, TablesOK, CallsOK, ApiTypeOK, TypeOK, RepoTypeOK
<1>2. QED BY <1>1, ApiInvAlways, PTL

(* fix: whatever commits between the check of a body and its transition,   *)
(* a Fixed record whose bodies are all inline, or all keys, has the digest *)
(* of one of its payloads for its hash.                                    *)
THEOREM FixedHashesAreOfChains == ApiSpec => []FixedHashIsOfItsChain
<1>1. ApiInv => FixedHashIsOfItsChain
  BY DEF ApiInv, HashesAreOfChains, Sealing, FixedHashIsOfItsChain, Payload, VersionsOf
<1>2. QED BY <1>1, ApiInvAlways, PTL

(* A 200 to a PUT shows the version it has written, and a 200 to a fix a   *)
(* Fixed record: what a handler has written is still there when its second *)
(* find reads it, whoever wrote in between.                                *)
THEOREM AnswersAreTrue == ApiSpec => []AnswersShowTheWrite
<1>1. ASSUME ApiInv, NEW p \in Procs, req[p].status = 200
      PROVE  /\ req[p].route = "put" =>
                  \E j \in DOMAIN call[p].chain : SameVersion(req[p].body, call[p].chain[j].body)
             /\ req[p].route = "fix" => call[p].row.state = "fixed"
  <2>1. PutShows(req[p], call[p], version) /\ FixShows(req[p], call[p], record)
    BY <1>1, WhatIsLearned DEF Learned
  <2>2. \A b, d : Migrated(b, d) => SameVersion(d, b) BY DEF Migrated, SameVersion
  <2>3. QED BY <1>1, <2>1, <2>2 DEF PutShows, FixShows
<1>2. ApiInv => AnswersShowTheWrite BY <1>1 DEF AnswersShowTheWrite
<1>3. QED BY <1>2, ApiInvAlways, PTL

-----------------------------------------------------------------------------
(* Which bodies there are.                                                 *)

Carries(c, G) ==
  /\ \A w \in c.rows : w.body \in G
  /\ \A j \in DOMAIN c.chain : c.chain[j].body \in G

BodiesIn(G) ==
  /\ \A v \in version : v.body \in G
  /\ \A p \in Procs : Carries(call[p], G)

(* What a transition is about to make of the bodies in G is in G.          *)
FossilsIn(c, G) ==
  c.op = "transition_to_fixed" /\ c.pc = "creator" => \A b \in G : Fossil(b, c.hash) \in G

LEMMA QueryCarries ==
  ASSUME NEW G, \A v \in version : v.body \in G, NEW old, Carries(old, G), FossilsIn(old, G),
         NEW c, QueryLeft(old, c)
  PROVE  Carries(c, G)
<1>1. \A s \in OrderedReads(old.id) : \A j \in DOMAIN s : s[j] \in version
  BY DEF OrderedReads, VersionsOf
<1>2. CASE c.rows = {} /\ c.chain = <<>> BY <1>2 DEF Carries
<1>3. CASE c.rows = old.rows /\ c.chain = old.chain BY <1>3 DEF Carries
<1>4. CASE c.rows = old.rows /\ c.chain \in OrderedReads(old.id) BY <1>1, <1>4 DEF Carries
<1>5. CASE /\ old.pc = "creator" /\ old.op = "transition_to_fixed" /\ c.chain = old.chain
           /\ \E j \in DOMAIN old.chain :
                \A w \in c.rows : w.body = Fossil(old.chain[j].body, old.hash)
  BY <1>5 DEF Carries, FossilsIn
<1>6. QED BY <1>2, <1>3, <1>4, <1>5 DEF QueryLeft

LEMMA QueryStores ==
  ASSUME RepoInv, NEW G, BodiesIn(G), NEW p \in Procs, CallServes(call[p]), Query(p)
  PROVE  \A v \in version' : v.body \in G
<1>1. \A w \in call[p].rows : w.body \in G BY DEF BodiesIn, Carries
<1>2. CASE UNCHANGED tableVars BY <1>2 DEF tableVars, BodiesIn
<1>3. CASE Create(call[p].id, call[p].row, call[p].rows, call[p].creator)
  BY <1>1, <1>3 DEF Create, BodiesIn
<1>4. CASE \E v \in call[p].rows : AppendVersion(v) BY <1>1, <1>4 DEF AppendVersion, BodiesIn
<1>5. ASSUME call[p].pc = "seal", NEW w \in call[p].rows,
             SealRecord(call[p].id, call[p].row.hash, call[p].row.updated, w.vid, w.body)
      PROVE  \A v \in version' : v.body \in G
  <2>1. ASSUME NEW v \in version' PROVE v.body \in G
    <3>1. PICK u \in version : v = IF u.vid = w.vid THEN [u EXCEPT !.body = w.body] ELSE u
      BY <1>5, <2>1, SealedTables
    <3>2. [u EXCEPT !.body = w.body].body = w.body BY <1>5, SealedTables
    <3>3. v.body = w.body \/ v.body = u.body BY <3>1, <3>2
    <3>4. QED BY <1>1, <1>5, <3>3 DEF BodiesIn
  <2>2. QED BY <2>1
<1>6. QED BY <1>2, <1>3, <1>4, <1>5, QueryWrites

LEMMA ServiceStepBodies ==
  ASSUME RepoInv, NEW G, Bodies \subseteq G, BodiesIn(G), NEW p \in Procs,
         CallServes(call[p]), ServiceStep(p), FossilsIn(call[p], G)
  PROVE  BodiesIn(G)'
<1>1. CallsOK /\ call \in [Procs -> Call] /\ Carries(call[p], G)
  BY DEF RepoInv, Inv, RepoOK, CallsOK, BodiesIn
<1>2. ASSUME NEW c, Become(p, c), Carries(c, G), \A v \in version' : v.body \in G
      PROVE  BodiesIn(G)'
  <2>1. \A q \in Procs : call'[q] = IF q = p THEN c ELSE call[q] BY <1>1, <1>2 DEF Become
  <2>2. \A q \in Procs : Carries(call'[q], G) BY <1>2, <2>1 DEF BodiesIn
  <2>3. QED BY <1>2, <2>2 DEF BodiesIn
<1>3. ASSUME UNCHANGED tableVars PROVE \A v \in version' : v.body \in G
  BY <1>3 DEF tableVars, BodiesIn
<1>4. CASE Query(p)
  <2>1. PICK c : QueryLeft(call[p], c) /\ Become(p, c) BY <1>4, QueryLeaves
  <2>2. Carries(c, G) BY <1>1, <2>1, QueryCarries DEF BodiesIn
  <2>3. QED BY <1>2, <1>4, <2>1, <2>2, QueryStores
<1>5. CASE Fail(p)
  <2>1. Answer(p, "error") /\ UNCHANGED tableVars BY <1>5 DEF Fail
  <2>2. PICK c : QueryLeft(call[p], c) /\ Become(p, c) BY <1>1, <2>1, AnswerLeaves DEF Rets
  <2>3. Carries(c, G) BY <1>1, <2>2, QueryCarries DEF BodiesIn
  <2>4. QED BY <1>2, <1>3, <2>1, <2>2, <2>3
<1>6. CASE Drops(p)
  <2>1. Become(p, Idle) /\ UNCHANGED tableVars BY <1>6 DEF Drops
  <2>2. Carries(Idle, G) BY IdleShowsNothing DEF Carries
  <2>3. QED BY <1>2, <1>3, <2>1, <2>2
<1>7. CASE \E i \in Ids : StartFind(p, i)
  <2>1. UNCHANGED tableVars BY <1>7 DEF StartFind
  <2>2. PICK c : c.rows = {} /\ c.chain = <<>> /\ Become(p, c) BY <1>7, StartFindLeaves
  <2>3. Carries(c, G) BY <2>2 DEF Carries
  <2>4. QED BY <1>2, <1>3, <2>1, <2>2, <2>3
<1>8. CASE \E i \in Ids, x \in Bytes : StartTransition(p, i, x)
  <2>1. UNCHANGED tableVars BY <1>8 DEF StartTransition
  <2>2. PICK c : c.rows = {} /\ c.chain = <<>> /\ Become(p, c)
    BY <1>8, StartTransitionLeaves
  <2>3. Carries(c, G) BY <2>2 DEF Carries
  <2>4. QED BY <1>2, <1>3, <2>1, <2>2, <2>3
<1>9. ASSUME NEW i \in Ids, NEW b \in Bodies, StartAddVersion(p, i, b) PROVE BodiesIn(G)'
  <2>1. UNCHANGED tableVars BY <1>9 DEF StartAddVersion
  <2>2. PICK c : /\ \A w \in c.rows : w.body = b
                 /\ c.chain = <<>> /\ Become(p, c)
    BY <1>9, StartAddVersionLeaves
  <2>3. Carries(c, G) BY <2>2 DEF Carries
  <2>4. QED BY <1>2, <1>3, <2>1, <2>2, <2>3
<1>10. ASSUME NEW i \in Ids, NEW b \in Bodies, NEW creator \in Creators, Posts(p, i, b, creator)
       PROVE  BodiesIn(G)'
  <2>1. Inv BY DEF RepoInv
  <2>2. UNCHANGED tableVars BY <1>10, <2>1, PostLeaves
  <2>3. PICK c : PostLeft(c, i, b) /\ Become(p, c) BY <1>10, <2>1, PostLeaves
  <2>4. Carries(c, G) BY <2>3 DEF Carries, PostLeft
  <2>5. QED BY <1>2, <1>3, <2>2, <2>3, <2>4
<1>11. QED BY <1>4, <1>5, <1>6, <1>7, <1>8, <1>9, <1>10 DEF ServiceStep

(* The handlers begin a transition in two places.                          *)
SealBegins(p) ==
  /\ BeginSeal(p) /\ req[p].id \in Ids /\ req[p].hash \in Bytes
  /\ \/ StoreFixed(p)
     \/ /\ call[p].ret = "found" /\ call[p].id = req[p].id /\ call[p].row.state # "fixed"
        /\ Last(call[p].chain).body.form = "inline"
        /\ Last(call[p].chain).body.of = req[p].hash

OtherStep(p) ==
  \/ Query(p) \/ Fail(p) \/ Drops(p)
  \/ \E i \in Ids : StartFind(p, i) /\ UNCHANGED <<held, nextVid>>
  \/ \E i \in Ids, b \in Bodies :
       /\ StartAddVersion(p, i, b) /\ UNCHANGED held
       /\ call[p].ret = "found" /\ call[p].id = i /\ call[p].row.state = "mutable"
  \/ \E i \in Ids, b \in Bodies, c \in Creators : Posts(p, i, b, c)

(* A step of a handler is, for the repository, a ServiceStep, or nothing.  *)
LEMMA ArrivalsServe ==
  ASSUME ApiInv, NEW p \in Procs, Arrive(p)
  PROVE  OtherStep(p) \/ UNCHANGED vars
<1>1. ASSUME NEW i \in Ids, AcceptGet(p, i) PROVE OtherStep(p)
  BY <1>1 DEF AcceptGet, OtherStep
<1>2. ASSUME NEW i \in Ids, NEW b, AcceptPut(p, i, b) PROVE OtherStep(p)
  BY <1>2 DEF AcceptPut, OtherStep
<1>3. ASSUME NEW i \in Ids, NEW b \in Bodies \cup {Malformed}, NEW c \in Creators,
             AcceptPost(p, i, b, c)
      PROVE  OtherStep(p) \/ UNCHANGED vars
  BY <1>3 DEF AcceptPost, OtherStep, Posts
<1>4. ASSUME NEW i \in Ids, NEW h, AcceptFix(p, i, h) PROVE OtherStep(p) \/ UNCHANGED vars
  BY <1>4 DEF AcceptFix, OtherStep
<1>5. ASSUME NEW x, AcceptAsset(p, x) PROVE UNCHANGED vars BY <1>5 DEF AcceptAsset
<1>6. QED BY <1>1, <1>2, <1>3, <1>4, <1>5 DEF Arrive

LEMMA HandlersServe ==
  ASSUME ApiInv, NEW p \in Procs, Handle(p) \/ Disturb(p)
  PROVE  OtherStep(p) \/ SealBegins(p) \/ UNCHANGED vars
<1>1. /\ req[p].id \in Ids
      /\ req[p].pc # "idle" /\ req[p].route = "fix" => req[p].hash \in Bytes
      /\ req[p].route = "put" => req[p].body \in Bodies \cup {Malformed}
      /\ req[p].pc = "store" => req[p].route = "fix"
      /\ req[p].pc = "find" => call[p].id = req[p].id
  BY WhatIsLearned DEF RequestOK, Serves
<1>2. CASE Query(p) \/ Fail(p) \/ Drop(p) BY <1>2 DEF OtherStep, Drop, Drops, Become
<1>3. CASE \/ Refused(p) \/ Projected(p) \/ Saved(p) \/ VerifyHash(p) \/ CopyBlob(p)
           \/ Upload(p) \/ StorageFails(p)
  BY <1>3 DEF Refused, Projected, Saved, VerifyHash, CopyBlob, Upload, StorageFails
<1>4. CASE Project(p) BY <1>1, <1>4 DEF Project, OtherStep
<1>5. CASE FixChecked(p) BY <1>1, <1>5 DEF FixChecked, Returned, Serving, SealBegins
<1>6. CASE StoreFixed(p)
  <2>1. req[p].hash \in Bytes BY <1>1, <1>6 DEF StoreFixed, Serving
  <2>2. BeginSeal(p) \/ UNCHANGED vars BY <1>6 DEF StoreFixed
  <2>3. QED BY <1>1, <1>6, <2>1, <2>2 DEF SealBegins
<1>7. CASE PutChecked(p) BY <1>1, <1>7 DEF PutChecked, Returned, Serving, OtherStep
<1>8. QED
  BY <1>2, <1>3, <1>4, <1>5, <1>6, <1>7 DEF Handle, Disturb, PutAppended, Sealed

LEMMA OtherStepsServe ==
  ASSUME NEW p \in Procs, OtherStep(p) \/ SealBegins(p)
  PROVE  ServiceStep(p)
BY DEF OtherStep, SealBegins, BeginSeal, ServiceStep

LEMMA BodiesStayIn ==
  ASSUME ApiInv, [ApiNext]_apiVars, NEW G, Bodies \subseteq G, BodiesIn(G),
         \A p \in Procs : FossilsIn(call[p], G)
  PROVE  BodiesIn(G)'
<1>1. CASE UNCHANGED vars
  <2>1. version' = version /\ call' = call BY <1>1 DEF vars, repoVars
  <2>2. QED BY <2>1 DEF BodiesIn
<1>2. ASSUME NEW p \in Procs, ServiceStep(p) PROVE BodiesIn(G)'
  BY <1>2, WhatIsLearned, ServiceStepBodies
<1>3. External \/ UNCHANGED apiVars => UNCHANGED vars BY DEF External, apiVars
<1>4. QED
  BY <1>1, <1>2, <1>3, ArrivalsServe, HandlersServe, OtherStepsServe DEF ApiNext

-----------------------------------------------------------------------------
(* The way of a payload from its key to /fixed.                            *)

(* The handlers come to the store by three steps only.                     *)
Fetches(p) == req'[p] = [req[p] EXCEPT !.pc = "verify", !.body = Last(call[p].chain).body]
Compares(p) == req'[p] = [req[p] EXCEPT !.pc = "copy"]
Copies(p) == req'[p] = [req[p] EXCEPT !.pc = "store", !.bytes = Get(req[p].body)]

WayToStore(p) ==
  \/ /\ req[p].pc = "find" /\ call[p].ret = "found" /\ Fetches(p)
     /\ call[p].row.state # "fixed" /\ Last(call[p].chain).body.form # "inline"
  \/ req[p].pc = "verify" /\ Get(req[p].body) = req[p].hash /\ Compares(p)
  \/ req[p].pc = "copy" /\ Get(req[p].body) # NoHash /\ Copies(p)

AtStore(r) == r.pc \in {"verify", "copy", "store"}

LEMMA GoneTo ==
  ASSUME ApiInv, NEW p \in Procs, NEW r, Goto(p, r)
  PROVE  req'[p] = r /\ \A q \in Procs \ {p} : req'[q] = req[q]
BY DEF ApiInv, Goto

LEMMA RepliesLeave ==
  ASSUME ApiInv, NEW p \in Procs, NEW status, Reply(p, status)
  PROVE  ~ AtStore(req'[p])
<1> DEFINE r == [req[p] EXCEPT !.pc = "idle", !.status = status]
<1>1. r.pc = "idle" BY WhatIsLearned, RequestFields
<1>2. Goto(p, r) BY DEF Reply
<1> HIDE DEF r
<1>3. QED BY <1>1, <1>2, GoneTo DEF AtStore

LEMMA CallersLeave ==
  ASSUME ApiInv, NEW p \in Procs, NEW pc \in {"append", "seal", "project"},
         Goto(p, [req[p] EXCEPT !.pc = pc])
  PROVE  ~ AtStore(req'[p])
<1> DEFINE r == [req[p] EXCEPT !.pc = pc]
<1>1. r.pc = pc BY WhatIsLearned, RequestFields
<1> HIDE DEF r
<1>2. QED BY <1>1, GoneTo DEF AtStore, r

(* A request arrives with its first await.                                 *)
LEMMA ArrivalsStayAway ==
  ASSUME ApiInv, NEW p \in Procs, Arrive(p)
  PROVE  ~ AtStore(req'[p]) /\ \A q \in Procs \ {p} : req'[q] = req[q]
<1>0. "find" \in Points /\ "save" \in Points /\ "project" \in Points /\ "upload" \in Points
  BY FieldValues
<1>1. ASSUME NEW r \in Request, NEW route, Accept(p, route, r),
             r.pc \in {"idle", "find", "save", "project", "upload"}
      PROVE  ~ AtStore(req'[p]) /\ \A q \in Procs \ {p} : req'[q] = req[q]
  <2> DEFINE s == [r EXCEPT !.route = route]
  <2>1. s.pc = r.pc BY <1>1 DEF Request
  <2>2. Goto(p, s) BY <1>1 DEF Accept
  <2> HIDE DEF s
  <2>3. QED BY <1>1, <2>1, <2>2, GoneTo DEF AtStore
<1>2. ASSUME NEW i \in Ids, AcceptGet(p, i)
      PROVE  ~ AtStore(req'[p]) /\ \A q \in Procs \ {p} : req'[q] = req[q]
  <2> DEFINE r == [NoRequest EXCEPT !.pc = "project", !.id = i]
  <2>1. r \in Request /\ r.pc = "project" BY <1>0, NoRequestIsRequest, RequestFields
  <2>2. Accept(p, "get", r) BY <1>2 DEF AcceptGet
  <2> HIDE DEF r
  <2>3. QED BY <1>1, <2>1, <2>2
<1>3. ASSUME NEW i \in Ids, NEW b \in Bodies \cup {Malformed}, AcceptPut(p, i, b)
      PROVE  ~ AtStore(req'[p]) /\ \A q \in Procs \ {p} : req'[q] = req[q]
  <2> DEFINE r == [NoRequest EXCEPT !.pc = "find", !.id = i, !.body = b]
  <2>1. b \in Bodied BY BodiesAssumption DEF Bodied
  <2>2. r \in Request /\ r.pc = "find" BY <1>0, <2>1, NoRequestIsRequest, RequestFields
  <2>3. Accept(p, "put", r) BY <1>3 DEF AcceptPut
  <2> HIDE DEF r
  <2>4. QED BY <1>1, <2>2, <2>3
<1>4. ASSUME NEW status \in {400, 413, 500}, NEW route,
             Accept(p, route, [NoRequest EXCEPT !.status = status])
      PROVE  ~ AtStore(req'[p]) /\ \A q \in Procs \ {p} : req'[q] = req[q]
  <2> DEFINE r == [NoRequest EXCEPT !.status = status]
  <2>1. status \in Statuses /\ NoRequest.pc = "idle" BY FieldValues
  <2>2. r \in Request /\ r.pc = "idle" BY <2>1, NoRequestIsRequest, RequestFields
  <2>3. Accept(p, route, r) BY <1>4
  <2> HIDE DEF r
  <2>4. QED BY <1>1, <2>2, <2>3
<1>5. ASSUME NEW i \in Ids, NEW b \in Bodies \cup {Malformed}, NEW c, AcceptPost(p, i, b, c)
      PROVE  ~ AtStore(req'[p]) /\ \A q \in Procs \ {p} : req'[q] = req[q]
  <2> DEFINE r == [NoRequest EXCEPT !.pc = "save", !.id = i, !.body = b]
  <2>1. b \in Bodied BY BodiesAssumption DEF Bodied
  <2>2. r \in Request /\ r.pc = "save" BY <1>0, <2>1, NoRequestIsRequest, RequestFields
  <2>3. Accept(p, "post", r) \/ Accept(p, "post", [NoRequest EXCEPT !.status = 400])
    BY <1>5 DEF AcceptPost
  <2> HIDE DEF r
  <2>4. QED BY <1>1, <1>4, <2>2, <2>3
<1>6. ASSUME NEW i \in Ids, NEW h \in Hashes, AcceptFix(p, i, h)
      PROVE  ~ AtStore(req'[p]) /\ \A q \in Procs \ {p} : req'[q] = req[q]
  <2> DEFINE r == [NoRequest EXCEPT !.pc = "find", !.id = i, !.hash = h]
  <2>1. r \in Request /\ r.pc = "find" BY <1>0, NoRequestIsRequest, RequestFields
  <2>2. Accept(p, "fix", r) \/ Accept(p, "fix", [NoRequest EXCEPT !.status = 400])
    BY <1>6 DEF AcceptFix
  <2> HIDE DEF r
  <2>3. QED BY <1>1, <1>4, <2>1, <2>2
<1>7. ASSUME NEW x, AcceptAsset(p, x)
      PROVE  ~ AtStore(req'[p]) /\ \A q \in Procs \ {p} : req'[q] = req[q]
  <2>1. CASE \E status \in {400, 413, 500} :
               Accept(p, "asset", [NoRequest EXCEPT !.status = status])
    BY <1>4, <2>1
  <2>2. CASE x \in Bytes /\ Accept(p, "asset", [NoRequest EXCEPT !.pc = "upload", !.bytes = x])
    <3> DEFINE r == [NoRequest EXCEPT !.pc = "upload", !.bytes = x]
    <3>1. x \in Hashes BY <2>2 DEF Hashes
    <3>2. r \in Request /\ r.pc = "upload"
      BY <1>0, <3>1, NoRequestIsRequest, RequestFields
    <3>3. Accept(p, "asset", r) BY <2>2
    <3> HIDE DEF r
    <3>4. QED BY <1>1, <3>2, <3>3
  <2>3. QED BY <1>7, <2>1, <2>2 DEF AcceptAsset
<1>8. QED BY <1>2, <1>3, <1>5, <1>6, <1>7 DEF Arrive

LEMMA HandlersWay ==
  ASSUME ApiInv, NEW p \in Procs, Handle(p) \/ Disturb(p)
  PROVE  /\ \A q \in Procs \ {p} : req'[q] = req[q]
         /\ AtStore(req'[p]) => req'[p] = req[p] \/ WayToStore(p)
<1>1. \A r : Goto(p, r) => req'[p] = r /\ \A q \in Procs \ {p} : req'[q] = req[q] BY GoneTo
<1>2. CASE UNCHANGED req BY <1>2
<1>3. CASE \E status : Reply(p, status)
  <2>1. PICK status : Reply(p, status) BY <1>3
  <2>2. Goto(p, [req[p] EXCEPT !.pc = "idle", !.status = status]) BY <2>1 DEF Reply
  <2>3. QED BY <1>1, <2>1, <2>2, RepliesLeave
<1>4. CASE \E pc \in {"append", "seal", "project"} : Goto(p, [req[p] EXCEPT !.pc = pc])
  BY <1>1, <1>4, CallersLeave
<1>5. CASE Goto(p, NoRequest)
  <2>1. ~ AtStore(NoRequest) BY DEF AtStore, NoRequest
  <2>2. QED BY <1>1, <1>5, <2>1
<1>6. CASE FixChecked(p)
  <2>1. CASE \/ \E status : Reply(p, status)
             \/ Goto(p, [req[p] EXCEPT !.pc = "seal"])
    BY <1>3, <1>4, <2>1
  <2>2. CASE /\ call[p].row.state # "fixed" /\ Last(call[p].chain).body.form # "inline"
             /\ Goto(p, [req[p] EXCEPT !.pc = "verify", !.body = Last(call[p].chain).body])
    <3>1. req[p].pc = "find" /\ call[p].ret = "found"
      BY <1>6 DEF FixChecked, Returned, Serving
    <3>2. Fetches(p) /\ \A q \in Procs \ {p} : req'[q] = req[q] BY <2>2, <1>1 DEF Fetches
    <3>3. QED BY <2>2, <3>1, <3>2 DEF WayToStore
  <2>3. QED BY <1>6, <2>1, <2>2 DEF FixChecked, BeginSeal
<1>7. CASE VerifyHash(p)
  <2>1. CASE \E status : Reply(p, status) BY <1>3, <2>1
  <2>2. CASE Get(req[p].body) = req[p].hash /\ Goto(p, [req[p] EXCEPT !.pc = "copy"])
    <3>1. req[p].pc = "verify" BY <1>7 DEF VerifyHash, Serving
    <3>2. Compares(p) /\ \A q \in Procs \ {p} : req'[q] = req[q] BY <2>2, <1>1 DEF Compares
    <3>3. QED BY <2>2, <3>1, <3>2 DEF WayToStore
  <2>3. QED BY <1>7, <2>1, <2>2 DEF VerifyHash
<1>8. CASE CopyBlob(p)
  <2>1. CASE \E status : Reply(p, status) BY <1>3, <2>1
  <2>2. CASE /\ Get(req[p].body) # NoHash
             /\ Goto(p, [req[p] EXCEPT !.pc = "store", !.bytes = Get(req[p].body)])
    <3>1. req[p].pc = "copy" BY <1>8 DEF CopyBlob, Serving
    <3>2. Copies(p) /\ \A q \in Procs \ {p} : req'[q] = req[q] BY <2>2, <1>1 DEF Copies
    <3>3. QED BY <2>2, <3>1, <3>2 DEF WayToStore
  <2>3. QED BY <1>8, <2>1, <2>2 DEF CopyBlob
<1>9. CASE Project(p) \/ PutChecked(p) BY <1>3, <1>4, <1>9 DEF Project, PutChecked
<1>10. CASE StoreFixed(p) BY <1>3, <1>4, <1>10 DEF StoreFixed, BeginSeal
<1>11. CASE Upload(p) BY <1>3, <1>11 DEF Upload
<1>12. CASE Refused(p) \/ Projected(p) \/ Saved(p) \/ StorageFails(p)
  BY <1>3, <1>12 DEF Refused, Projected, Saved, StorageFails
<1>13. QED
  BY <1>2, <1>5, <1>6, <1>7, <1>8, <1>9, <1>10, <1>11, <1>12
     DEF Handle, Disturb, PutAppended, Sealed, Drop

LEMMA RequestsMove ==
  ASSUME ApiInv, [ApiNext]_apiVars, NEW p \in Procs, AtStore(req'[p])
  PROVE  req'[p] = req[p] \/ WayToStore(p)
<1>1. External \/ UNCHANGED apiVars => UNCHANGED req BY DEF External, apiVars
<1>2. ASSUME NEW q \in Procs, Arrive(q) \/ Handle(q) \/ Disturb(q)
      PROVE  req'[p] = req[p] \/ WayToStore(p)
  BY <1>2, ArrivalsStayAway, HandlersWay
<1>3. QED BY <1>1, <1>2 DEF ApiNext

(* The store changes by three steps only.                                  *)
LEMMA BlobMoves ==
  ASSUME [ApiNext]_apiVars
  PROVE  \/ UNCHANGED blob
         \/ External
         \/ \E p \in Procs : StoreFixed(p) \/ Upload(p)
<1>1. ASSUME NEW p \in Procs, Arrive(p) PROVE UNCHANGED blob
  BY <1>1 DEF Arrive, AcceptGet, AcceptPut, AcceptPost, AcceptFix, AcceptAsset
<1>2. ASSUME NEW p \in Procs, Disturb(p) PROVE UNCHANGED blob
  BY <1>2 DEF Disturb, StorageFails, Drop
<1>3. ASSUME NEW p \in Procs, Handle(p) PROVE UNCHANGED blob \/ StoreFixed(p) \/ Upload(p)
  BY <1>3 DEF Handle, Refused, Projected, Saved, PutChecked, PutAppended, Project, FixChecked,
              VerifyHash, CopyBlob, Sealed
<1>4. QED BY <1>1, <1>2, <1>3 DEF ApiNext, apiVars

-----------------------------------------------------------------------------
(* Content-addressed keys.                                                 *)

NotUploads == {b \in Body : b.form # "upload"}

(* What a fix carries from one request to the store to the next.           *)
CopyOK(r) ==
  /\ r.pc \in {"verify", "copy"} => r.body.form # "upload"
  /\ r.pc = "copy" => r.hash = r.body.of
  /\ r.pc = "store" => r.bytes = r.hash

NamesInv ==
  /\ BodiesIn(NotUploads) /\ KeysNameTheirPayload
  /\ \A p \in Procs : CopyOK(req[p])

(* The body that a fix is to verify is of the chain it has found.          *)
LEMMA FoundIsCarried ==
  ASSUME ApiInv, NEW p \in Procs, call[p].ret = "found", NEW G, BodiesIn(G)
  PROVE  Last(call[p].chain).body \in G
<1>1. call[p].chain \in Seq(VersionRow) /\ call[p].chain # <<>>
  BY WhatIsLearned DEF RepoInv, Inv, RepoOK, CallsOK, Call, Learned, FoundRows
<1>2. Len(call[p].chain) \in DOMAIN call[p].chain BY <1>1
<1>3. QED BY <1>2 DEF Last, BodiesIn, Carries

LEMMA SealingHash ==
  ASSUME ApiInv, NEW p \in Procs, call[p].op = "transition_to_fixed", call[p].pc # "idle"
  PROVE  call[p].hash \in Bytes
BY WhatIsLearned DEF Learned, Checked

LEMMA WayKeepsCopies ==
  ASSUME ApiInv, NamesInv, NEW p \in Procs, WayToStore(p)
  PROVE  CopyOK(req'[p])
<1>1. req[p] \in Request /\ RequestOK(req[p]) /\ blob \in [Keys -> Hashes] /\ CopyOK(req[p])
  BY WhatIsLearned DEF BlobTypeOK, NamesInv
<1>2. CASE call[p].ret = "found" /\ Fetches(p)
  <2> DEFINE b == Last(call[p].chain).body
             r == [req[p] EXCEPT !.pc = "verify", !.body = b]
  <2>1. b.form # "upload" BY <1>2, FoundIsCarried DEF NamesInv, NotUploads
  <2> HIDE DEF b
  <2>2. r.pc = "verify" /\ r.body = b BY <1>1, RequestFields
  <2> HIDE DEF r
  <2>3. CopyOK(r) BY <2>1, <2>2 DEF CopyOK
  <2>4. QED BY <1>2, <2>3 DEF Fetches, b, r
<1>3. ASSUME req[p].pc \in {"verify", "copy"}, Get(req[p].body) # NoHash
      PROVE  Get(req[p].body) = req[p].body.of /\ req[p].body.form # "upload"
  BY <1>1, <1>3 DEF NamesInv, KeysNameTheirPayload, RequestOK, CopyOK
<1>4. CASE req[p].pc = "verify" /\ Get(req[p].body) = req[p].hash /\ Compares(p)
  <2> DEFINE r == [req[p] EXCEPT !.pc = "copy"]
  <2>1. r.pc = "copy" /\ r.body = req[p].body /\ r.hash = req[p].hash
    BY <1>1, RequestFields
  <2> HIDE DEF r
  <2>2. req[p].hash \in Bytes BY <1>1, <1>4 DEF RequestOK
  <2>3. req[p].hash # NoHash BY <2>2, HashAssumption
  <2>4. CopyOK(r) BY <1>3, <1>4, <2>1, <2>3 DEF CopyOK
  <2>5. QED BY <1>4, <2>4 DEF Compares, r
<1>5. CASE req[p].pc = "copy" /\ Get(req[p].body) # NoHash /\ Copies(p)
  <2> DEFINE x == Get(req[p].body)
             r == [req[p] EXCEPT !.pc = "store", !.bytes = x]
  <2>1. x = req[p].hash BY <1>1, <1>3, <1>5 DEF CopyOK
  <2> HIDE DEF x
  <2>2. r.pc = "store" /\ r.bytes = x /\ r.hash = req[p].hash BY <1>1, RequestFields
  <2> HIDE DEF r
  <2>3. CopyOK(r) BY <2>1, <2>2 DEF CopyOK
  <2>4. QED BY <1>5, <2>3 DEF Copies, r, x
<1>6. QED BY <1>2, <1>4, <1>5 DEF WayToStore

LEMMA BlobKeepsNames ==
  ASSUME ApiInv, NamesInv, [ApiNext]_apiVars
  PROVE  KeysNameTheirPayload'
<1>1. blob \in [Keys -> Hashes] BY DEF ApiInv, BlobTypeOK
<1>2. ASSUME NEW k, NEW outcome, PutIfAbsent(k, k.of, outcome) PROVE KeysNameTheirPayload'
  BY <1>1, <1>2 DEF PutIfAbsent, Put, Get, NamesInv, KeysNameTheirPayload
<1>3. CASE UNCHANGED blob BY <1>3 DEF Get, NamesInv, KeysNameTheirPayload
<1>4. CASE External
  BY <1>1, <1>4 DEF External, Put, Delete, Get, NamesInv, KeysNameTheirPayload
<1>5. ASSUME NEW p \in Procs, StoreFixed(p) PROVE KeysNameTheirPayload'
  <2>1. req[p].pc = "store" /\ CopyOK(req[p]) BY <1>5 DEF StoreFixed, Serving, NamesInv
  <2>2. req[p].bytes = FixedKey(req[p].hash).of BY <2>1 DEF CopyOK, FixedKey
  <2>3. QED BY <1>2, <1>5, <2>2 DEF StoreFixed
<1>6. ASSUME NEW p \in Procs, Upload(p) PROVE KeysNameTheirPayload'
  <2> DEFINE k == [form |-> "assets", of |-> req[p].bytes]
  <2>1. k.of = req[p].bytes OBVIOUS
  <2>2. \E outcome : PutIfAbsent(k, req[p].bytes, outcome) BY <1>6 DEF Upload
  <2> HIDE DEF k
  <2>3. QED BY <1>2, <2>1, <2>2
<1>7. QED BY <1>3, <1>4, <1>5, <1>6, BlobMoves

LEMMA NamesInvStep ==
  ASSUME \A b \in Bodies : b.form # "upload"
  PROVE  ApiInv /\ NamesInv /\ [ApiNext]_apiVars => NamesInv'
<1> SUFFICES ASSUME ApiInv, NamesInv, [ApiNext]_apiVars PROVE NamesInv'
  OBVIOUS
<1>1. Bodies \subseteq NotUploads BY BodiesAssumption DEF NotUploads
<1>2. ASSUME NEW p \in Procs PROVE FossilsIn(call[p], NotUploads)
  <2> SUFFICES ASSUME call[p].op = "transition_to_fixed", call[p].pc = "creator",
                      NEW b \in NotUploads
               PROVE  Fossil(b, call[p].hash) \in NotUploads
    BY DEF FossilsIn
  <2>1. call[p].hash \in Bytes BY SealingHash
  <2>2. QED BY <2>1 DEF NotUploads, Fossil, Body, Forms
<1>3. BodiesIn(NotUploads)' BY <1>1, <1>2, BodiesStayIn DEF NamesInv
<1>4. ASSUME NEW p \in Procs PROVE CopyOK(req'[p])
  <2>1. CASE ~ AtStore(req'[p]) BY <2>1 DEF AtStore, CopyOK
  <2>2. CASE AtStore(req'[p])
    BY <2>2, RequestsMove, WayKeepsCopies DEF NamesInv
  <2>3. QED BY <2>1, <2>2
<1>5. KeysNameTheirPayload' BY BlobKeepsNames
<1>6. QED BY <1>3, <1>4, <1>5 DEF NamesInv

LEMMA NamesInvInitially == ApiInit => NamesInv
<1> SUFFICES ASSUME ApiInit PROVE NamesInv
  OBVIOUS
<1>1. version = {} /\ \A p \in Procs : call[p] = Idle /\ req[p] = NoRequest
  BY DEF ApiInit, Init, RepoInit, TablesInit
<1>2. Carries(Idle, NotUploads) BY IdleShowsNothing DEF Carries
<1>3. CopyOK(NoRequest) BY FieldValues DEF CopyOK
<1>4. KeysNameTheirPayload BY DEF ApiInit, BlobInit, KeysNameTheirPayload, Get
<1>5. QED BY <1>1, <1>2, <1>3, <1>4 DEF NamesInv, BodiesIn

(* POST /assets and fix: where no client submits a key that others may     *)
(* overwrite, what is stored at /assets/<x> or /fixed/<x> is x, although   *)
(* neither route ever reads back what put_if_absent has kept.              *)
THEOREM KeysAreContentAddressed ==
  ASSUME \A b \in Bodies : b.form # "upload"
  PROVE  ApiSpec => []KeysNameTheirPayload
<1>1. ApiInv /\ NamesInv /\ [ApiNext]_apiVars => NamesInv' BY NamesInvStep
<1>2. NamesInv => KeysNameTheirPayload BY DEF NamesInv
<1>3. QED BY <1>1, <1>2, ApiInvAlways, NamesInvInitially, PTL DEF ApiSpec

-----------------------------------------------------------------------------
(* Fossils are stored.                                                     *)

Stored == {b \in Body : \/ b.form \in {"assets", "upload"}
                        \/ b.form = "fixed" /\ Get(b) # NoHash}
StoredBodies == BodiesIn(Stored)

(* A transition under way finds a payload at the key it migrates to.       *)
PendingStored ==
  \A p \in Procs : call[p].op = "transition_to_fixed" /\ call[p].pc # "idle" =>
    Get(FixedKey(call[p].hash)) # NoHash

LEMMA BlobStaysFilled ==
  ASSUME ApiInv, [ApiNext]_apiVars, NEW k, k.form # "upload", Get(k) # NoHash, k \in Keys
  PROVE  blob'[k] # NoHash
<1>1. blob \in [Keys -> Hashes] BY DEF ApiInv, BlobTypeOK
<1>2. CASE External BY <1>1, <1>2 DEF External, Put, Delete, Get
<1>3. ASSUME NEW j, NEW x, NEW outcome, PutIfAbsent(j, x, outcome) PROVE blob'[k] # NoHash
  BY <1>1, <1>3 DEF PutIfAbsent, Put, Get
<1>4. CASE \E p \in Procs : StoreFixed(p) \/ Upload(p) BY <1>3, <1>4 DEF StoreFixed, Upload
<1>5. QED BY <1>2, <1>4, BlobMoves DEF Get

(* A transition that is under way after a step was so before, or has begun.*)
LEMMA PendingFrom ==
  ASSUME ApiInv, [ApiNext]_apiVars, NEW p \in Procs,
         call'[p].op = "transition_to_fixed", call'[p].pc # "idle"
  PROVE  \/ /\ call[p].op = "transition_to_fixed" /\ call[p].pc # "idle"
            /\ call'[p].hash = call[p].hash
         \/ SealBegins(p) /\ call'[p].hash = req[p].hash
<1>1. call \in [Procs -> Call] BY DEF ApiInv, RepoInv, Inv, RepoOK, CallsOK
<1>2. \A q \in Procs : \A c : Become(q, c) =>
        call'[q] = c /\ \A o \in Procs \ {q} : call'[o] = call[o]
  BY <1>1 DEF Become
<1>3. CASE UNCHANGED vars
  <2>1. call' = call BY <1>3 DEF vars, repoVars
  <2>2. QED BY <2>1
<1>4. ASSUME NEW q \in Procs, OtherStep(q)
      PROVE  /\ call[p].op = "transition_to_fixed" /\ call[p].pc # "idle"
             /\ call'[p].hash = call[p].hash
  <2>1. RepoInv /\ CallServes(call[q]) /\ CallsOK BY WhatIsLearned DEF RepoInv, Inv, RepoOK
  <2>2. ASSUME NEW c, Become(q, c), c.op # "transition_to_fixed" \/ c.pc = "idle"
        PROVE  call'[p] = call[p]
    BY <1>2, <2>2
  <2>3. CASE Query(q)
    <3>1. PICK c : QueryLeft(call[q], c) /\ Become(q, c) BY <2>1, <2>3, QueryLeaves
    <3>2. CASE q # p BY <1>2, <3>1, <3>2
    <3>3. CASE q = p BY <1>2, <3>1, <3>3 DEF QueryLeft
    <3>4. QED BY <3>2, <3>3
  <2>4. CASE Fail(q)
    <3> DEFINE c == [Idle EXCEPT !.op = call[q].op, !.id = call[q].id, !.ret = "error"]
    <3>1. c.pc = "idle" BY IdleIsCall DEF Call
    <3>2. Become(q, c) BY <2>4 DEF Fail, Answer
    <3> HIDE DEF c
    <3>3. QED BY <2>2, <3>1, <3>2
  <2>5. CASE Drops(q)
    <3>1. Become(q, Idle) /\ Idle.pc = "idle" BY <2>5, IdleIsCall DEF Drops
    <3>2. QED BY <2>2, <3>1
  <2>6. CASE \E i \in Ids : StartFind(q, i)
    <3>1. PICK c : c.op = "find" /\ Become(q, c) BY <2>6, StartFindLeaves
    <3>2. QED BY <2>2, <3>1
  <2>7. CASE \E i \in Ids, b \in Bodies : StartAddVersion(q, i, b)
    <3>1. PICK c : c.op = "add_version" /\ Become(q, c) BY <2>7, StartAddVersionLeaves
    <3>2. QED BY <2>2, <3>1
  <2>8. ASSUME NEW i \in Ids, NEW b \in Bodies, NEW k \in Creators, Posts(q, i, b, k)
        PROVE  call'[p] = call[p]
    <3>1. PICK c : PostLeft(c, i, b) /\ Become(q, c) BY <2>1, <2>8, PostLeaves DEF RepoInv
    <3>2. c.op = "save" BY <3>1 DEF PostLeft
    <3>3. QED BY <2>2, <3>1, <3>2
  <2>9. QED BY <1>4, <2>3, <2>4, <2>5, <2>6, <2>7, <2>8 DEF OtherStep
<1>5. ASSUME NEW q \in Procs, SealBegins(q)
      PROVE  \/ call'[p] = call[p]
             \/ q = p /\ call'[p].hash = req[p].hash
  <2>1. PICK c : c.hash = req[q].hash /\ Become(q, c)
    BY <1>5, StartTransitionLeaves DEF SealBegins, BeginSeal
  <2>2. QED BY <1>2, <2>1
<1>6. External \/ UNCHANGED apiVars => UNCHANGED vars BY DEF External, apiVars
<1>7. QED BY <1>3, <1>4, <1>5, <1>6, ArrivalsServe, HandlersServe DEF ApiNext

LEMMA StoredStep ==
  ASSUME \A b \in Bodies : b.form \in {"assets", "upload"}
  PROVE  ApiInv /\ StoredBodies /\ PendingStored /\ [ApiNext]_apiVars
           => StoredBodies' /\ PendingStored'
<1> SUFFICES ASSUME ApiInv, StoredBodies, PendingStored, [ApiNext]_apiVars
             PROVE  StoredBodies' /\ PendingStored'
  OBVIOUS
<1>1. PICK G : G = Stored OBVIOUS
<1>2. BodiesIn(G) /\ Bodies \subseteq G
  BY <1>1, BodiesAssumption DEF StoredBodies, Stored
<1>3. \A h \in Bytes : FixedKey(h) \in Keys /\ FixedKey(h).form = "fixed"
  BY DEF FixedKey, Keys, Body, Forms
<1>4. ASSUME NEW p \in Procs PROVE FossilsIn(call[p], G)
  <2> SUFFICES ASSUME call[p].op = "transition_to_fixed", call[p].pc = "creator", NEW b \in G
               PROVE  Fossil(b, call[p].hash) \in G
    BY DEF FossilsIn
  <2>1. call[p].hash \in Bytes /\ Get(FixedKey(call[p].hash)) # NoHash
    BY SealingHash DEF PendingStored
  <2>2. Fossil(b, call[p].hash) = FixedKey(call[p].hash)
    BY <1>1 DEF Fossil, FixedKey, Stored
  <2>3. QED BY <1>1, <1>3, <2>1, <2>2 DEF Stored, Keys
<1>5. BodiesIn(G)' BY <1>2, <1>4, BodiesStayIn
<1>6. \A b \in G : b \in Stored'
  <2> SUFFICES ASSUME NEW b \in G, b.form = "fixed" PROVE blob'[b] # NoHash
    BY <1>1 DEF Stored, Get
  <2>1. b \in Keys /\ b.form # "upload" /\ Get(b) # NoHash BY <1>1 DEF Stored, Keys
  <2>2. QED BY <2>1, BlobStaysFilled
<1>7. StoredBodies' BY <1>5, <1>6 DEF StoredBodies, BodiesIn, Carries
<1>8. ASSUME NEW p \in Procs, call'[p].op = "transition_to_fixed", call'[p].pc # "idle"
      PROVE  blob'[FixedKey(call'[p].hash)] # NoHash
  <2>1. CASE /\ call[p].op = "transition_to_fixed" /\ call[p].pc # "idle"
             /\ call'[p].hash = call[p].hash
    <3>1. call[p].hash \in Bytes /\ Get(FixedKey(call[p].hash)) # NoHash
      BY <2>1, SealingHash DEF PendingStored
    <3>2. QED BY <1>3, <2>1, <3>1, BlobStaysFilled
  <2>2. CASE SealBegins(p) /\ call'[p].hash = req[p].hash
    <3>1. Last(call[p].chain).body.form = "inline" /\ call[p].ret = "found" => FALSE
      BY <1>1, <1>2, FoundIsCarried DEF Stored
    <3>2. StoreFixed(p) /\ req[p].hash \in Bytes BY <2>2, <3>1 DEF SealBegins
    <3>3. req[p].bytes \in Bytes
      BY <3>2, WhatIsLearned DEF StoreFixed, Serving, RequestOK
    <3>4. FixedKey(req[p].hash) \in Keys /\ blob \in [Keys -> Hashes]
      BY <1>3, <3>2 DEF ApiInv, BlobTypeOK
    <3>5. blob'[FixedKey(req[p].hash)] # NoHash
      BY <3>2, <3>3, <3>4, HashAssumption DEF StoreFixed, PutIfAbsent, Put, Get
    <3>6. QED BY <2>2, <3>5
  <2>3. QED BY <1>8, <2>1, <2>2, PendingFrom
<1>9. PendingStored' BY <1>8 DEF PendingStored, Get
<1>10. QED BY <1>7, <1>9

LEMMA StoredInitially == ApiInit => StoredBodies /\ PendingStored
<1> SUFFICES ASSUME ApiInit PROVE StoredBodies /\ PendingStored
  OBVIOUS
<1>1. version = {} /\ \A p \in Procs : call[p] = Idle
  BY DEF ApiInit, Init, RepoInit, TablesInit
<1>2. Carries(Idle, Stored) /\ Idle.pc = "idle" BY IdleShowsNothing DEF Carries
<1>3. QED BY <1>1, <1>2 DEF StoredBodies, BodiesIn, PendingStored

(* fix: where the bodies that clients submit are keys that are not yet     *)
(* under /fixed, a version that was migrated to /fixed/<hash> finds a      *)
(* payload there, whichever attempts died between copy and transaction.    *)
THEOREM FossilsHavePayloads ==
  ASSUME \A b \in Bodies : b.form \in {"assets", "upload"}
  PROVE  ApiSpec => []FossilsAreStored
<1>1. ApiInv /\ StoredBodies /\ PendingStored /\ [ApiNext]_apiVars
        => StoredBodies' /\ PendingStored'
  BY StoredStep
<1>2. StoredBodies => FossilsAreStored
  BY DEF StoredBodies, BodiesIn, Stored, FossilsAreStored
<1>3. QED BY <1>1, <1>2, ApiInvAlways, StoredInitially, PTL DEF ApiSpec
=============================================================================
