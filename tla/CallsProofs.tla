---------------------------- MODULE CallsProofs ----------------------------
(***************************************************************************)
(* Proofs about Repository: what the calls that are under way carry.       *)
(*                                                                         *)
(* First, with deletes: a version shows one content, of one record,        *)
(* wherever it is; a stored version is not lost; and what add_version and  *)
(* save_snapshot are about to write collides with nothing.                 *)
(* A version travels: from a record value into the rows of a pending save, *)
(* from there into the table, from the table into the chain that a read or *)
(* a transition has in its locals, and back into the table as the rewrite  *)
(* of a trailing body, by which time the table may have changed.  Shown    *)
(* follows it through all of them.  The invariant OneBody says that an id  *)
(* that is shown anywhere was minted, and that any two of the places that  *)
(* show it are of one record and agree up to the migration of a key;       *)
(* OwnRows says that an id minted for rows that are still to be written is *)
(* shown nowhere else.  Both are inductive because of how a call moves     *)
(* (Moves): it shows only what it, the table or a record value showed      *)
(* before, migrated or not, and ids that it mints itself.                  *)
(*                                                                         *)
(* Then, where no caller deletes: what a find, a list and a transition     *)
(* tell their callers is whole and stays true, although each is several    *)
(* queries with other calls between them.                                  *)
(* Without delete the tables only grow (Grown): records stay, Fixed ones   *)
(* stay Fixed, versions keep their id and owner, and a body that is inline *)
(* or under /fixed stays so.  What a suspended call has learned from the   *)
(* tables (Knows) is therefore still true at its next query, and that is   *)
(* the inductive invariant.  Knows takes the tables as parameters, so that *)
(* it can be asked of the tables before and after a step.                  *)
(***************************************************************************)
EXTENDS RepositoryProofs

-----------------------------------------------------------------------------
(* What a version shows, wherever it is.                                   *)

(* A version, with its body and its record, as some place shows it.        *)
Item == [vid : Vids, body : Body, rid : Ids]

(* The row w shows the item x.                                             *)
Of(w, x) == w.vid = x.vid /\ w.body = x.body /\ w.rid = x.rid

(* What is in some chain or row.                                           *)
HeldShown ==
  {x \in Item : \E h \in Ids :
     /\ held[h].id = x.rid
     /\ \E j \in DOMAIN held[h].chain :
          held[h].chain[j].vid = x.vid /\ held[h].chain[j].body = x.body}

TableShown == {x \in Item : \E w \in version : Of(w, x)}

CallShown(c) ==
  {x \in Item : \/ \E w \in c.rows : Of(w, x)
                \/ \E j \in DOMAIN c.chain : Of(c.chain[j], x)}

Shown == {x \in Item : \/ x \in HeldShown \/ x \in TableShown
                       \/ \E p \in Procs : x \in CallShown(call[p])}

OneBody ==
  \A x \in Shown :
    /\ x.vid < nextVid
    /\ \A y \in Shown : x.vid = y.vid => SameVersion(x.body, y.body) /\ x.rid = y.rid

(* A call that is about to write rows whose ids were minted for them.      *)
Minting(c) == c.pc = "append" \/ (c.pc = "create" /\ c.op = "save_snapshot")

ShownBesides(p) ==
  {x \in Item : \/ x \in HeldShown \/ x \in TableShown
                \/ \E q \in Procs \ {p} : x \in CallShown(call[q])}

OwnRows ==
  \A p \in Procs : Minting(call[p]) =>
    \A w \in call[p].rows, x \in ShownBesides(p) : w.vid # x.vid

(* x shows what one of S showed, its key migrated or not.                  *)
Inherited(S, x) == \E y \in S : Descends(x, y) /\ x.rid = y.rid

(* The ids that a step mints, and what it mints them for.                  *)
Minted == nextVid .. nextVid' - 1
Fresh(for, x) == /\ x.vid \in Minted
                 /\ x.body = for[x.vid].body /\ x.rid = for[x.vid].rid

(* What the next step of p can show.                                       *)
Sources(p) == HeldShown \cup TableShown \cup CallShown(call[p])

(* A step of p, minting what "for" says.                                   *)
Moves(p, for) ==
  /\ nextVid' \in Nat /\ nextVid <= nextVid'
  /\ \A q \in Procs \ {p} : call'[q] = call[q]
  /\ \A x \in HeldShown' : Inherited(HeldShown, x) \/ Fresh(for, x)
  /\ \A x \in TableShown' : Inherited(Sources(p), x)
  /\ \A x \in CallShown(call'[p]) : Inherited(Sources(p), x) \/ Fresh(for, x)
  /\ Minting(call'[p]) => /\ HeldShown' = HeldShown
                          /\ \A w \in call'[p].rows : w.vid \in Minted

Moved(p) == \E for : Moves(p, for)

-----------------------------------------------------------------------------
(* The argument, apart from the steps.                                     *)

LEMMA InheritedFromItself ==
  ASSUME NEW S, NEW x \in S
  PROVE  Inherited(S, x)
BY DEF Inherited, Descends

LEMMA InheritedFromMore ==
  ASSUME NEW S, NEW T, S \subseteq T, NEW x, Inherited(S, x)
  PROVE  Inherited(T, x)
BY DEF Inherited

LEMMA InheritanceKeepsOneBody ==
  ASSUME OneBody, nextVid \in Nat, nextVid' \in Nat, nextVid <= nextVid', NEW for,
         \A x \in Shown' : Inherited(Shown, x) \/ Fresh(for, x)
  PROVE  OneBody'
<1> SUFFICES ASSUME NEW x \in Shown'
             PROVE  /\ x.vid < nextVid'
                    /\ \A y \in Shown' : x.vid = y.vid =>
                         SameVersion(x.body, y.body) /\ x.rid = y.rid
  BY DEF OneBody
<1>1. \A y \in Shown' : y.vid \in Nat BY VidAssumption DEF Shown, Item, Vids
<1>2. \A y : Inherited(Shown, y) => y.vid < nextVid
  BY DEF Inherited, Descends, OneBody
<1>3. CASE Fresh(for, x)
  <2>1. x.vid < nextVid' /\ ~ (x.vid < nextVid) BY <1>1, <1>3 DEF Minted, Fresh
  <2>2. ASSUME NEW y \in Shown', x.vid = y.vid PROVE x.body = y.body /\ x.rid = y.rid
    <3>1. ~ Inherited(Shown, y) BY <1>2, <2>1, <2>2
    <3>2. QED BY <1>3, <2>2, <3>1 DEF Fresh
  <2>3. QED BY <2>1, <2>2 DEF SameVersion
<1>4. CASE Inherited(Shown, x)
  <2>1. PICK x0 \in Shown : Descends(x, x0) /\ x.rid = x0.rid BY <1>4 DEF Inherited
  <2>2. x.vid < nextVid BY <1>2, <1>4
  <2>3. ASSUME NEW y \in Shown', x.vid = y.vid
        PROVE  SameVersion(x.body, y.body) /\ x.rid = y.rid
    <3>1. Inherited(Shown, y) BY <1>1, <2>2, <2>3 DEF Minted, Fresh
    <3>2. PICK y0 \in Shown : Descends(y, y0) /\ y.rid = y0.rid BY <3>1 DEF Inherited
    <3>3. x0.vid = y0.vid BY <2>1, <2>3, <3>2 DEF Descends
    <3>4. SameVersion(x0.body, y0.body) /\ x0.rid = y0.rid BY <3>3 DEF OneBody
    <3>5. SameVersion(x.body, y.body) BY <2>1, <3>2, <3>4, DescentKeepsSameVersion
    <3>6. QED BY <2>1, <3>2, <3>4, <3>5
  <2>4. QED BY <1>1, <2>2, <2>3
<1>5. QED BY <1>3, <1>4

LEMMA ShownInParts ==
  /\ HeldShown \subseteq Shown /\ TableShown \subseteq Shown
  /\ \A p \in Procs : CallShown(call[p]) \subseteq Shown
  /\ \A p \in Procs : Sources(p) \subseteq Shown
  /\ \A p, q \in Procs : q # p => Sources(q) \subseteq ShownBesides(p)
  /\ \A p \in Procs : HeldShown \subseteq ShownBesides(p) /\ ShownBesides(p) \subseteq Shown
BY DEF Shown, HeldShown, TableShown, CallShown, Sources, ShownBesides

LEMMA MovesKeepOneBody ==
  ASSUME OneBody, nextVid \in Nat, NEW p \in Procs, Moved(p)
  PROVE  OneBody'
<1>1. PICK for : Moves(p, for) BY DEF Moved
<1>2. ASSUME NEW x \in Shown' PROVE Inherited(Shown, x) \/ Fresh(for, x)
  <2>1. CASE x \in HeldShown'
    BY <1>1, <2>1, ShownInParts, InheritedFromMore DEF Moves
  <2>2. CASE x \in TableShown'
    BY <1>1, <2>2, ShownInParts, InheritedFromMore DEF Moves
  <2>3. CASE x \in CallShown(call'[p])
    BY <1>1, <2>3, ShownInParts, InheritedFromMore DEF Moves
  <2>4. ASSUME NEW q \in Procs \ {p}, x \in CallShown(call'[q]) PROVE Inherited(Shown, x)
    <3>1. x \in CallShown(call[q]) BY <1>1, <2>4 DEF Moves
    <3>2. QED BY <3>1, ShownInParts, InheritedFromItself
  <2>5. x \in HeldShown' \/ x \in TableShown' \/ \E q \in Procs : x \in CallShown(call'[q])
    BY DEF Shown, CallShown
  <2>6. QED BY <2>1, <2>2, <2>3, <2>4, <2>5
<1>3. QED BY <1>1, <1>2, InheritanceKeepsOneBody DEF Moves

(* Where rows are, their versions are shown.                               *)
LEMMA RowsAreShown ==
  ASSUME Inv, NEW p \in Procs, NEW w,
         \/ w \in version
         \/ w \in call[p].rows
         \/ \E j \in DOMAIN call[p].chain : w = call[p].chain[j]
  PROVE  w \in VersionRow /\ \E x \in Sources(p) : Of(w, x)
<1> DEFINE x == [vid |-> w.vid, body |-> w.body, rid |-> w.rid]
<1>1. call[p].rows \subseteq VersionRow /\ call[p].chain \in Seq(VersionRow)
  BY DEF Inv, RepoOK, CallsOK, Call
<1>2. \A j \in DOMAIN call[p].chain : call[p].chain[j] \in VersionRow BY <1>1
<1>3. w \in VersionRow BY <1>1, <1>2 DEF Inv, RepoOK, TablesOK, TablesTypeOK
<1>4. x \in Item /\ Of(w, x) BY <1>3 DEF VersionRow, Item, Of
<1>5. x \in TableShown \/ x \in CallShown(call[p])
  BY <1>4 DEF TableShown, CallShown
<1>6. QED BY <1>3, <1>4, <1>5 DEF Sources

(* The rows of the table are shown, whoever looks.                         *)
LEMMA TableRowsAreShown ==
  ASSUME Inv, NEW w \in version
  PROVE  w \in VersionRow /\ \E x \in TableShown : Of(w, x)
<1> DEFINE x == [vid |-> w.vid, body |-> w.body, rid |-> w.rid]
<1>1. w \in VersionRow BY DEF Inv, RepoOK, TablesOK, TablesTypeOK
<1>2. x \in Item /\ Of(w, x) BY <1>1 DEF VersionRow, Item, Of
<1>3. QED BY <1>1, <1>2 DEF TableShown

(* So are the versions of a record value.                                  *)
LEMMA HeldRingsAreShown ==
  ASSUME Inv, NEW h \in Ids, NEW j \in DOMAIN held[h].chain
  PROVE  /\ held[h].chain[j] \in Version
         /\ \E x \in HeldShown : /\ x.vid = held[h].chain[j].vid /\ x.rid = held[h].id
                                 /\ x.body = held[h].chain[j].body
<1> DEFINE v == held[h].chain[j]
           x == [vid |-> v.vid, body |-> v.body, rid |-> held[h].id]
<1>1. held[h] \in Record BY DEF Inv, HeldOK, CoreTypeOK
<1>2. v \in Version /\ held[h].id \in Ids BY <1>1, RingsAreVersions DEF Inv, Record
<1>3. x \in Item BY <1>2 DEF Version, Item
<1>4. x \in HeldShown BY <1>3 DEF HeldShown
<1>5. QED BY <1>2, <1>4

LEMMA MovesKeepOwnRows ==
  ASSUME Inv, OneBody, OwnRows, NEW p \in Procs, Moved(p)
  PROVE  OwnRows'
<1>1. PICK for : Moves(p, for) BY DEF Moved
<1>2. nextVid \in Nat /\ nextVid' \in Nat BY <1>1, VidAssumption DEF Inv, HeldOK, CoreTypeOK, Moves
<1>3. ASSUME NEW x \in HeldShown' \cup TableShown', Minting(call'[p])
      PROVE  x.vid < nextVid
  <2>1. \E y \in Shown : Descends(x, y)
    BY <1>1, <1>3, ShownInParts, InheritedFromItself DEF Moves, Inherited
  <2>2. QED BY <2>1 DEF Descends, OneBody
<1>4. ASSUME NEW q \in Procs \ {p}, NEW x \in CallShown(call'[q])
      PROVE  x \in CallShown(call[q]) /\ x.vid < nextVid
  <2>1. x \in CallShown(call[q]) BY <1>1, <1>4 DEF Moves
  <2>2. QED BY <2>1, ShownInParts DEF OneBody
<1>5. ASSUME NEW w \in call'[p].rows, NEW x \in ShownBesides(p)', Minting(call'[p])
      PROVE  w.vid # x.vid
  <2>1. w.vid \in Minted BY <1>1, <1>5 DEF Moves
  <2>2. x \in HeldShown' \cup TableShown' \/ \E q \in Procs \ {p} : x \in CallShown(call'[q])
    BY <1>5 DEF ShownBesides, CallShown
  <2>3. x.vid < nextVid BY <1>3, <1>4, <1>5, <2>2
  <2>4. x.vid \in Nat BY <1>5, VidAssumption DEF ShownBesides, Item, Vids
  <2>5. QED BY <1>2, <2>1, <2>3, <2>4 DEF Minted
<1>6. ASSUME NEW q \in Procs \ {p}, Minting(call'[q]), NEW w \in call'[q].rows,
             NEW x \in ShownBesides(q)'
      PROVE  w.vid # x.vid
  <2>1. call'[q] = call[q] BY <1>1, <1>6 DEF Moves
  <2>2. \A y \in ShownBesides(q) : w.vid # y.vid BY <1>6, <2>1 DEF OwnRows
  <2>3. w.vid < nextVid /\ w.vid \in Nat
    <3>1. w \in VersionRow /\ \E y \in Sources(q) : Of(w, y) BY <1>6, <2>1, RowsAreShown
    <3>2. w.vid \in Nat BY <3>1, VidAssumption DEF VersionRow, Vids
    <3>3. QED BY <3>1, <3>2, ShownInParts DEF Of, OneBody
  <2>4. CASE Fresh(for, x) BY <1>2, <2>3, <2>4 DEF Fresh, Minted
  <2>5. CASE Inherited(ShownBesides(q), x) BY <2>2, <2>5 DEF Inherited, Descends
  <2>6. Fresh(for, x) \/ Inherited(ShownBesides(q), x)
    <3>1. CASE x \in HeldShown' BY <1>1, <1>6, <3>1, ShownInParts, InheritedFromMore DEF Moves
    <3>2. CASE x \in TableShown' BY <1>1, <1>6, <3>2, ShownInParts, InheritedFromMore DEF Moves
    <3>3. CASE x \in CallShown(call'[p])
      BY <1>1, <1>6, <3>3, ShownInParts, InheritedFromMore DEF Moves
    <3>4. ASSUME NEW r \in Procs \ {p, q}, x \in CallShown(call'[r])
          PROVE  Inherited(ShownBesides(q), x)
      <4>1. x \in CallShown(call[r]) BY <1>1, <3>4 DEF Moves
      <4>2. x \in ShownBesides(q) BY <4>1 DEF ShownBesides, CallShown
      <4>3. QED BY <4>2, InheritedFromItself
    <3>5. \/ x \in HeldShown' \/ x \in TableShown'
          \/ \E r \in Procs \ {q} : x \in CallShown(call'[r])
      BY <1>6 DEF ShownBesides, CallShown
    <3>6. QED BY <3>1, <3>2, <3>3, <3>4, <3>5
  <2>7. QED BY <2>4, <2>5, <2>6
<1>7. QED BY <1>5, <1>6 DEF OwnRows

-----------------------------------------------------------------------------
(* How a step moves.                                                       *)

(* A step that changes no held record; what its future shows it has seen,  *)
(* or minted.                                                              *)
LEMMA CallMove ==
  ASSUME Inv, UNCHANGED held, nextVid' \in Nat, nextVid <= nextVid', NEW for,
         NEW p \in Procs, NEW c, Become(p, c),
         \A x \in TableShown' : Inherited(Sources(p), x),
         \A x \in CallShown(c) : Inherited(Sources(p), x) \/ Fresh(for, x),
         Minting(c) => \A w \in c.rows : w.vid \in Minted
  PROVE  Moved(p)
<1>1. call'[p] = c /\ \A q \in Procs \ {p} : call'[q] = call[q]
  BY DEF Become, Inv, RepoOK, CallsOK
<1>2. HeldShown' = HeldShown BY DEF HeldShown
<1>3. \A x \in HeldShown' : Inherited(HeldShown, x) BY <1>2, InheritedFromItself
<1>4. Moves(p, for) BY <1>1, <1>2, <1>3 DEF Moves
<1>5. QED BY <1>4 DEF Moved

(* A step that mints nothing.                                              *)
LEMMA QuietMove ==
  ASSUME Inv, UNCHANGED <<held, nextVid>>, NEW p \in Procs, NEW c, Become(p, c),
         ~ Minting(c),
         \A x \in TableShown' : Inherited(Sources(p), x),
         \A x \in CallShown(c) : Inherited(Sources(p), x)
  PROVE  Moved(p)
<1>1. nextVid' \in Nat /\ nextVid <= nextVid'
  BY VidAssumption DEF Inv, HeldOK, CoreTypeOK
<1>2. \A for : Moved(p) BY <1>1, CallMove
<1>3. QED BY <1>2

(* The table shows nothing that was not there for p to see.                *)
LEMMA TableInherits ==
  ASSUME NEW p \in Procs, \A w \in version' : \E y \in Sources(p) : Of(w, y)
  PROVE  \A x \in TableShown' : Inherited(Sources(p), x)
BY DEF TableShown, Of, Inherited, Descends

LEMMA SameTableInherits ==
  ASSUME Inv, UNCHANGED version, NEW p \in Procs
  PROVE  \A x \in TableShown' : Inherited(Sources(p), x)
BY RowsAreShown, TableInherits

(* A call whose future holds no more rows and versions than before.        *)
LEMMA NothingNewToShow ==
  ASSUME NEW p \in Procs, NEW c,
         c.rows = {} \/ c.rows = call[p].rows,
         c.chain = <<>> \/ c.chain = call[p].chain
  PROVE  \A x \in CallShown(c) : Inherited(Sources(p), x)
<1> SUFFICES ASSUME NEW x \in CallShown(c) PROVE Inherited(Sources(p), x) OBVIOUS
<1>1. x \in CallShown(call[p]) BY DEF CallShown
<1>2. QED BY <1>1, InheritedFromItself DEF Sources

LEMMA IdleShowsNothing == Idle.rows = {} /\ Idle.chain = <<>> /\ Idle.pc = "idle"
BY DEF Idle

LEMMA AnswerMoves ==
  ASSUME Inv, UNCHANGED <<held, nextVid>>, NEW p \in Procs, NEW ret, Answer(p, ret),
         \A x \in TableShown' : Inherited(Sources(p), x)
  PROVE  Moved(p)
<1> DEFINE c == [Idle EXCEPT !.op = call[p].op, !.id = call[p].id, !.ret = ret]
<1>1. c.rows = {} /\ c.chain = <<>> /\ c.pc = "idle"
  BY IdleIsCall, IdleShowsNothing DEF Call
<1> HIDE DEF c
<1>2. \A x \in CallShown(c) : Inherited(Sources(p), x) BY <1>1, NothingNewToShow
<1>3. ~ Minting(c) BY <1>1 DEF Minting
<1>4. QED BY <1>2, <1>3, QuietMove DEF Answer, c

LEMMA NextListedMoves ==
  ASSUME Inv, UNCHANGED <<held, nextVid, version>>, NEW p \in Procs,
         NEW todo, NEW out, NextListed(p, todo, out)
  PROVE  Moved(p)
<1>1. call[p] \in Call BY DEF Inv, RepoOK, CallsOK
<1>2. ASSUME NEW c, Become(p, c), c.rows = {} \/ c.rows = call[p].rows, c.chain = <<>>,
             c.pc \in {"idle", "row"}
      PROVE  Moved(p)
  <2>1. \A x \in CallShown(c) : Inherited(Sources(p), x) BY <1>2, NothingNewToShow
  <2>2. ~ Minting(c) BY <1>2 DEF Minting
  <2>3. QED BY <1>2, <2>1, <2>2, QuietMove, SameTableInherits
<1>3. CASE Become(p, [Idle EXCEPT !.op = call[p].op, !.creator = call[p].creator,
                                  !.out = out, !.ret = "listed"])
  <2> DEFINE c == [Idle EXCEPT !.op = call[p].op, !.creator = call[p].creator,
                               !.out = out, !.ret = "listed"]
  <2>1. c.rows = {} /\ c.chain = <<>> /\ c.pc = "idle"
    BY IdleIsCall, IdleShowsNothing DEF Call
  <2> HIDE DEF c
  <2>2. QED BY <1>2, <1>3, <2>1 DEF c
<1>4. ASSUME NEW i \in todo,
             Become(p, [call[p] EXCEPT !.pc = "row", !.id = i, !.todo = todo \ {i},
                                       !.out = out, !.row = NoRow, !.chain = <<>>])
      PROVE  Moved(p)
  <2> DEFINE c == [call[p] EXCEPT !.pc = "row", !.id = i, !.todo = todo \ {i},
                                  !.out = out, !.row = NoRow, !.chain = <<>>]
  <2>1. c.rows = call[p].rows /\ c.chain = <<>> /\ c.pc = "row" BY <1>1 DEF Call
  <2> HIDE DEF c
  <2>2. QED BY <1>2, <1>4, <2>1 DEF c
<1>5. QED BY <1>3, <1>4 DEF NextListed

-----------------------------------------------------------------------------
(* The reads.                                                              *)

LEMMA ReadsMove ==
  ASSUME Inv, UNCHANGED <<held, nextVid>>, NEW p \in Procs,
         ReadEdges(p) \/ ReadRow(p) \/ CheckExists(p)
  PROVE  Moved(p)
<1>1. UNCHANGED version BY DEF ReadEdges, ReadRow, CheckExists, tableVars
<1>2. call[p] \in Call BY DEF Inv, RepoOK, CallsOK
<1>3. \A x \in TableShown' : Inherited(Sources(p), x) BY <1>1, SameTableInherits
<1>4. CASE ReadEdges(p) BY <1>1, <1>4, NextListedMoves DEF ReadEdges
<1>5. ASSUME NEW c, Become(p, c), c.rows = call[p].rows, c.chain = call[p].chain, ~ Minting(c)
      PROVE  Moved(p)
  <2>1. \A x \in CallShown(c) : Inherited(Sources(p), x) BY <1>5, NothingNewToShow
  <2>2. QED BY <1>3, <1>5, <2>1, QuietMove
<1>6. CASE ReadRow(p)
  <2>1. CASE Answer(p, "missing") \/ Answer(p, "empty") BY <1>3, <2>1, AnswerMoves
  <2>2. CASE NextListed(p, call[p].todo, call[p].out)
    BY <1>1, <2>2, NextListedMoves
  <2>3. CASE Become(p, [call[p] EXCEPT !.pc = "versions", !.row = record[call[p].id]])
    <3> DEFINE c == [call[p] EXCEPT !.pc = "versions", !.row = record[call[p].id]]
    <3>1. c.rows = call[p].rows /\ c.chain = call[p].chain /\ c.pc = "versions"
      BY <1>2 DEF Call
    <3> HIDE DEF c
    <3>2. ~ Minting(c) BY <3>1 DEF Minting
    <3>3. QED BY <1>5, <2>3, <3>1, <3>2 DEF c
  <2>4. QED BY <1>6, <2>1, <2>2, <2>3 DEF ReadRow
<1>7. CASE CheckExists(p)
  <2>1. CASE Answer(p, "exists") \/ Answer(p, "missing") BY <1>3, <2>1, AnswerMoves
  <2>2. ASSUME NEW pc \in {"create", "cascade"}, call[p].op \in {"save", "delete"},
               Become(p, [call[p] EXCEPT !.pc = pc])
        PROVE  Moved(p)
    <3> DEFINE c == [call[p] EXCEPT !.pc = pc]
    <3>1. /\ c.rows = call[p].rows /\ c.chain = call[p].chain /\ c.pc = pc
          /\ c.op = call[p].op
      BY <1>2 DEF Call
    <3> HIDE DEF c
    <3>2. ~ Minting(c) BY <2>2, <3>1 DEF Minting
    <3>3. QED BY <1>5, <2>2, <3>1, <3>2 DEF c
  <2>3. QED BY <1>7, <2>1, <2>2 DEF CheckExists
<1>8. QED BY <1>4, <1>6, <1>7

LEMMA ReadVersionsMoves ==
  ASSUME Inv, UNCHANGED <<held, nextVid>>, NEW p \in Procs, ReadVersions(p)
  PROVE  Moved(p)
<1>1. call[p] \in Call BY DEF Inv, RepoOK, CallsOK
<1>2. PICK s \in OrderedReads(call[p].id) :
        Become(p, [call[p] EXCEPT !.pc = "creator", !.chain = s])
  BY DEF ReadVersions
<1> DEFINE c == [call[p] EXCEPT !.pc = "creator", !.chain = s]
<1>3. c.rows = call[p].rows /\ c.chain = s /\ c.pc = "creator" BY <1>1 DEF Call
<1>4. \A j \in DOMAIN s : s[j] \in version BY DEF OrderedReads, VersionsOf
<1> HIDE DEF c
<1>5. ASSUME NEW x \in CallShown(c) PROVE Inherited(Sources(p), x)
  <2>1. PICK w : Of(w, x) /\ (w \in version \/ w \in call[p].rows)
    BY <1>3, <1>4, <1>5 DEF CallShown
  <2>2. PICK y \in Sources(p) : Of(w, y) BY <2>1, RowsAreShown
  <2>3. QED BY <2>1, <2>2 DEF Of, Inherited, Descends
<1>6. UNCHANGED version BY DEF ReadVersions, tableVars
<1>7. ~ Minting(c) BY <1>3 DEF Minting
<1>8. QED BY <1>2, <1>5, <1>6, <1>7, SameTableInherits, QuietMove DEF c

(* The rewrite of a trailing body migrates the key of a version that was   *)
(* read.                                                                   *)
LEMMA PrepareSealMoves ==
  ASSUME Inv, UNCHANGED <<held, nextVid, version>>, NEW p \in Procs,
         call[p].chain # <<>>, PrepareSeal(p)
  PROVE  Moved(p)
<1> DEFINE n == Len(call[p].chain)
           last == call[p].chain[n]
           row == [last EXCEPT !.body = Fossil(@, call[p].hash)]
<1>1. call[p] \in Call /\ call[p].chain \in Seq(VersionRow) BY DEF Inv, RepoOK, CallsOK, Call
<1>2. n \in DOMAIN call[p].chain /\ last \in VersionRow BY <1>1
<1>3. PICK y \in Sources(p) : Of(last, y) BY <1>2, RowsAreShown
<1>4. ASSUME NEW x, Of(row, x) PROVE Inherited(Sources(p), x)
  <2>1. x.vid = y.vid /\ x.body = Fossil(y.body, call[p].hash) /\ x.rid = y.rid
    BY <1>2, <1>3, <1>4 DEF Of, VersionRow
  <2>2. Descends(x, y) BY <2>1 DEF Descends, Fossil
  <2>3. QED BY <2>1, <2>2 DEF Inherited
<1> HIDE DEF n, last, row
<1>5. CASE Answer(p, "fixed") BY <1>5, AnswerMoves, SameTableInherits
<1>6. ASSUME NEW r,
             Become(p, [call[p] EXCEPT !.pc = "seal", !.row = r, !.rows = {row}])
      PROVE  Moved(p)
  <2> DEFINE c == [call[p] EXCEPT !.pc = "seal", !.row = r, !.rows = {row}]
  <2>1. c.rows = {row} /\ c.chain = call[p].chain /\ c.pc = "seal" BY <1>1 DEF Call
  <2> HIDE DEF c
  <2>2. ASSUME NEW x \in CallShown(c) PROVE Inherited(Sources(p), x)
    <3>1. CASE Of(row, x) BY <1>4, <3>1
    <3>2. CASE ~ Of(row, x)
      <4>1. x \in CallShown(call[p]) BY <2>1, <2>2, <3>2 DEF CallShown
      <4>2. QED BY <4>1, InheritedFromItself DEF Sources
    <3>3. QED BY <3>1, <3>2
  <2>3. ~ Minting(c) BY <2>1 DEF Minting
  <2>4. QED BY <1>6, <2>2, <2>3, QuietMove, SameTableInherits DEF c
<1>7. QED BY <1>5, <1>6 DEF PrepareSeal, n, last, row

LEMMA ReadCreatorMoves ==
  ASSUME Inv, UNCHANGED <<held, nextVid>>, NEW p \in Procs, ReadCreator(p)
  PROVE  Moved(p)
<1> DEFINE c == call[p]
           result == IF EdgesTo(c.id) = {} THEN "no_creator"
                     ELSE Assembled(c.row, c.chain)
<1>1. UNCHANGED version BY DEF ReadCreator, tableVars
<1>2. c \in Call BY DEF Inv, RepoOK, CallsOK
<1>3. CASE Answer(p, result) BY <1>1, <1>3, AnswerMoves, SameTableInherits
<1>4. CASE Become(p, [c EXCEPT !.pc = "idle", !.ret = "found"])
  <2> DEFINE d == [c EXCEPT !.pc = "idle", !.ret = "found"]
  <2>1. d.rows = c.rows /\ d.chain = c.chain /\ d.pc = "idle" BY <1>2 DEF Call
  <2> HIDE DEF d
  <2>2. \A x \in CallShown(d) : Inherited(Sources(p), x) BY <2>1, NothingNewToShow
  <2>3. ~ Minting(d) BY <2>1 DEF Minting
  <2>4. QED BY <1>1, <1>4, <2>2, <2>3, QuietMove, SameTableInherits DEF d
<1>5. CASE NextListed(p, c.todo, c.out \cup {c.id}) BY <1>1, <1>5, NextListedMoves
<1>6. CASE result = "found" /\ PrepareSeal(p)
  <2>1. Assembled(c.row, c.chain) = "found" BY <1>6
  <2>2. c.chain # <<>> BY <2>1, FoundHasChain
  <2>3. QED BY <1>1, <1>6, <2>2, PrepareSealMoves
<1>7. QED BY <1>3, <1>4, <1>5, <1>6 DEF ReadCreator

-----------------------------------------------------------------------------
(* The writes.                                                             *)

LEMMA CommitsMove ==
  ASSUME Inv, OneBody, UNCHANGED <<held, nextVid>>, NEW p \in Procs,
         CommitRelate(p) \/ CommitAppend(p) \/ CommitSeal(p) \/ CommitDelete(p)
  PROVE  Moved(p)
<1>1. \A w \in version' : \E y \in Sources(p) : Of(w, y)
  <2>1. ASSUME NEW w, w \in version \/ w \in call[p].rows PROVE \E y \in Sources(p) : Of(w, y)
    BY <2>1, RowsAreShown
  <2>2. CASE CommitRelate(p) BY <2>1, <2>2 DEF CommitRelate, RelateSnapshot
  <2>3. CASE CommitAppend(p) BY <2>1, <2>3 DEF CommitAppend, AppendVersion
  <2>4. CASE CommitDelete(p) BY <2>1, <2>4 DEF CommitDelete, DeleteCascade
  <2>5. CASE CommitSeal(p)
    <3>1. PICK v \in call[p].rows :
            SealRecord(call[p].id, call[p].row.hash, call[p].row.updated, v.vid, v.body)
      BY <2>5 DEF CommitSeal
    <3>2. ASSUME NEW w \in version, w.vid = v.vid
          PROVE  \E y \in Sources(p) : Of([w EXCEPT !.body = v.body], y)
      <4>1. w \in VersionRow BY TableRowsAreShown
      <4>2. PICK y \in Sources(p) : Of(v, y) BY <2>1
      <4>3. PICK z \in Sources(p) : Of(w, z) BY <2>1
      <4>4. y \in Shown /\ z \in Shown BY ShownInParts
      <4>5. y.rid = z.rid BY <3>2, <4>2, <4>3, <4>4 DEF Of, OneBody
      <4>6. QED BY <3>2, <4>1, <4>2, <4>3, <4>5 DEF Of, VersionRow
    <3>3. QED BY <2>1, <3>1, <3>2 DEF SealRecord
  <2>6. QED BY <2>2, <2>3, <2>4, <2>5
<1>2. \E ret : Answer(p, ret) BY DEF CommitRelate, CommitAppend, CommitSeal, CommitDelete
<1>3. QED BY <1>1, <1>2, TableInherits, AnswerMoves

LEMMA CommitCreateMoves ==
  ASSUME Inv, UNCHANGED <<held, nextVid>>, NEW p \in Procs, CommitCreate(p)
  PROVE  Moved(p)
<1>1. call[p] \in Call BY DEF Inv, RepoOK, CallsOK
<1>2. version' \subseteq version \cup call[p].rows
  BY DEF CommitCreate, Create, tableVars
<1>3. \A w \in version' : \E y \in Sources(p) : Of(w, y) BY <1>2, RowsAreShown
<1>4. \A x \in TableShown' : Inherited(Sources(p), x) BY <1>3, TableInherits
<1>5. CASE \E ret : Answer(p, ret) BY <1>4, <1>5, AnswerMoves
<1>6. CASE Become(p, [call[p] EXCEPT !.pc = "relate"])
  <2> DEFINE c == [call[p] EXCEPT !.pc = "relate"]
  <2>1. c.rows = call[p].rows /\ c.chain = call[p].chain /\ c.pc = "relate" BY <1>1 DEF Call
  <2> HIDE DEF c
  <2>2. \A x \in CallShown(c) : Inherited(Sources(p), x) BY <2>1, NothingNewToShow
  <2>3. ~ Minting(c) BY <2>1 DEF Minting
  <2>4. QED BY <1>4, <1>6, <2>2, <2>3, QuietMove DEF c
<1>7. QED BY <1>5, <1>6 DEF CommitCreate

LEMMA FailMoves ==
  ASSUME Inv, NEW p \in Procs, Fail(p)
  PROVE  Moved(p)
<1>1. UNCHANGED <<held, nextVid, version>> /\ Answer(p, "error") BY DEF Fail, tableVars
<1>2. QED BY <1>1, AnswerMoves, SameTableInherits

-----------------------------------------------------------------------------
(* The beginnings of calls.                                                *)

LEMMA PlainStartMoves ==
  ASSUME Inv, UNCHANGED <<held, nextVid>>, NEW p \in Procs,
         \/ \E i \in Ids : \/ StartFind(p, i) \/ StartDelete(p, i)
                           \/ \E x \in Bytes : StartTransition(p, i, x)
         \/ \E by \in Creators : StartList(p, by)
  PROVE  Moved(p)
<1>1. UNCHANGED version
  BY DEF StartFind, StartDelete, StartTransition, StartList, tableVars
<1>2. ASSUME NEW c, Become(p, c), c.rows = {}, c.chain = <<>>, c.pc \in {"row", "exists", "edges"},
             c.op # "save_snapshot"
      PROVE  Moved(p)
  <2>1. \A x \in CallShown(c) : Inherited(Sources(p), x) BY <1>2, NothingNewToShow
  <2>2. ~ Minting(c) BY <1>2 DEF Minting
  <2>3. QED BY <1>1, <1>2, <2>1, <2>2, QuietMove, SameTableInherits
<1>3. ASSUME NEW i, NEW pc \in {"row", "exists"}, NEW op \in {"find", "delete"},
             Become(p, [[Idle EXCEPT !.pc = pc, !.id = i] EXCEPT !.op = op])
      PROVE  Moved(p)
  <2> DEFINE c == [[Idle EXCEPT !.pc = pc, !.id = i] EXCEPT !.op = op]
  <2>1. c.rows = {} /\ c.chain = <<>> /\ c.pc = pc /\ c.op = op
    BY IdleIsCall, IdleShowsNothing DEF Call
  <2> HIDE DEF c
  <2>2. QED BY <1>2, <1>3, <2>1 DEF c
<1>4. ASSUME NEW i, NEW x,
             Become(p, [[Idle EXCEPT !.pc = "row", !.id = i, !.hash = x]
                        EXCEPT !.op = "transition_to_fixed"])
      PROVE  Moved(p)
  <2> DEFINE c == [[Idle EXCEPT !.pc = "row", !.id = i, !.hash = x]
                   EXCEPT !.op = "transition_to_fixed"]
  <2>1. c.rows = {} /\ c.chain = <<>> /\ c.pc = "row" /\ c.op = "transition_to_fixed"
    BY IdleIsCall, IdleShowsNothing DEF Call
  <2> HIDE DEF c
  <2>2. QED BY <1>2, <1>4, <2>1 DEF c
<1>5. ASSUME NEW by,
             Become(p, [[Idle EXCEPT !.pc = "edges", !.creator = by]
                        EXCEPT !.op = "list_by_creator"])
      PROVE  Moved(p)
  <2> DEFINE c == [[Idle EXCEPT !.pc = "edges", !.creator = by] EXCEPT !.op = "list_by_creator"]
  <2>1. c.rows = {} /\ c.chain = <<>> /\ c.pc = "edges" /\ c.op = "list_by_creator"
    BY IdleIsCall, IdleShowsNothing DEF Call
  <2> HIDE DEF c
  <2>2. QED BY <1>2, <1>5, <2>1 DEF c
<1>6. QED
  BY <1>3, <1>4, <1>5 DEF StartFind, StartDelete, StartTransition, StartList, Start

(* save takes its rows from a record value.                                *)
LEMMA StartSaveMoves ==
  ASSUME Inv, UNCHANGED <<held, nextVid>>, NEW p \in Procs, NEW h \in Ids,
         NEW creator, StartSave(p, held[h], creator)
  PROVE  Moved(p)
<1> DEFINE rec == held[h]
<1>1. UNCHANGED version BY DEF StartSave, tableVars
<1>2. ASSUME NEW c, Become(p, c), c.chain = <<>>, c.op = "save", c.pc # "append",
             c.rows = {} \/ \E now : c.rows = RowsOf(rec, rec.id, now)
      PROVE  Moved(p)
  <2>1. ASSUME NEW x \in CallShown(c) PROVE Inherited(Sources(p), x)
    <3>1. PICK now, j \in DOMAIN rec.chain :
            x.vid = rec.chain[j].vid /\ x.body = rec.chain[j].body /\ x.rid = rec.id
      BY <1>2, <2>1 DEF CallShown, RowsOf, Of
    <3>2. QED BY <3>1, HeldRingsAreShown DEF Inherited, Descends, Sources
  <2>2. ~ Minting(c) BY <1>2 DEF Minting
  <2>3. QED BY <1>1, <1>2, <2>1, <2>2, QuietMove, SameTableInherits
<1>3. CASE Start(p, "save", [Idle EXCEPT !.id = rec.id, !.ret = "refused"])
  <2> DEFINE c == [[Idle EXCEPT !.id = rec.id, !.ret = "refused"] EXCEPT !.op = "save"]
  <2>1. c.rows = {} /\ c.chain = <<>> /\ c.op = "save" /\ c.pc = "idle"
    BY IdleIsCall, IdleShowsNothing DEF Call
  <2> HIDE DEF c
  <2>2. QED BY <1>2, <1>3, <2>1 DEF Start, c
<1>4. ASSUME NEW now,
             Start(p, "save", [Idle EXCEPT !.pc = "exists", !.id = rec.id,
                !.creator = creator, !.row = RowOf(rec, now),
                !.rows = RowsOf(rec, rec.id, now)])
      PROVE  Moved(p)
  <2> DEFINE rows == RowsOf(rec, rec.id, now)
             c == [[Idle EXCEPT !.pc = "exists", !.id = rec.id, !.creator = creator,
                                !.row = RowOf(rec, now), !.rows = rows]
                   EXCEPT !.op = "save"]
  <2> HIDE DEF rows
  <2>1. c.rows = rows /\ c.chain = <<>> /\ c.op = "save" /\ c.pc = "exists"
    BY IdleIsCall, IdleShowsNothing DEF Call
  <2> HIDE DEF c
  <2>2. QED BY <1>2, <1>4, <2>1 DEF Start, c, rows
<1>5. QED BY <1>3, <1>4 DEF StartSave

(* save_snapshot and add_version mint the ids of what they are to write.   *)
LEMMA StartSaveSnapshotMoves ==
  ASSUME Inv, UNCHANGED held, NEW p \in Procs, NEW h \in Ids,
         NEW creator, NEW new, StartSaveSnapshot(p, held[h], creator, new)
  PROVE  Moved(p)
<1> DEFINE rec == held[h]
           n == Len(rec.chain)
           for == [v \in Nat |-> [body |-> rec.chain[v - nextVid + 1].body, rid |-> new]]
<1>1. rec \in Record /\ rec.chain \in Seq(Version) /\ n \in Nat /\ DOMAIN rec.chain = 1 .. n
  BY RingsAreVersions DEF Inv, HeldOK, CoreTypeOK
<1>2. nextVid \in Nat /\ nextVid' = nextVid + n
  BY VidAssumption DEF Inv, HeldOK, CoreTypeOK, StartSaveSnapshot
<1>3. PICK now :
        Start(p, "save_snapshot", [Idle EXCEPT !.pc = "create", !.id = new,
             !.creator = creator, !.source = rec.id, !.row = RowOf(rec, now),
             !.rows = RowsOf(ReMinted(rec), new, now)])
  BY DEF StartSaveSnapshot
<1> DEFINE rows == RowsOf(ReMinted(rec), new, now)
           c == [[Idle EXCEPT !.pc = "create", !.id = new, !.creator = creator,
                              !.source = rec.id, !.row = RowOf(rec, now), !.rows = rows]
                 EXCEPT !.op = "save_snapshot"]
<1>4. c.rows = rows /\ c.chain = <<>>
  <2> HIDE DEF rows
  <2>1. QED BY IdleIsCall, IdleShowsNothing DEF Call
<1>5. ASSUME NEW w \in rows
      PROVE  w.vid \in Minted /\ w.body = for[w.vid].body /\ w.rid = for[w.vid].rid
  <2>1. ReMinted(rec).chain = [j \in 1 .. n |-> [rec.chain[j] EXCEPT !.vid = nextVid + j - 1]]
    BY <1>1 DEF ReMinted, Record
  <2> DEFINE new_chain == ReMinted(rec).chain
  <2>2. PICK j \in 1 .. n : /\ w.vid = new_chain[j].vid /\ w.body = new_chain[j].body
                            /\ w.rid = new
    <3>1. DOMAIN new_chain = 1 .. n BY <2>1
    <3>2. w \in {[vid |-> new_chain[j].vid, rid |-> new, body |-> new_chain[j].body,
                  at |-> now] : j \in DOMAIN new_chain}
      BY <1>5 DEF RowsOf
    <3> HIDE DEF new_chain
    <3>3. QED BY <3>1, <3>2
  <2>3. rec.chain[j] \in Version BY <1>1
  <2>4. w.vid = nextVid + j - 1 /\ w.body = rec.chain[j].body
    BY <2>1, <2>2, <2>3 DEF Version
  <2>5. w.vid \in Nat /\ w.vid - nextVid + 1 = j /\ w.vid \in nextVid .. nextVid + n - 1
    BY <1>1, <1>2, <2>4
  <2>6. w.vid \in Minted BY <1>2, <2>5 DEF Minted
  <2>7. QED BY <2>2, <2>4, <2>5, <2>6
<1> HIDE DEF rows, c, for
<1>6. \A x \in CallShown(c) : Fresh(for, x)
  BY <1>4, <1>5 DEF CallShown, Of, Fresh
<1>7. Become(p, c) BY <1>3 DEF Start, c, rows
<1>8. UNCHANGED version BY DEF StartSaveSnapshot, tableVars
<1>9. /\ nextVid' \in Nat /\ nextVid <= nextVid'
      /\ \A x \in TableShown' : Inherited(Sources(p), x)
  BY <1>1, <1>2, <1>8, SameTableInherits
<1>10. \A w \in c.rows : w.vid \in Minted BY <1>4, <1>5
<1>11. QED BY <1>6, <1>7, <1>9, <1>10, CallMove

LEMMA StartAddVersionMoves ==
  ASSUME Inv, UNCHANGED held, NEW p \in Procs, NEW i, NEW b, StartAddVersion(p, i, b)
  PROVE  Moved(p)
<1>1. nextVid \in Nat /\ nextVid' = nextVid + 1
  BY VidAssumption DEF Inv, HeldOK, CoreTypeOK, StartAddVersion
<1>2. PICK now :
        Start(p, "add_version", [Idle EXCEPT !.pc = "append", !.id = i,
             !.rows = {[vid |-> nextVid, rid |-> i, body |-> b, at |-> now]}])
  BY DEF StartAddVersion
<1> DEFINE rows == {[vid |-> nextVid, rid |-> i, body |-> b, at |-> now]}
           c == [[Idle EXCEPT !.pc = "append", !.id = i, !.rows = rows]
                 EXCEPT !.op = "add_version"]
           for == [v \in Nat |-> [body |-> b, rid |-> i]]
<1>3. \A w \in rows : w.vid \in Minted /\ w.body = for[w.vid].body /\ w.rid = for[w.vid].rid
  BY <1>1 DEF Minted
<1> HIDE DEF rows
<1>4. c.rows = rows /\ c.chain = <<>> BY IdleIsCall, IdleShowsNothing DEF Call
<1> HIDE DEF c, for
<1>5. \A x \in CallShown(c) : Fresh(for, x)
  BY <1>3, <1>4 DEF CallShown, Of, Fresh
<1>6. Become(p, c) BY <1>2 DEF Start, c, rows
<1>7. UNCHANGED version BY DEF StartAddVersion, tableVars
<1>8. /\ nextVid' \in Nat /\ nextVid <= nextVid'
      /\ \A x \in TableShown' : Inherited(Sources(p), x)
  BY <1>1, <1>7, SameTableInherits
<1>9. QED BY <1>3, <1>4, <1>5, <1>6, <1>8, CallMove

-----------------------------------------------------------------------------
(* OneBody and OwnRows are invariants.                                     *)

(* Record values change, the tables and the calls do not.                  *)
HeldMoves(for) ==
  /\ nextVid' \in Nat /\ nextVid <= nextVid'
  /\ UNCHANGED <<version, call>>
  /\ \A x \in HeldShown' : Inherited(HeldShown, x) \/ Fresh(for, x)

(* The operations on held records show what they copy, and at most one     *)
(* version that they mint.                                                 *)
LEMMA CoreStepMoves ==
  ASSUME Inv, CoreNext, UNCHANGED <<version, call>>
  PROVE  \E for : HeldMoves(for)
<1>1. nextVid \in Nat BY VidAssumption DEF Inv, HeldOK, CoreTypeOK
<1>2. CASE ChainsCopied
  <2>1. ASSUME NEW x \in HeldShown' PROVE Inherited(HeldShown, x)
    <3>0. PICK g \in Ids : /\ held'[g].id = x.rid
                           /\ \E j \in DOMAIN held'[g].chain :
                                /\ held'[g].chain[j].vid = x.vid
                                /\ held'[g].chain[j].body = x.body
      BY <2>1 DEF HeldShown
    <3>1. PICK j \in DOMAIN held'[g].chain :
            held'[g].chain[j].vid = x.vid /\ held'[g].chain[j].body = x.body
      BY <3>0
    <3>2. PICK h \in Ids :
            /\ held'[g].id = held[h].id
            /\ DOMAIN held'[g].chain = DOMAIN held[h].chain
            /\ \A i \in DOMAIN held[h].chain : Descends(held'[g].chain[i], held[h].chain[i])
      BY <1>2 DEF ChainsCopied
    <3>3. j \in DOMAIN held[h].chain /\ Descends(held'[g].chain[j], held[h].chain[j])
      BY <3>1, <3>2
    <3>4. PICK y \in HeldShown : /\ y.vid = held[h].chain[j].vid /\ y.rid = held[h].id
                                 /\ y.body = held[h].chain[j].body
      BY <3>3, HeldRingsAreShown
    <3>5. Descends(x, y) /\ x.rid = y.rid BY <3>0, <3>1, <3>2, <3>3, <3>4 DEF Descends
    <3>6. QED BY <3>4, <3>5 DEF Inherited
  <2>2. nextVid' = nextVid BY <1>2 DEF ChainsCopied
  <2>3. \A for : HeldMoves(for) BY <1>1, <2>1, <2>2 DEF HeldMoves
  <2>4. QED BY <2>3
<1>3. ASSUME NEW f \in Ids, NEW v \in Version, ChainGrown(f, v)
      PROVE  \E for : HeldMoves(for)
  <2> DEFINE for == [m \in Nat |-> [body |-> v.body, rid |-> held'[f].id]]
  <2>1. PICK c \in {<<>>, held[f].chain} :
          /\ held'[f].chain = Append(c, v) /\ (c # <<>> => held'[f].id = held[f].id)
    BY <1>3 DEF ChainGrown
  <2>2. v.vid = nextVid /\ nextVid' = nextVid + 1 BY <1>3 DEF ChainGrown
  <2>3. c \in Seq(Version)
    <3>1. <<>> \in Seq(Version) /\ held[f].chain \in Seq(Version)
      BY RingsAreVersions DEF Inv
    <3>2. QED BY <3>1
  <2>4. ASSUME NEW x, x.vid = v.vid, x.body = v.body, x.rid = held'[f].id PROVE Fresh(for, x)
    BY <1>1, <2>2, <2>4 DEF Fresh, Minted
  <2> HIDE DEF for
  <2>5. ASSUME NEW x \in HeldShown' PROVE x \in HeldShown \/ Fresh(for, x)
    <3>0. PICK g \in Ids : /\ held'[g].id = x.rid
                           /\ \E j \in DOMAIN held'[g].chain :
                                /\ held'[g].chain[j].vid = x.vid
                                /\ held'[g].chain[j].body = x.body
      BY <2>5 DEF HeldShown
    <3>1. PICK j \in DOMAIN held'[g].chain :
            held'[g].chain[j].vid = x.vid /\ held'[g].chain[j].body = x.body
      BY <3>0
    <3>2. x \in Item BY <2>5 DEF HeldShown
    <3>3. CASE g # f
      <4>1. held'[g] = held[g] BY <1>3, <3>3 DEF ChainGrown
      <4>2. QED BY <3>0, <3>1, <3>2, <4>1 DEF HeldShown
    <3>4. CASE g = f /\ j = Len(c) + 1
      <4>1. Append(c, v)[Len(c) + 1] = v BY <2>3
      <4>2. held'[f].chain[j] = v BY <2>1, <3>4, <4>1
      <4>3. QED BY <2>4, <3>0, <3>1, <3>4, <4>2
    <3>5. CASE g = f /\ j # Len(c) + 1
      <4>1. j \in DOMAIN Append(c, v) BY <2>1, <3>1, <3>5
      <4>2. j \in DOMAIN c /\ Append(c, v)[j] = c[j] /\ c # <<>> BY <2>3, <3>5, <4>1
      <4>3. c = held[f].chain /\ held'[f].id = held[f].id BY <2>1, <4>2
      <4>4. QED BY <2>1, <3>0, <3>1, <3>2, <3>5, <4>2, <4>3 DEF HeldShown
    <3>6. QED BY <3>3, <3>4, <3>5
  <2>6. \A x \in HeldShown' : Inherited(HeldShown, x) \/ Fresh(for, x)
    BY <2>5, InheritedFromItself
  <2>7. HeldMoves(for) BY <1>1, <2>2, <2>6 DEF HeldMoves
  <2>8. QED BY <2>7
<1>4. QED BY <1>2, <1>3, StepCopiesOrGrows DEF Inv

LEMMA HoldIsCoreStep ==
  ASSUME Hold
  PROVE  CoreNext /\ UNCHANGED <<version, call>>
<1>1. \A h \in Ids, b \in Bodies : New(h, b) \/ Update(h, b) => CoreNext BY DEF CoreNext
<1>2. \A h \in Ids, x \in Bytes : Fix(h, x) => CoreNext BY DEF CoreNext
<1>3. \A h \in Ids, g \in Ids : Snapshot(h, g) => g # h BY DEF Snapshot
<1>4. \A h \in Ids, g \in Ids : Snapshot(h, g) => CoreNext BY <1>3 DEF CoreNext
<1>5. QED BY <1>1, <1>2, <1>4 DEF Hold, repoVars

LEMMA HoldKeepsOneBody ==
  ASSUME Inv, OneBody, OwnRows, Hold
  PROVE  OneBody' /\ OwnRows'
<1>1. UNCHANGED <<version, call>> BY HoldIsCoreStep
<1>2. PICK for : HeldMoves(for) BY HoldIsCoreStep, CoreStepMoves
<1>3. nextVid \in Nat BY VidAssumption DEF Inv, HeldOK, CoreTypeOK
<1>4. TableShown' = TableShown /\ \A p \in Procs : CallShown(call'[p]) = CallShown(call[p])
  BY <1>1 DEF TableShown
<1>5. ASSUME NEW x \in Shown' PROVE Inherited(Shown, x) \/ Fresh(for, x)
  <2>1. x \in HeldShown' \/ x \in TableShown' \/ \E q \in Procs : x \in CallShown(call'[q])
    BY <1>5 DEF Shown, CallShown
  <2>2. CASE x \in HeldShown'
    BY <1>2, <2>2, ShownInParts, InheritedFromMore DEF HeldMoves
  <2>3. CASE x \in TableShown' BY <1>4, <2>3, ShownInParts, InheritedFromItself
  <2>4. ASSUME NEW q \in Procs, x \in CallShown(call'[q]) PROVE Inherited(Shown, x)
    BY <1>4, <2>4, ShownInParts, InheritedFromItself
  <2>5. QED BY <2>1, <2>2, <2>3, <2>4
<1>6. OneBody' BY <1>2, <1>3, <1>5, InheritanceKeepsOneBody DEF HeldMoves
<1>7. ASSUME NEW p \in Procs, Minting(call'[p]), NEW w \in call'[p].rows,
             NEW x \in ShownBesides(p)'
      PROVE  w.vid # x.vid
  <2>1. call'[p] = call[p] BY <1>1
  <2>2. \A y \in ShownBesides(p) : w.vid # y.vid BY <1>7, <2>1 DEF OwnRows
  <2>3. w.vid < nextVid /\ w.vid \in Nat
    <3>1. w \in VersionRow /\ \E y \in Sources(p) : Of(w, y) BY <1>7, <2>1, RowsAreShown
    <3>2. w.vid \in Nat BY <3>1, VidAssumption DEF VersionRow, Vids
    <3>3. QED BY <3>1, <3>2, ShownInParts DEF Of, OneBody
  <2>4. CASE Fresh(for, x) BY <1>2, <1>3, <2>3, <2>4 DEF Fresh, Minted, HeldMoves
  <2>5. CASE Inherited(ShownBesides(p), x) BY <2>2, <2>5 DEF Inherited, Descends
  <2>6. \/ x \in HeldShown' \/ x \in TableShown'
        \/ \E q \in Procs \ {p} : x \in CallShown(call'[q])
    BY <1>7 DEF ShownBesides, CallShown
  <2>7. CASE x \in HeldShown'
    BY <1>2, <2>4, <2>5, <2>7, ShownInParts, InheritedFromMore DEF HeldMoves
  <2>8. CASE x \notin HeldShown'
    <3>1. x \in TableShown \/ \E q \in Procs \ {p} : x \in CallShown(call[q])
      BY <1>4, <2>6, <2>8
    <3>2. x \in ShownBesides(p) BY <3>1 DEF ShownBesides, TableShown, CallShown
    <3>3. QED BY <2>2, <3>2
  <2>9. QED BY <2>7, <2>8
<1>8. QED BY <1>6, <1>7 DEF OwnRows

LEMMA QueryMoves ==
  ASSUME Inv, OneBody, NEW p \in Procs, Query(p)
  PROVE  Moved(p)
<1>1. UNCHANGED <<held, nextVid>> BY DEF Query
<1>2. QED
  BY <1>1, ReadsMove, ReadVersionsMoves, ReadCreatorMoves, CommitsMove, CommitCreateMoves
     DEF Query

LEMMA BeginMoves ==
  ASSUME Inv, NEW p \in Procs, Begin(p)
  PROVE  Moved(p)
<1>1. CASE /\ UNCHANGED <<held, nextVid>>
           /\ \/ \E i \in Ids : \/ StartFind(p, i) \/ StartDelete(p, i)
                                \/ \E x \in Bytes : StartTransition(p, i, x)
              \/ \E by \in Creators : StartList(p, by)
  BY <1>1, PlainStartMoves
<1>2. ASSUME NEW h \in Ids, NEW c \in Creators, UNCHANGED held,
             \/ StartSave(p, held[h], c) /\ UNCHANGED nextVid
             \/ \E new \in Ids : StartSaveSnapshot(p, held[h], c, new)
      PROVE  Moved(p)
  BY <1>2, StartSaveMoves, StartSaveSnapshotMoves
<1>3. ASSUME NEW i \in Ids, NEW b \in Bodies, StartAddVersion(p, i, b), UNCHANGED held
      PROVE  Moved(p)
  BY <1>3, StartAddVersionMoves
<1>4. QED BY <1>1, <1>2, <1>3 DEF Begin

LEMMA OneBodyInitially == Init => OneBody /\ OwnRows
<1> SUFFICES ASSUME Init PROVE Shown = {} /\ \A p \in Procs : ~ Minting(call[p])
  BY DEF OneBody, OwnRows
<1>1. HeldShown = {}
  <2>1. \A h \in Ids : held[h].chain = <<>> BY DEF Init, CoreInit, Nothing
  <2>2. QED BY <2>1 DEF HeldShown
<1>2. TableShown = {} BY DEF Init, RepoInit, TablesInit, TableShown
<1>3. \A p \in Procs : CallShown(call[p]) = {} /\ ~ Minting(call[p])
  BY IdleShowsNothing DEF Init, RepoInit, CallShown, Minting
<1>4. QED BY <1>1, <1>2, <1>3 DEF Shown

LEMMA OneBodyStep ==
  ASSUME Inv, OneBody, OwnRows, [Next]_vars
  PROVE  OneBody' /\ OwnRows'
<1>1. CASE UNCHANGED vars
  BY <1>1 DEF vars, repoVars, OneBody, OwnRows, Minting, Shown, ShownBesides, HeldShown,
              TableShown, CallShown
<1>2. nextVid \in Nat BY VidAssumption DEF Inv, HeldOK, CoreTypeOK
<1>3. ASSUME NEW p \in Procs, Moved(p) PROVE OneBody' /\ OwnRows'
  BY <1>2, <1>3, MovesKeepOneBody, MovesKeepOwnRows
<1>4. QED BY <1>1, <1>3, HoldKeepsOneBody, QueryMoves, BeginMoves, FailMoves DEF Next

(* A version id shows one content, of one record, wherever it is -- in the *)
(* tables, in a record value, in what a call has read or is to write -- up *)
(* to the migration of a key; and what was minted for rows that add_version*)
(* or save_snapshot is still to write is nowhere else.                     *)
THEOREM VersionsShowOneBody == Spec => [](OneBody /\ OwnRows)
<1>1. Inv /\ OneBody /\ OwnRows /\ [Next]_vars => (OneBody /\ OwnRows)' BY OneBodyStep
<1>2. QED BY <1>1, OneBodyInitially, InvIsInvariant, PTL DEF Spec

-----------------------------------------------------------------------------
(* The same version id never shows two contents: what the table stores     *)
(* under it is, up to the migration of a key, what every record value      *)
(* still held by a caller has under it, however long ago it was saved.     *)
THEOREM TableAgreesWithHeld == Spec => []StoredVersionsMatchHeld
<1>1. Inv /\ OneBody => StoredVersionsMatchHeld
  <2> SUFFICES ASSUME Inv, OneBody, NEW w \in version, NEW h \in Ids,
                      NEW j \in DOMAIN held[h].chain, held[h].chain[j].vid = w.vid
               PROVE  SameVersion(held[h].chain[j].body, w.body)
    BY DEF StoredVersionsMatchHeld
  <2>1. PICK x \in HeldShown : x.vid = held[h].chain[j].vid /\ x.body = held[h].chain[j].body
    BY HeldRingsAreShown
  <2>2. PICK y \in TableShown : Of(w, y) BY TableRowsAreShown
  <2>3. QED BY <2>1, <2>2, ShownInParts DEF OneBody, Of
<1>2. QED BY <1>1, InvIsInvariant, VersionsShowOneBody, PTL

(* A stored version is never lost nor edited while its record is there,    *)
(* although the version that a transition rewrites was read two queries    *)
(* earlier: what it writes back is the same version with its key migrated. *)
THEOREM StoredVersionsStay == Spec => StoredVersionsSurvive
<1> DEFINE Stays(v) ==
             \/ \E w \in version' : /\ w.vid = v.vid /\ w.rid = v.rid /\ w.at = v.at
                                    /\ SameVersion(v.body, w.body)
             \/ record'[v.rid].state = "absent"
           Survive == \A v \in version : Stays(v)
<1>1. ASSUME Inv, OneBody, Next PROVE Survive
  <2>1. \A v \in version' : v \in version => Stays(v) BY DEF SameVersion
  <2>2. CASE version \subseteq version' BY <2>1, <2>2
  <2>3. ASSUME NEW p \in Procs, CommitSeal(p) PROVE Survive
    <3>1. PICK r \in call[p].rows :
            SealRecord(call[p].id, call[p].row.hash, call[p].row.updated, r.vid, r.body)
      BY <2>3 DEF CommitSeal
    <3>2. ASSUME NEW v \in version, v.vid # r.vid PROVE Stays(v)
      BY <2>1, <3>1, <3>2 DEF SealRecord
    <3>3. ASSUME NEW v \in version, v.vid = r.vid PROVE Stays(v)
      <4> DEFINE w == [v EXCEPT !.body = r.body]
      <4>1. v \in VersionRow /\ \E x \in Shown : Of(v, x)
        BY <1>1, TableRowsAreShown, ShownInParts
      <4>2. \E x \in Shown : Of(r, x) BY <1>1, RowsAreShown, ShownInParts
      <4>3. SameVersion(v.body, r.body) BY <1>1, <3>3, <4>1, <4>2 DEF OneBody, Of
      <4>4. w \in version' BY <3>1, <3>3 DEF SealRecord
      <4>5. w.vid = v.vid /\ w.rid = v.rid /\ w.at = v.at /\ w.body = r.body
        BY <4>1 DEF VersionRow
      <4>6. QED BY <4>3, <4>4, <4>5
    <3>4. QED BY <3>2, <3>3
  <2>4. ASSUME NEW p \in Procs, CommitDelete(p) PROVE Survive
    <3>1. DeleteCascade(call[p].id) BY <2>4 DEF CommitDelete
    <3>2. ASSUME NEW v \in version, v.rid # call[p].id PROVE Stays(v)
      BY <2>1, <3>1, <3>2 DEF DeleteCascade
    <3>3. ASSUME NEW v \in version, v.rid = call[p].id PROVE Stays(v)
      <4>1. v.rid \in Ids /\ record \in [Ids -> RecordRow]
        BY <1>1, TableRowsAreShown DEF VersionRow, Inv, RepoOK, TablesOK, TablesTypeOK
      <4>2. QED BY <3>1, <3>3, <4>1 DEF DeleteCascade, NoRow
    <3>4. QED BY <3>2, <3>3
  <2>5. ASSUME NEW p \in Procs, Query(p) PROVE Survive
    BY <2>2, <2>3, <2>4, <2>5
       DEF Query, ReadEdges, ReadRow, ReadVersions, ReadCreator, CheckExists, CommitCreate,
           Create, CommitRelate, RelateSnapshot, CommitAppend, AppendVersion, tableVars
  <2>6. ASSUME NEW p \in Procs, Begin(p) PROVE Survive
    BY <2>2, <2>6
       DEF Begin, StartFind, StartDelete, StartTransition, StartList, StartSave,
           StartSaveSnapshot, StartAddVersion, tableVars
  <2>7. QED BY <1>1, <2>2, <2>5, <2>6 DEF Next, Hold, Fail, repoVars, tableVars
<1>2. Inv /\ OneBody /\ [Next]_vars => [Survive]_vars BY <1>1
<1>3. QED
  BY <1>2, InvIsInvariant, VersionsShowOneBody, PTL DEF Spec, StoredVersionsSurvive

-----------------------------------------------------------------------------
(* Where no caller deletes.                                                *)

(* A body that fossilization has nothing left to do with.                  *)
Whole(body) == body.form \in {"inline", "fixed"}

(* Record i has the version of row w, or a whole version, among the rows.  *)
HasRow(i, w, rows) == \E v \in rows : v.vid = w.vid /\ v.rid = i
HasWhole(i, rows) == \E v \in rows : v.rid = i /\ Whole(v.body)

(* The chain that a call has read shows that its record is Fixed.          *)
ReadsWhole(c) ==
  c.row.state = "fixed" => \E j \in DOMAIN c.chain : Whole(c.chain[j].body)

(* Which methods wait at which awaits.                                     *)
AwaitsOwn(c) ==
  /\ c.op # "delete" /\ c.pc # "cascade"
  /\ c.pc = "exists" => c.op = "save"
  /\ c.pc \in {"create", "relate", "append"} => c.op \in {"save", "save_snapshot", "add_version"}
  /\ c.pc # "idle" => c.ret = "none"

(* What a find, a list or a transition has learned of its record.          *)
KnowsRecord(c, r, v) ==
  /\ c.pc \in {"versions", "creator", "seal"} => r[c.id].state # "absent"
  /\ c.pc \in {"versions", "creator"} => (c.row.hash # NoHash <=> c.row.state = "fixed")
  /\ c.pc = "versions" /\ c.row.state = "fixed" => HasWhole(c.id, v)
  /\ c.pc = "creator" => /\ c.chain # <<>>
                         /\ \A j \in DOMAIN c.chain : HasRow(c.id, c.chain[j], v)
  /\ c.pc = "creator" \/ c.ret = "found" => ReadsWhole(c)

(* What a writer knows of the rows that it is about to write.              *)
KnowsRows(c, v) ==
  /\ c.pc = "seal" => \A w \in c.rows : Whole(w.body) /\ HasRow(c.id, w, v)
  /\ c.pc \in {"exists", "create"} /\ c.row.state = "fixed" => \E w \in c.rows : Whole(w.body)

(* What a call that has returned has said.                                 *)
SaidSo(c, r) ==
  /\ c.op = "transition_to_fixed" /\ c.ret = "ok" => r[c.id].state = "fixed"
  /\ c.op \in {"find", "list_by_creator"} => c.ret \notin {"no_creator", "empty", "bad_hash"}

(* Which edges a list goes by.                                             *)
KnowsEdges(c, e) ==
  c.op = "list_by_creator" =>
    /\ \A i \in c.todo \cup c.out : [by |-> c.creator, out |-> i] \in e
    /\ c.pc \in {"row", "versions", "creator"} => [by |-> c.creator, out |-> c.id] \in e

Knows(c, r, v, e) ==
  AwaitsOwn(c) /\ KnowsRecord(c, r, v) /\ KnowsRows(c, v) /\ SaidSo(c, r) /\ KnowsEdges(c, e)

CallsKnow == \A p \in Procs : Knows(call[p], record, version, createdBy)

FixedRowsAreWhole == \A i \in Ids : record[i].state = "fixed" => HasWhole(i, version)

FixedHeldAreWhole ==
  \A h \in Ids : held[h].state = "fixed" =>
    \E j \in DOMAIN held[h].chain : Whole(held[h].chain[j].body)

Kept == CallsKnow /\ FixedRowsAreWhole /\ FixedHeldAreWhole

(* A step that takes nothing away from the tables.                         *)
Grown ==
  /\ \A i \in Ids : /\ record[i].state # "absent" => record'[i].state # "absent"
                    /\ record[i].state = "fixed" => record'[i].state = "fixed"
  /\ \A v \in version : \E w \in version' :
       w.vid = v.vid /\ w.rid = v.rid /\ (Whole(v.body) => Whole(w.body))
  /\ createdBy \subseteq createdBy'

-----------------------------------------------------------------------------
(* What is known stays true.                                               *)

LEMMA KnowledgeStays ==
  ASSUME Grown, NEW c \in Call, Knows(c, record, version, createdBy)
  PROVE  Knows(c, record', version', createdBy')
<1>1. c.id \in Ids BY DEF Call
<1>2. \A w : HasRow(c.id, w, version) => HasRow(c.id, w, version') BY DEF Grown, HasRow
<1>3. HasWhole(c.id, version) => HasWhole(c.id, version') BY DEF Grown, HasWhole
<1>4. KnowsRecord(c, record', version') BY <1>1, <1>2, <1>3 DEF Knows, KnowsRecord, Grown
<1>5. KnowsRows(c, version') BY <1>2 DEF Knows, KnowsRows
<1>6. SaidSo(c, record') BY <1>1 DEF Knows, SaidSo, Grown
<1>7. KnowsEdges(c, createdBy') BY DEF Knows, KnowsEdges, Grown
<1>8. QED BY <1>4, <1>5, <1>6, <1>7 DEF Knows

LEMMA SameTablesGrow ==
  ASSUME UNCHANGED <<record, version, createdBy>>
  PROVE  Grown
BY DEF Grown

(* A step of one call: it leaves in its future what is true of the tables  *)
(* that it leaves.                                                         *)
LEMMA CallStepKeepsKnowledge ==
  ASSUME CallsOK, CallsKnow, Grown, NEW p \in Procs, NEW c, Become(p, c),
         Knows(c, record', version', createdBy')
  PROVE  CallsKnow'
<1>1. \A q \in Procs : call[q] \in Call /\ call'[q] = IF q = p THEN c ELSE call[q]
  BY DEF Become, CallsOK
<1>2. ASSUME NEW q \in Procs PROVE Knows(call'[q], record', version', createdBy')
  <2>1. CASE q = p BY <1>1, <2>1
  <2>2. CASE q # p BY <1>1, <2>2, KnowledgeStays DEF CallsKnow
  <2>3. QED BY <2>1, <2>2
<1>3. QED BY <1>2 DEF CallsKnow

LEMMA AnswerKeepsKnowledge ==
  ASSUME CallsOK, CallsKnow, Grown, NEW p \in Procs, NEW ret \in Rets \ {"found"}, Answer(p, ret),
         ret = "ok" /\ call[p].op = "transition_to_fixed" => record'[call[p].id].state = "fixed",
         call[p].op \in {"find", "list_by_creator"} => ret \notin {"no_creator", "empty", "bad_hash"}
  PROVE  CallsKnow'
<1> DEFINE c == [Idle EXCEPT !.op = call[p].op, !.id = call[p].id, !.ret = ret]
<1>1. /\ c.op = call[p].op /\ c.id = call[p].id /\ c.ret = ret
      /\ c.pc = "idle" /\ c.todo = {} /\ c.out = {}
  BY IdleIsCall DEF Call, Idle
<1>2. call[p].op # "delete" BY DEF CallsKnow, Knows, AwaitsOwn
<1> HIDE DEF c
<1>3. Knows(c, record', version', createdBy')
  BY <1>1, <1>2 DEF Knows, AwaitsOwn, KnowsRecord, KnowsRows, SaidSo, KnowsEdges
<1>4. QED BY <1>3, CallStepKeepsKnowledge DEF Answer, c

LEMMA NextListedKeepsKnowledge ==
  ASSUME CallsOK, CallsKnow, Grown, NEW p \in Procs, call[p].op = "list_by_creator",
         call[p].pc # "idle",
         NEW todo \in SUBSET Ids, NEW out \in SUBSET Ids, NextListed(p, todo, out),
         \A i \in todo \cup out : [by |-> call[p].creator, out |-> i] \in createdBy
  PROVE  CallsKnow'
<1>1. call[p] \in Call BY DEF CallsOK
<1>2. call[p].ret = "none" BY DEF CallsKnow, Knows, AwaitsOwn
<1>3. ASSUME NEW c, Become(p, c), c.op = "list_by_creator", c.creator = call[p].creator,
             c.todo \subseteq todo, c.out = out,
             \/ c.pc = "idle" /\ c.ret = "listed"
             \/ c.pc = "row" /\ c.ret = "none" /\ c.id \in todo
      PROVE  CallsKnow'
  <2>1. Knows(c, record', version', createdBy')
    BY <1>3 DEF Knows, AwaitsOwn, KnowsRecord, KnowsRows, SaidSo, KnowsEdges, Grown
  <2>2. QED BY <1>3, <2>1, CallStepKeepsKnowledge
<1>4. CASE Become(p, [Idle EXCEPT !.op = call[p].op, !.creator = call[p].creator,
                                  !.out = out, !.ret = "listed"])
  <2> DEFINE c == [Idle EXCEPT !.op = call[p].op, !.creator = call[p].creator,
                               !.out = out, !.ret = "listed"]
  <2>1. /\ c.op = "list_by_creator" /\ c.creator = call[p].creator /\ c.todo = {}
        /\ c.out = out /\ c.pc = "idle" /\ c.ret = "listed"
    BY IdleIsCall DEF Call, Idle
  <2> HIDE DEF c
  <2>2. QED BY <1>3, <1>4, <2>1 DEF c
<1>5. ASSUME NEW i \in todo,
             Become(p, [call[p] EXCEPT !.pc = "row", !.id = i, !.todo = todo \ {i},
                                       !.out = out, !.row = NoRow, !.chain = <<>>])
      PROVE  CallsKnow'
  <2> DEFINE c == [call[p] EXCEPT !.pc = "row", !.id = i, !.todo = todo \ {i},
                                  !.out = out, !.row = NoRow, !.chain = <<>>]
  <2>1. /\ c.op = "list_by_creator" /\ c.creator = call[p].creator /\ c.todo \subseteq todo
        /\ c.out = out /\ c.pc = "row" /\ c.ret = "none" /\ c.id = i
    BY <1>1, <1>2 DEF Call
  <2> HIDE DEF c
  <2>2. QED BY <1>3, <1>5, <2>1 DEF c
<1>6. QED BY <1>4, <1>5 DEF NextListed

-----------------------------------------------------------------------------
(* The reads leave the tables alone.                                       *)

LEMMA ReadEdgesKnows ==
  ASSUME Inv, Kept, NEW p \in Procs, ReadEdges(p)
  PROVE  CallsKnow'
<1> DEFINE todo == {e.out : e \in {f \in createdBy : f.by = call[p].creator}}
<1>1. CallsOK /\ CallsKnow /\ Grown
  BY SameTablesGrow DEF Inv, RepoOK, Kept, ReadEdges, tableVars
<1>2. \A e \in createdBy : e = [by |-> e.by, out |-> e.out] /\ e.out \in Ids
  BY DEF Inv, RepoOK, TablesOK, TablesTypeOK
<1>3. todo \in SUBSET Ids /\ \A i \in todo : [by |-> call[p].creator, out |-> i] \in createdBy
  BY <1>2
<1>4. call[p].op = "list_by_creator" /\ call[p].pc # "idle"
  BY <1>1 DEF ReadEdges, At, CallsOK, CallOK
<1>5. NextListed(p, todo, {}) BY DEF ReadEdges
<1> HIDE DEF todo
<1>6. QED BY <1>1, <1>3, <1>4, <1>5, NextListedKeepsKnowledge

LEMMA ReadRowKnows ==
  ASSUME Inv, Kept, NEW p \in Procs, ReadRow(p)
  PROVE  CallsKnow'
<1> DEFINE i == call[p].id
<1>1. CallsOK /\ CallsKnow /\ Grown
  BY SameTablesGrow DEF Inv, RepoOK, Kept, ReadRow, tableVars
<1>2. call[p] \in Call /\ i \in Ids /\ call[p].pc = "row"
  BY <1>1 DEF CallsOK, Call, ReadRow, At
<1>3. Knows(call[p], record, version, createdBy) BY <1>1 DEF CallsKnow
<1>4. CASE Exists(i) /\ Become(p, [call[p] EXCEPT !.pc = "versions", !.row = record[i]])
  <2> DEFINE c == [call[p] EXCEPT !.pc = "versions", !.row = record[i]]
  <2>1. /\ c.pc = "versions" /\ c.row = record[i] /\ c.id = i /\ c.op = call[p].op
        /\ c.ret = call[p].ret /\ c.todo = call[p].todo /\ c.out = call[p].out
        /\ c.creator = call[p].creator
    BY <1>2 DEF Call
  <2> HIDE DEF c
  <2>2. record[i].hash # NoHash <=> record[i].state = "fixed"
    BY <1>2 DEF Inv, RepoOK, TablesOK, HashExactlyWhenFixed
  <2>3. record[i].state = "fixed" => HasWhole(i, version)
    BY <1>2 DEF Kept, FixedRowsAreWhole
  <2>4. c.ret = "none" BY <1>2, <1>3, <2>1 DEF Knows, AwaitsOwn
  <2>5. KnowsRecord(c, record, version) BY <1>4, <2>1, <2>2, <2>3, <2>4 DEF KnowsRecord, Exists
  <2>6. Knows(c, record, version, createdBy)
    BY <1>2, <1>3, <2>1, <2>4, <2>5 DEF Knows, AwaitsOwn, KnowsRows, SaidSo, KnowsEdges
  <2>7. Knows(c, record', version', createdBy')
    BY <2>6 DEF ReadRow, tableVars
  <2>8. QED BY <1>1, <1>4, <2>7, CallStepKeepsKnowledge DEF c
<1>5. CASE /\ call[p].op = "find" /\ Answer(p, "missing")
  BY <1>1, <1>5, AnswerKeepsKnowledge DEF Rets
<1>6. CASE /\ call[p].op = "transition_to_fixed" /\ Answer(p, "empty")
  BY <1>1, <1>6, AnswerKeepsKnowledge DEF Rets
<1>7. CASE /\ call[p].op = "list_by_creator" /\ NextListed(p, call[p].todo, call[p].out)
  <2>1. call[p].todo \in SUBSET Ids /\ call[p].out \in SUBSET Ids BY <1>2 DEF Call
  <2>2. \A j \in call[p].todo \cup call[p].out : [by |-> call[p].creator, out |-> j] \in createdBy
    BY <1>3, <1>7 DEF Knows, KnowsEdges
  <2>3. QED BY <1>1, <1>2, <1>7, <2>1, <2>2, NextListedKeepsKnowledge
<1>8. QED BY <1>4, <1>5, <1>6, <1>7 DEF ReadRow

(* ORDER BY returns every version of the record.                           *)
LEMMA OrderedReadIsComplete ==
  ASSUME TablesOK, NEW i \in Ids, NEW s \in OrderedReads(i), NEW v \in VersionsOf(i)
  PROVE  \E j \in DOMAIN s : s[j] = v
<1> DEFINE n == Cardinality(VersionsOf(i))
<1>1. IsFiniteSet(VersionsOf(i)) BY FS_Subset DEF TablesOK, VersionsOf
<1>2. n \in Nat BY <1>1, FS_CardinalityType
<1>3. /\ s \in [1 .. n -> VersionsOf(i)]
      /\ \A j, k \in 1 .. n : j < k => s[j] # s[k]
  BY DEF OrderedReads
<1>4. \A j, k \in 1 .. n : s[j] = s[k] => j = k BY <1>2, <1>3
<1>5. s \in Injection(1 .. n, VersionsOf(i)) BY <1>3, <1>4 DEF Injection, IsInjective
<1>6. Cardinality(1 .. n) = n BY <1>2, FS_Interval
<1>7. s \in Surjection(1 .. n, VersionsOf(i)) BY <1>1, <1>5, <1>6, FS_Injection
<1>8. QED BY <1>3, <1>7 DEF Surjection

LEMMA ReadVersionsKnows ==
  ASSUME Inv, Kept, NEW p \in Procs, ReadVersions(p)
  PROVE  CallsKnow'
<1> DEFINE i == call[p].id
<1>1. CallsOK /\ CallsKnow /\ Grown
  BY SameTablesGrow DEF Inv, RepoOK, Kept, ReadVersions, tableVars
<1>2. call[p] \in Call /\ i \in Ids /\ call[p].pc = "versions"
  BY <1>1 DEF CallsOK, Call, ReadVersions, At
<1>3. Knows(call[p], record, version, createdBy) BY <1>1 DEF CallsKnow
<1>4. PICK s \in OrderedReads(i) :
        Become(p, [call[p] EXCEPT !.pc = "creator", !.chain = s])
  BY DEF ReadVersions
<1> DEFINE c == [call[p] EXCEPT !.pc = "creator", !.chain = s]
<1>5. /\ c.pc = "creator" /\ c.chain = s /\ c.id = i /\ c.op = call[p].op /\ c.row = call[p].row
      /\ c.ret = call[p].ret /\ c.todo = call[p].todo /\ c.out = call[p].out
      /\ c.creator = call[p].creator
  BY <1>2 DEF Call
<1> HIDE DEF c
<1>6. record[i].state # "absent" BY <1>2, <1>3 DEF Knows, KnowsRecord
<1>7. s # <<>>
  <2>1. PICK v \in VersionsOf(i) : TRUE
    BY <1>2, <1>6 DEF Inv, RepoOK, TablesOK, EveryRecordHasAVersion, Exists
  <2>2. \E j \in DOMAIN s : s[j] = v
    BY <1>2, OrderedReadIsComplete DEF Inv, RepoOK
  <2>3. QED BY <2>2
<1>8. \A j \in DOMAIN s : HasRow(i, s[j], version)
  BY DEF OrderedReads, VersionsOf, HasRow
<1>9. call[p].row.state = "fixed" => \E j \in DOMAIN s : Whole(s[j].body)
  <2>1. SUFFICES ASSUME call[p].row.state = "fixed" PROVE \E j \in DOMAIN s : Whole(s[j].body)
    OBVIOUS
  <2>2. PICK v \in VersionsOf(i) : Whole(v.body)
    BY <1>2, <1>3, <2>1 DEF Knows, KnowsRecord, HasWhole, VersionsOf
  <2>3. \E j \in DOMAIN s : s[j] = v
    BY <1>2, OrderedReadIsComplete DEF Inv, RepoOK
  <2>4. QED BY <2>2, <2>3
<1>10. KnowsRecord(c, record, version)
  BY <1>2, <1>3, <1>5, <1>6, <1>7, <1>8, <1>9 DEF Knows, KnowsRecord, ReadsWhole
<1>11. Knows(c, record, version, createdBy)
  BY <1>2, <1>3, <1>5, <1>10 DEF Knows, AwaitsOwn, KnowsRows, SaidSo, KnowsEdges
<1>12. Knows(c, record', version', createdBy') BY <1>11 DEF ReadVersions, tableVars
<1>13. QED BY <1>1, <1>4, <1>12, CallStepKeepsKnowledge DEF c

(* What the three queries have read is found: the record that was there    *)
(* at the first of them still has its creator at the third.                *)
LEMMA ReadIsFound ==
  ASSUME Inv, Kept, NEW p \in Procs, At(p, "creator")
  PROVE  /\ EdgesTo(call[p].id) # {}
         /\ Assembled(call[p].row, call[p].chain) = "found"
<1>1. call[p].id \in Ids BY DEF Inv, RepoOK, CallsOK, Call
<1>2. KnowsRecord(call[p], record, version) /\ call[p].pc = "creator"
  BY DEF Kept, CallsKnow, Knows, At
<1>3. EdgesTo(call[p].id) # {}
  BY <1>1, <1>2 DEF KnowsRecord, Inv, RepoOK, TablesOK, EveryRecordHasOneCreator, Exists, EdgesTo
<1>4. /\ ~ ((call[p].row.hash # NoHash) # (call[p].row.state = "fixed"))
      /\ call[p].chain # <<>>
  BY <1>2 DEF KnowsRecord
<1>5. QED BY <1>3, <1>4 DEF Assembled

LEMMA PrepareSealKnows ==
  ASSUME Inv, Kept, UNCHANGED <<record, version, createdBy>>, NEW p \in Procs,
         At(p, "creator"), call[p].op = "transition_to_fixed", PrepareSeal(p)
  PROVE  CallsKnow'
<1> DEFINE n == Len(call[p].chain)
           last == call[p].chain[n]
           w == [last EXCEPT !.body = Fossil(@, call[p].hash)]
<1>1. CallsOK /\ CallsKnow /\ Grown BY SameTablesGrow DEF Inv, RepoOK, Kept
<1>2. Knows(call[p], record, version, createdBy) BY <1>1 DEF CallsKnow
<1>3. call[p] \in Call /\ call[p].chain \in Seq(VersionRow) /\ call[p].pc = "creator"
  BY <1>1 DEF CallsOK, Call, At
<1>4. call[p].chain # <<>> /\ \A j \in DOMAIN call[p].chain : HasRow(call[p].id, call[p].chain[j], version)
  BY <1>2, <1>3 DEF Knows, KnowsRecord
<1>5. n \in DOMAIN call[p].chain /\ last \in VersionRow BY <1>3, <1>4
<1>6. HasRow(call[p].id, last, version) BY <1>4, <1>5
<1>7. w.vid = last.vid /\ Whole(w.body) BY <1>5 DEF VersionRow, Whole, Fossil
<1>8. HasRow(call[p].id, w, version) BY <1>6, <1>7 DEF HasRow
<1> HIDE DEF n, last, w
<1>9. CASE Answer(p, "fixed") BY <1>1, <1>9, AnswerKeepsKnowledge DEF Rets
<1>10. ASSUME NEW r, Become(p, [call[p] EXCEPT !.pc = "seal", !.row = r, !.rows = {w}])
       PROVE  CallsKnow'
  <2> DEFINE c == [call[p] EXCEPT !.pc = "seal", !.row = r, !.rows = {w}]
  <2>1. /\ c.pc = "seal" /\ c.rows = {w} /\ c.id = call[p].id /\ c.op = call[p].op
        /\ c.ret = call[p].ret
    BY <1>3 DEF Call
  <2> HIDE DEF c
  <2>2. c.ret = "none" BY <1>2, <1>3, <2>1 DEF Knows, AwaitsOwn
  <2>3. record[c.id].state # "absent" BY <1>2, <1>3, <2>1 DEF Knows, KnowsRecord
  <2>4. Knows(c, record, version, createdBy)
    BY <1>7, <1>8, <2>1, <2>2, <2>3
       DEF Knows, AwaitsOwn, KnowsRecord, KnowsRows, SaidSo, KnowsEdges
  <2>5. Knows(c, record', version', createdBy') BY <2>4
  <2>6. QED BY <1>1, <1>10, <2>5, CallStepKeepsKnowledge DEF c
<1>11. QED BY <1>9, <1>10 DEF PrepareSeal, n, last, w

LEMMA ReadCreatorKnows ==
  ASSUME Inv, Kept, NEW p \in Procs, ReadCreator(p)
  PROVE  CallsKnow'
<1> DEFINE c == call[p]
<1>1. CallsOK /\ CallsKnow /\ Grown
  BY SameTablesGrow DEF Inv, RepoOK, Kept, ReadCreator, tableVars
<1>2. c \in Call /\ c.pc = "creator" /\ At(p, "creator") BY <1>1 DEF CallsOK, ReadCreator, At
<1>3. Knows(c, record, version, createdBy) BY <1>1 DEF CallsKnow
<1>4. \/ c.op = "find" /\ Become(p, [c EXCEPT !.pc = "idle", !.ret = "found"])
      \/ c.op = "list_by_creator" /\ NextListed(p, c.todo, c.out \cup {c.id})
      \/ c.op = "transition_to_fixed" /\ PrepareSeal(p)
  BY <1>2, ReadIsFound DEF ReadCreator
<1>5. CASE c.op = "find" /\ Become(p, [c EXCEPT !.pc = "idle", !.ret = "found"])
  <2> DEFINE d == [c EXCEPT !.pc = "idle", !.ret = "found"]
  <2>1. d.pc = "idle" /\ d.ret = "found" /\ d.op = "find" /\ d.row = c.row /\ d.chain = c.chain
    BY <1>2, <1>5 DEF Call
  <2> HIDE DEF d
  <2>2. ReadsWhole(d) BY <1>2, <1>3, <2>1 DEF Knows, KnowsRecord, ReadsWhole
  <2>3. Knows(d, record', version', createdBy')
    BY <2>1, <2>2 DEF Knows, AwaitsOwn, KnowsRecord, KnowsRows, SaidSo, KnowsEdges
  <2>4. QED BY <1>1, <1>5, <2>3, CallStepKeepsKnowledge DEF d
<1>6. CASE c.op = "list_by_creator" /\ NextListed(p, c.todo, c.out \cup {c.id})
  <2>1. c.todo \in SUBSET Ids /\ c.out \cup {c.id} \in SUBSET Ids BY <1>2 DEF Call
  <2>2. \A i \in c.todo \cup (c.out \cup {c.id}) : [by |-> c.creator, out |-> i] \in createdBy
    BY <1>2, <1>3, <1>6 DEF Knows, KnowsEdges
  <2>3. QED BY <1>1, <1>2, <1>6, <2>1, <2>2, NextListedKeepsKnowledge
<1>7. CASE c.op = "transition_to_fixed" /\ PrepareSeal(p)
  BY <1>2, <1>7, PrepareSealKnows DEF ReadCreator, tableVars
<1>8. QED BY <1>4, <1>5, <1>6, <1>7

LEMMA CheckExistsKnows ==
  ASSUME Inv, Kept, NEW p \in Procs, CheckExists(p)
  PROVE  CallsKnow'
<1> DEFINE c == call[p]
<1>1. CallsOK /\ CallsKnow /\ Grown
  BY SameTablesGrow DEF Inv, RepoOK, Kept, CheckExists, tableVars
<1>2. c \in Call /\ c.pc = "exists" BY <1>1 DEF CallsOK, CheckExists, At
<1>3. Knows(c, record, version, createdBy) BY <1>1 DEF CallsKnow
<1>4. c.op = "save" BY <1>2, <1>3 DEF Knows, AwaitsOwn
<1>5. CASE Answer(p, "exists") BY <1>1, <1>4, <1>5, AnswerKeepsKnowledge DEF Rets
<1>6. CASE Become(p, [c EXCEPT !.pc = "create"])
  <2> DEFINE d == [c EXCEPT !.pc = "create"]
  <2>1. d.pc = "create" /\ d.op = "save" /\ d.ret = c.ret /\ d.row = c.row /\ d.rows = c.rows
    BY <1>2, <1>4 DEF Call
  <2> HIDE DEF d
  <2>2. Knows(d, record', version', createdBy')
    BY <1>2, <1>3, <2>1 DEF Knows, AwaitsOwn, KnowsRecord, KnowsRows, SaidSo, KnowsEdges
  <2>3. QED BY <1>1, <1>6, <2>2, CallStepKeepsKnowledge DEF d
<1>7. QED BY <1>4, <1>5, <1>6 DEF CheckExists

-----------------------------------------------------------------------------
(* The transactions add to the tables.                                     *)

LEMMA SameTablesStayWhole ==
  ASSUME FixedRowsAreWhole, UNCHANGED <<record, version>>
  PROVE  FixedRowsAreWhole'
BY DEF FixedRowsAreWhole

(* Versions stay, and no record becomes Fixed.                             *)
LEMMA GrowthStaysWhole ==
  ASSUME FixedRowsAreWhole, Grown,
         \A i \in Ids : record'[i].state = "fixed" => record[i].state = "fixed" \/ HasWhole(i, version')
  PROVE  FixedRowsAreWhole'
BY DEF FixedRowsAreWhole, HasWhole, Grown

LEMMA CommitCreateKnows ==
  ASSUME Inv, Kept, NEW p \in Procs, CommitCreate(p)
  PROVE  CallsKnow' /\ FixedRowsAreWhole'
<1> DEFINE c == call[p]
<1>1. CallsOK /\ CallsKnow BY DEF Inv, RepoOK, Kept
<1>2. /\ c \in Call /\ c.id \in Ids /\ c.pc = "create" /\ CallOK(c)
      /\ Knows(c, record, version, createdBy)
  BY <1>1 DEF CallsOK, Call, CommitCreate, At, CallsKnow
<1>3. c.op \in {"save", "save_snapshot"} \/ c.op = "add_version"
  BY <1>2 DEF Knows, AwaitsOwn
<1>4. Grown /\ FixedRowsAreWhole'
  <2>1. CASE UNCHANGED tableVars
    BY <2>1, SameTablesGrow, SameTablesStayWhole DEF tableVars, Kept
  <2>2. CASE CanCreate(c.id, c.rows) /\ Create(c.id, c.row, c.rows, c.creator)
    <3>1. record \in [Ids -> RecordRow] BY DEF Inv, RepoOK, TablesOK, TablesTypeOK
    <3>2. \A i \in Ids : record'[i] = IF i = c.id THEN c.row ELSE record[i]
      BY <2>2, <3>1 DEF Create
    <3>3. record[c.id].state = "absent" BY <2>2 DEF CanCreate, Exists
    <3>4. Grown BY <2>2, <3>2, <3>3 DEF Grown, Create
    <3>5. c.row.state = "fixed" => HasWhole(c.id, version')
      BY <1>2, <2>2 DEF Knows, KnowsRows, HasWhole, Create, CallOK, Creatable
    <3>6. QED BY <3>2, <3>4, <3>5, GrowthStaysWhole DEF Kept
  <2>3. QED BY <2>1, <2>2 DEF CommitCreate
<1>5. CASE \E ret \in {"conflict", "ok", "error"} : Answer(p, ret)
  BY <1>1, <1>3, <1>4, <1>5, AnswerKeepsKnowledge DEF Rets
<1>6. CASE Become(p, [c EXCEPT !.pc = "relate"])
  <2> DEFINE d == [c EXCEPT !.pc = "relate"]
  <2>1. d.pc = "relate" /\ d.op = c.op /\ d.ret = c.ret BY <1>2 DEF Call
  <2> HIDE DEF d
  <2>2. c.ret = "none" BY <1>2 DEF Knows, AwaitsOwn
  <2>3. Knows(d, record', version', createdBy')
    BY <1>3, <2>1, <2>2 DEF Knows, AwaitsOwn, KnowsRecord, KnowsRows, SaidSo, KnowsEdges
  <2>4. QED BY <1>1, <1>4, <1>6, <2>3, CallStepKeepsKnowledge DEF d
<1>7. CallsKnow' BY <1>5, <1>6 DEF CommitCreate
<1>8. QED BY <1>4, <1>7

LEMMA CommitRelateKnows ==
  ASSUME Inv, Kept, NEW p \in Procs, CommitRelate(p)
  PROVE  CallsKnow' /\ FixedRowsAreWhole'
<1>1. CallsOK /\ CallsKnow /\ FixedRowsAreWhole BY DEF Inv, RepoOK, Kept
<1>2. UNCHANGED <<record, version, createdBy>> BY DEF CommitRelate, RelateSnapshot
<1>3. call[p].op \in {"save", "save_snapshot", "add_version"}
  BY <1>1 DEF CallsKnow, Knows, AwaitsOwn, CommitRelate, At
<1>4. QED
  BY <1>1, <1>2, <1>3, SameTablesGrow, SameTablesStayWhole, AnswerKeepsKnowledge
     DEF CommitRelate, Rets

LEMMA CommitAppendKnows ==
  ASSUME Inv, Kept, NEW p \in Procs, CommitAppend(p)
  PROVE  CallsKnow' /\ FixedRowsAreWhole'
<1>1. CallsOK /\ CallsKnow /\ FixedRowsAreWhole BY DEF Inv, RepoOK, Kept
<1>2. PICK v \in call[p].rows : AppendVersion(v) BY DEF CommitAppend
<1>3. record \in [Ids -> RecordRow] BY DEF Inv, RepoOK, TablesOK, TablesTypeOK
<1>4. \A i \in Ids : record'[i].state = record[i].state
  BY <1>2, <1>3 DEF AppendVersion, RecordRow
<1>5. Grown BY <1>2, <1>4 DEF Grown, AppendVersion
<1>6. FixedRowsAreWhole' BY <1>1, <1>4, <1>5, GrowthStaysWhole
<1>7. call[p].op \in {"save", "save_snapshot", "add_version"}
  BY <1>1 DEF CallsKnow, Knows, AwaitsOwn, CommitAppend, At
<1>8. QED BY <1>1, <1>5, <1>6, <1>7, AnswerKeepsKnowledge DEF CommitAppend, Rets

(* The record that a transition read is still there, and so is the version *)
(* that it rewrites: Ok means Fixed.                                       *)
LEMMA CommitSealKnows ==
  ASSUME Inv, Kept, NEW p \in Procs, CommitSeal(p)
  PROVE  CallsKnow' /\ FixedRowsAreWhole'
<1> DEFINE c == call[p]
<1>1. CallsOK /\ CallsKnow /\ FixedRowsAreWhole BY DEF Inv, RepoOK, Kept
<1>2. c \in Call /\ c.id \in Ids /\ c.pc = "seal" /\ Knows(c, record, version, createdBy)
  BY <1>1 DEF CallsOK, Call, CommitSeal, At, CallsKnow
<1>3. PICK w \in c.rows : SealRecord(c.id, c.row.hash, c.row.updated, w.vid, w.body)
  BY DEF CommitSeal
<1>4. Whole(w.body) /\ HasRow(c.id, w, version) /\ Exists(c.id)
  BY <1>2 DEF Knows, KnowsRows, KnowsRecord, Exists
<1>5. record \in [Ids -> RecordRow] /\ version \subseteq VersionRow
  BY DEF Inv, RepoOK, TablesOK, TablesTypeOK
<1>6. \A i \in Ids : IF i = c.id THEN record'[i].state = "fixed" ELSE record'[i] = record[i]
  BY <1>3, <1>4, <1>5 DEF SealRecord
<1> DEFINE new(v) == IF v.vid = w.vid THEN [v EXCEPT !.body = w.body] ELSE v
<1>7. \A v \in version : /\ new(v) \in version' /\ new(v).vid = v.vid /\ new(v).rid = v.rid
                         /\ Whole(v.body) => Whole(new(v).body)
                         /\ v.vid = w.vid => Whole(new(v).body)
  BY <1>3, <1>4, <1>5 DEF SealRecord, VersionRow
<1> HIDE DEF new
<1>8. Grown BY <1>3, <1>6, <1>7 DEF Grown, SealRecord
<1>9. HasWhole(c.id, version') BY <1>4, <1>7 DEF HasRow, HasWhole
<1>10. FixedRowsAreWhole' BY <1>1, <1>6, <1>8, <1>9, GrowthStaysWhole
<1>11. record'[c.id].state = "fixed" BY <1>2, <1>6
<1>12. CallsKnow' BY <1>1, <1>8, <1>11, AnswerKeepsKnowledge DEF CommitSeal, Rets
<1>13. QED BY <1>10, <1>12

LEMMA FailKnows ==
  ASSUME Inv, Kept, NEW p \in Procs, Fail(p)
  PROVE  CallsKnow'
<1>1. CallsOK /\ CallsKnow /\ Grown
  BY SameTablesGrow DEF Inv, RepoOK, Kept, Fail, tableVars
<1>2. QED BY <1>1, AnswerKeepsKnowledge DEF Fail, Rets

-----------------------------------------------------------------------------
(* A call that begins knows nothing of the tables; a save has rows to      *)
(* write, of which a Fixed record has a whole one.                         *)

LEMMA StartKnows ==
  ASSUME Inv, Kept, UNCHANGED <<record, version, createdBy>>, NEW p \in Procs, NEW c, Become(p, c),
         c.op \in Methods \ {"delete"},
         \/ c.pc = "row" /\ c.op \in {"find", "transition_to_fixed"} /\ c.ret = "none"
         \/ c.pc = "edges" /\ c.ret = "none"
         \/ c.pc = "append" /\ c.op = "add_version" /\ c.ret = "none"
         \/ c.pc = "idle" /\ c.op = "save" /\ c.ret = "refused"
         \/ /\ \/ c.pc = "exists" /\ c.op = "save"
               \/ c.pc = "create" /\ c.op = "save_snapshot"
            /\ c.ret = "none"
            /\ c.row.state = "fixed" => \E w \in c.rows : Whole(w.body),
         c.todo = {}, c.out = {}
  PROVE  CallsKnow'
<1>1. CallsOK /\ CallsKnow /\ Grown BY SameTablesGrow DEF Inv, RepoOK, Kept
<1>2. Knows(c, record', version', createdBy')
  BY DEF Knows, AwaitsOwn, KnowsRecord, KnowsRows, SaidSo, KnowsEdges
<1>3. QED BY <1>1, <1>2, CallStepKeepsKnowledge

LEMMA IdleHasNothingToSay == Idle.ret = "none" /\ Idle.todo = {} /\ Idle.out = {}
BY DEF Idle

LEMMA StartSaveKnows ==
  ASSUME Inv, Kept, NEW p \in Procs, NEW rec, NEW creator, StartSave(p, rec, creator),
         rec.state = "fixed" => \E j \in DOMAIN rec.chain : Whole(rec.chain[j].body)
  PROVE  CallsKnow'
<1>1. UNCHANGED <<record, version, createdBy>> BY DEF StartSave, tableVars
<1>2. \A now : RowOf(rec, now).state = "fixed" => \E w \in RowsOf(rec, rec.id, now) : Whole(w.body)
  <2> SUFFICES ASSUME NEW now, rec.state = "fixed"
               PROVE  \E w \in RowsOf(rec, rec.id, now) : Whole(w.body)
    BY DEF RowOf
  <2>1. PICK j \in DOMAIN rec.chain : Whole(rec.chain[j].body) OBVIOUS
  <2> DEFINE w == [vid |-> rec.chain[j].vid, rid |-> rec.id, body |-> rec.chain[j].body,
                   at |-> now]
  <2>2. w \in RowsOf(rec, rec.id, now) BY DEF RowsOf
  <2>3. w.body = rec.chain[j].body OBVIOUS
  <2>4. QED BY <2>1, <2>2, <2>3
<1>3. CASE Start(p, "save", [Idle EXCEPT !.id = rec.id, !.ret = "refused"])
  <2> DEFINE c == [[Idle EXCEPT !.id = rec.id, !.ret = "refused"] EXCEPT !.op = "save"]
  <2>1. /\ c.op = "save" /\ c.pc = "idle" /\ c.ret = "refused" /\ c.todo = {} /\ c.out = {}
    BY IdleIsCall, IdleHasNothingToSay DEF Call
  <2> HIDE DEF c
  <2>2. Become(p, c) BY <1>3 DEF Start, c
  <2>3. QED BY <1>1, <2>1, <2>2, StartKnows DEF Methods
<1>4. ASSUME NEW now,
             Start(p, "save", [Idle EXCEPT !.pc = "exists", !.id = rec.id,
                !.creator = creator, !.row = RowOf(rec, now),
                !.rows = RowsOf(rec, rec.id, now)])
      PROVE  CallsKnow'
  <2> DEFINE row == RowOf(rec, now)
             rows == RowsOf(rec, rec.id, now)
             c == [[Idle EXCEPT !.pc = "exists", !.id = rec.id, !.creator = creator,
                                !.row = row, !.rows = rows] EXCEPT !.op = "save"]
  <2>1. row.state = "fixed" => \E w \in rows : Whole(w.body) BY <1>2
  <2> HIDE DEF row, rows
  <2>2. /\ c.op = "save" /\ c.pc = "exists" /\ c.ret = "none" /\ c.row = row /\ c.rows = rows
        /\ c.todo = {} /\ c.out = {}
    BY IdleIsCall, IdleHasNothingToSay DEF Call
  <2> HIDE DEF c
  <2>3. Become(p, c) BY <1>4 DEF Start, c, row, rows
  <2>4. QED BY <1>1, <2>1, <2>2, <2>3, StartKnows DEF Methods
<1>5. QED BY <1>3, <1>4 DEF StartSave

LEMMA StartSaveSnapshotKnows ==
  ASSUME Inv, Kept, NEW p \in Procs, NEW h \in Ids, NEW creator, NEW new,
         StartSaveSnapshot(p, held[h], creator, new)
  PROVE  CallsKnow'
<1> DEFINE rec == held[h]
<1>1. UNCHANGED <<record, version, createdBy>> BY DEF StartSaveSnapshot, tableVars
<1>2. PICK now :
        Start(p, "save_snapshot", [Idle EXCEPT !.pc = "create", !.id = new,
             !.creator = creator, !.source = rec.id, !.row = RowOf(rec, now),
             !.rows = RowsOf(ReMinted(rec), new, now)])
  BY DEF StartSaveSnapshot
<1> DEFINE row == RowOf(rec, now)
           rows == RowsOf(ReMinted(rec), new, now)
           c == [[Idle EXCEPT !.pc = "create", !.id = new, !.creator = creator,
                              !.source = rec.id, !.row = row, !.rows = rows]
                 EXCEPT !.op = "save_snapshot"]
<1>3. row.state # "fixed" BY DEF StartSaveSnapshot, RowOf
<1> HIDE DEF row, rows
<1>4. /\ c.op = "save_snapshot" /\ c.pc = "create" /\ c.ret = "none" /\ c.row = row
      /\ c.todo = {} /\ c.out = {}
  BY IdleIsCall, IdleHasNothingToSay DEF Call
<1> HIDE DEF c
<1>5. Become(p, c) BY <1>2 DEF Start, c, row, rows
<1>6. QED BY <1>1, <1>3, <1>4, <1>5, StartKnows DEF Methods

LEMMA StartFindKnows ==
  ASSUME Inv, Kept, NEW p \in Procs, NEW i, StartFind(p, i)
  PROVE  CallsKnow'
<1> DEFINE c == [[Idle EXCEPT !.pc = "row", !.id = i] EXCEPT !.op = "find"]
<1>1. c.op = "find" /\ c.pc = "row" /\ c.ret = "none" /\ c.todo = {} /\ c.out = {}
  BY IdleIsCall, IdleHasNothingToSay DEF Call
<1> HIDE DEF c
<1>2. Become(p, c) /\ UNCHANGED <<record, version, createdBy>>
  BY DEF StartFind, Start, tableVars, c
<1>3. QED BY <1>1, <1>2, StartKnows DEF Methods

LEMMA StartTransitionKnows ==
  ASSUME Inv, Kept, NEW p \in Procs, NEW i, NEW x, StartTransition(p, i, x)
  PROVE  CallsKnow'
<1> DEFINE c == [[Idle EXCEPT !.pc = "row", !.id = i, !.hash = x] EXCEPT !.op = "transition_to_fixed"]
<1>1. c.op = "transition_to_fixed" /\ c.pc = "row" /\ c.ret = "none" /\ c.todo = {} /\ c.out = {}
  BY IdleIsCall, IdleHasNothingToSay DEF Call
<1> HIDE DEF c
<1>2. Become(p, c) /\ UNCHANGED <<record, version, createdBy>>
  BY DEF StartTransition, Start, tableVars, c
<1>3. QED BY <1>1, <1>2, StartKnows DEF Methods

LEMMA StartListKnows ==
  ASSUME Inv, Kept, NEW p \in Procs, NEW by, StartList(p, by)
  PROVE  CallsKnow'
<1> DEFINE c == [[Idle EXCEPT !.pc = "edges", !.creator = by] EXCEPT !.op = "list_by_creator"]
<1>1. c.op = "list_by_creator" /\ c.pc = "edges" /\ c.ret = "none" /\ c.todo = {} /\ c.out = {}
  BY IdleIsCall, IdleHasNothingToSay DEF Call
<1> HIDE DEF c
<1>2. Become(p, c) /\ UNCHANGED <<record, version, createdBy>>
  BY DEF StartList, Start, tableVars, c
<1>3. QED BY <1>1, <1>2, StartKnows DEF Methods

LEMMA StartAddVersionKnows ==
  ASSUME Inv, Kept, NEW p \in Procs, NEW i, NEW b, StartAddVersion(p, i, b)
  PROVE  CallsKnow'
<1>1. PICK now :
        Start(p, "add_version", [Idle EXCEPT !.pc = "append", !.id = i,
             !.rows = {[vid |-> nextVid, rid |-> i, body |-> b, at |-> now]}])
  BY DEF StartAddVersion
<1> DEFINE rows == {[vid |-> nextVid, rid |-> i, body |-> b, at |-> now]}
           c == [[Idle EXCEPT !.pc = "append", !.id = i, !.rows = rows]
                 EXCEPT !.op = "add_version"]
<1> HIDE DEF rows
<1>2. c.op = "add_version" /\ c.pc = "append" /\ c.ret = "none" /\ c.todo = {} /\ c.out = {}
  BY IdleIsCall, IdleHasNothingToSay DEF Call
<1> HIDE DEF c
<1>3. Become(p, c) /\ UNCHANGED <<record, version, createdBy>>
  BY <1>1 DEF StartAddVersion, Start, tableVars, c, rows
<1>4. QED BY <1>2, <1>3, StartKnows DEF Methods

LEMMA BeginKnows ==
  ASSUME "delete" \notin Ops, Inv, Kept, NEW p \in Procs, Begin(p)
  PROVE  CallsKnow'
<1>1. \A i : ~ StartDelete(p, i) BY DEF StartDelete, Start
<1>2. ASSUME NEW h \in Ids, NEW c \in Creators, StartSave(p, held[h], c) PROVE CallsKnow'
  BY <1>2, StartSaveKnows DEF Kept, FixedHeldAreWhole
<1>3. QED
  BY <1>1, <1>2, StartFindKnows, StartTransitionKnows, StartListKnows, StartAddVersionKnows,
     StartSaveSnapshotKnows DEF Begin

-----------------------------------------------------------------------------
(* Kept is an invariant where nothing is deleted.                          *)

LEMMA HoldKeepsHeldWhole ==
  ASSUME HeldOK, FixedHeldAreWhole, Hold
  PROVE  FixedHeldAreWhole'
<1> USE DEF FixedHeldAreWhole
<1>0. held \in [Ids -> Record] BY DEF HeldOK, CoreTypeOK
<1>1. ASSUME NEW h \in Ids, NEW b \in Bodies, New(h, b) \/ Update(h, b)
      PROVE  FixedHeldAreWhole'
  BY <1>0, <1>1 DEF New, Update, Record
<1>2. ASSUME NEW h \in Ids, NEW g \in Ids, Snapshot(h, g) PROVE FixedHeldAreWhole'
  BY <1>0, <1>2 DEF Snapshot, Record
<1>3. ASSUME NEW h \in Ids, NEW x \in Bytes, Fix(h, x) PROVE FixedHeldAreWhole'
  <2> DEFINE n == Len(held[h].chain)
  <2>1. held[h] \in Record /\ held[h].chain \in Seq(Version) /\ held[h].chain # <<>>
    BY <1>3 DEF HeldOK, CoreTypeOK, DigestExactlyWhenFixed, Record, Fix
  <2>2. n \in DOMAIN held[h].chain /\ held[h].chain[n] \in Version BY <2>1
  <2>3. Fossilize(held[h], x).chain
          = [held[h].chain EXCEPT ![n].body = Fossil(@, x)]
    BY <2>1 DEF Fossilize, Record
  <2>4. /\ n \in DOMAIN Fossilize(held[h], x).chain
        /\ Whole(Fossilize(held[h], x).chain[n].body)
    BY <2>2, <2>3 DEF Version, Whole, Fossil
  <2>5. \A g \in Ids : held'[g] = IF g = h THEN Fossilize(held[h], x) ELSE held[g]
    BY <1>0, <1>3 DEF Fix
  <2>6. QED BY <2>4, <2>5
<1>4. QED BY <1>1, <1>2, <1>3 DEF Hold

LEMMA QueryKeeps ==
  ASSUME Inv, Kept, NEW p \in Procs, Query(p)
  PROVE  Kept'
<1>1. FixedHeldAreWhole' BY DEF Query, Kept, FixedHeldAreWhole
<1>2. CASE ReadEdges(p) \/ ReadRow(p) \/ ReadVersions(p) \/ ReadCreator(p) \/ CheckExists(p)
  <2>1. UNCHANGED <<record, version>>
    BY <1>2 DEF ReadEdges, ReadRow, ReadVersions, ReadCreator, CheckExists, tableVars
  <2>2. CallsKnow'
    BY <1>2, ReadEdgesKnows, ReadRowKnows, ReadVersionsKnows, ReadCreatorKnows, CheckExistsKnows
  <2>3. QED BY <1>1, <2>1, <2>2, SameTablesStayWhole DEF Kept
<1>3. CASE CommitCreate(p) \/ CommitRelate(p) \/ CommitAppend(p) \/ CommitSeal(p)
  BY <1>1, <1>3, CommitCreateKnows, CommitRelateKnows, CommitAppendKnows, CommitSealKnows
     DEF Kept
<1>4. ~ CommitDelete(p) BY DEF Kept, CallsKnow, Knows, AwaitsOwn, CommitDelete, At
<1>5. QED BY <1>2, <1>3, <1>4 DEF Query

LEMMA KeptInitially == Init => Kept
<1> SUFFICES ASSUME Init PROVE Kept OBVIOUS
<1>1. \A p \in Procs : call[p] = Idle BY DEF Init, RepoInit
<1>2. Idle.op = "none" /\ Idle.pc = "idle" /\ Idle.ret = "none" BY DEF Idle
<1>3. CallsKnow
  BY <1>1, <1>2 DEF CallsKnow, Knows, AwaitsOwn, KnowsRecord, KnowsRows, SaidSo, KnowsEdges
<1>4. FixedRowsAreWhole BY DEF Init, RepoInit, TablesInit, NoRow, FixedRowsAreWhole
<1>5. FixedHeldAreWhole BY DEF Init, CoreInit, Nothing, FixedHeldAreWhole
<1>6. QED BY <1>3, <1>4, <1>5 DEF Kept

LEMMA KeptAlways ==
  ASSUME "delete" \notin Ops
  PROVE  Spec => []Kept
<1>1. Inv /\ Kept /\ [Next]_vars => Kept'
  <2> SUFFICES ASSUME Inv, Kept, [Next]_vars PROVE Kept' OBVIOUS
  <2>1. CASE Hold
    <3>1. UNCHANGED <<record, version, createdBy, call>> BY <2>1 DEF Hold, repoVars
    <3>2. CallsKnow' BY <3>1 DEF Kept, CallsKnow
    <3>3. QED BY <2>1, <3>1, <3>2, SameTablesStayWhole, HoldKeepsHeldWhole DEF Kept, Inv
  <2>2. ASSUME NEW p \in Procs, Begin(p) PROVE Kept'
    <3>1. UNCHANGED <<held, record, version>>
      BY <2>2 DEF Begin, StartFind, StartDelete, StartTransition, StartList, StartSave,
                  StartSaveSnapshot, StartAddVersion, tableVars
    <3>2. FixedHeldAreWhole' BY <3>1 DEF Kept, FixedHeldAreWhole
    <3>3. QED BY <2>2, <3>1, <3>2, BeginKnows, SameTablesStayWhole DEF Kept
  <2>3. ASSUME NEW p \in Procs, Fail(p) PROVE Kept'
    <3>1. UNCHANGED <<held, record, version>> BY <2>3 DEF Fail, tableVars
    <3>2. FixedHeldAreWhole' BY <3>1 DEF Kept, FixedHeldAreWhole
    <3>3. QED BY <2>3, <3>1, <3>2, FailKnows, SameTablesStayWhole DEF Kept
  <2>4. CASE UNCHANGED vars
    BY <2>4 DEF vars, repoVars, Kept, CallsKnow, FixedRowsAreWhole, FixedHeldAreWhole
  <2>5. QED BY <2>1, <2>2, <2>3, <2>4, QueryKeeps DEF Next
<1>2. QED BY <1>1, KeptInitially, InvIsInvariant, PTL DEF Spec

-----------------------------------------------------------------------------
(* Where nothing is deleted, transition_to_fixed keeps its word: once it   *)
(* has answered Ok the record is Fixed, and stays so.                      *)
THEOREM AcknowledgedFixesHold ==
  ASSUME "delete" \notin Ops
  PROVE  Spec => []AcknowledgedFixHolds
<1>1. Kept => AcknowledgedFixHolds
  BY DEF Kept, CallsKnow, Knows, SaidSo, AcknowledgedFixHolds
<1>2. QED BY <1>1, KeptAlways, PTL

(* Where nothing is deleted, the three queries of find glue together a     *)
(* record: it has its versions and its creator, and when its row says      *)
(* Fixed, the chain shows it.                                              *)
THEOREM FindsAreAlwaysWhole ==
  ASSUME "delete" \notin Ops
  PROVE  Spec => []FindsAreWhole
<1>1. Kept => FindsAreWhole
  BY DEF Kept, CallsKnow, Knows, SaidSo, KnowsRecord, ReadsWhole, Whole, FindsAreWhole
<1>2. QED BY <1>1, KeptAlways, PTL

(* Where nothing is deleted, list_by_creator is never cut short by a       *)
(* record that it cannot assemble, and lists only what its creator created.*)
THEOREM ListsAreAlwaysWhole ==
  ASSUME "delete" \notin Ops
  PROVE  Spec => []ListsAreWhole
<1>1. Kept => ListsAreWhole
  BY DEF Kept, CallsKnow, Knows, SaidSo, KnowsEdges, ListsAreWhole
<1>2. QED BY <1>1, KeptAlways, PTL
=============================================================================
