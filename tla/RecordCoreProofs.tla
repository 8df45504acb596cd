------------------------- MODULE RecordCoreProofs -------------------------
(***************************************************************************)
(* Proofs about RecordCore: a record value is well formed whatever is done *)
(* with it, a Fixed one never changes, and a version shows one body in     *)
(* every copy that is made.                                                *)
(*                                                                         *)
(* The invariant CoreTypeOK /\ DigestExactlyWhenFixed is inductive.  Each  *)
(* method changes one handle, so it is enough that the value it puts there *)
(* is well formed (the lemmas on Mint and Fossilize) and that the other    *)
(* handles stay (StoreInHandle).                                           *)
(***************************************************************************)
EXTENDS RecordCore, TLAPS

(* What CoreTypeOK and DigestExactlyWhenFixed ask of one handle.           *)
WellFormed(rec) ==
  /\ rec \in Record
  /\ rec.state # "none" =>
       /\ rec.hash # NoHash <=> rec.state = "fixed"
       /\ rec.chain # <<>>

HeldOK == CoreTypeOK /\ DigestExactlyWhenFixed

(* Filling one handle with a well-formed value keeps the invariant.        *)
LEMMA StoreInHandle ==
  ASSUME HeldOK, NEW h \in Ids, NEW rec, WellFormed(rec),
         held' = [held EXCEPT ![h] = rec], nextVid' \in 0 .. MaxVid
  PROVE  HeldOK'
BY DEF HeldOK, CoreTypeOK, DigestExactlyWhenFixed, WellFormed

(* Mint makes a version.                                                   *)
LEMMA MintIsVersion ==
  ASSUME nextVid \in 0 .. MaxVid, nextVid < MaxVid, NEW body \in Body
  PROVE  Mint(body) \in Version
BY VidAssumption DEF Mint, Version, Vids

(* Appending to a chain leaves a chain that is not empty.                  *)
LEMMA AppendToChain ==
  ASSUME NEW c \in Seq(Version), NEW v \in Version
  PROVE  Append(c, v) \in Seq(Version) /\ Append(c, v) # <<>>
<1>1. Append(c, v) \in Seq(Version) /\ Len(Append(c, v)) = Len(c) + 1 OBVIOUS
<1>2. Len(c) + 1 # 0 BY Len(c) \in Nat
<1>3. QED BY <1>1, <1>2

(* Fossilize makes a well-formed Fixed record of any record that has a     *)
(* version.                                                                *)
LEMMA FossilizeWellFormed ==
  ASSUME NEW rec \in Record, rec.chain # <<>>, NEW hash \in Bytes
  PROVE  /\ WellFormed(Fossilize(rec, hash))
         /\ Fossilize(rec, hash).state = "fixed"
<1> DEFINE n == Len(rec.chain)
           c == [rec.chain EXCEPT ![n].body = Fossil(@, hash)]
<1>1. rec.chain \in Seq(Version) BY DEF Record
<1>2. n \in Nat /\ n \in 1 .. n /\ rec.chain \in [1 .. n -> Version]
  BY <1>1
<1>3. Fossil(rec.chain[n].body, hash) \in Body
  BY <1>2 DEF Fossil, Version, Body, Forms
<1>4. c \in [1 .. n -> Version]
  BY <1>2, <1>3 DEF Version
<1>5. c \in Seq(Version) /\ c # <<>>
  BY <1>2, <1>4
<1>6. Fossilize(rec, hash) = [rec EXCEPT !.state = "fixed", !.hash = hash, !.chain = c]
  BY DEF Fossilize, Record
<1>7. QED
  BY <1>5, <1>6, HashAssumption DEF WellFormed, Record, States, Hashes

-----------------------------------------------------------------------------
(* One lemma for each method that changes the held records.                *)

LEMMA NewKeepsHeldOK ==
  ASSUME HeldOK, NEW h \in Ids, NEW b \in Bodies, New(h, b)
  PROVE  HeldOK'
<1> DEFINE rec == [state |-> "mutable", id |-> h, hash |-> NoHash, chain |-> <<Mint(b)>>]
<1>1. nextVid \in 0 .. MaxVid /\ nextVid < MaxVid BY DEF HeldOK, CoreTypeOK, New
<1>2. Mint(b) \in Version BY <1>1, MintIsVersion, BodiesAssumption
<1>3. <<Mint(b)>> \in Seq(Version) /\ <<Mint(b)>> # <<>> BY <1>2
<1>4. WellFormed(rec) BY <1>3 DEF WellFormed, Record, States, Hashes
<1>5. nextVid' \in 0 .. MaxVid BY <1>1, VidAssumption DEF New
<1>6. QED BY <1>4, <1>5, StoreInHandle DEF New

LEMMA UpdateKeepsHeldOK ==
  ASSUME HeldOK, NEW h \in Ids, NEW b \in Bodies, Update(h, b)
  PROVE  HeldOK'
<1> DEFINE rec == [held[h] EXCEPT !.chain = Append(@, Mint(b))]
<1>1. nextVid \in 0 .. MaxVid /\ nextVid < MaxVid BY DEF HeldOK, CoreTypeOK, Update
<1>2. Mint(b) \in Version BY <1>1, MintIsVersion, BodiesAssumption
<1>3. held \in [Ids -> Record] /\ held[h].state = "mutable" /\ held[h].hash = NoHash
  BY DEF HeldOK, CoreTypeOK, DigestExactlyWhenFixed, Update
<1>4. held[h].chain \in Seq(Version) BY <1>3 DEF Record
<1>5. Append(held[h].chain, Mint(b)) \in Seq(Version) /\ Append(held[h].chain, Mint(b)) # <<>>
  BY <1>2, <1>4, AppendToChain
<1>6. WellFormed(rec) BY <1>3, <1>5 DEF WellFormed, Record
<1>7. held' = [held EXCEPT ![h] = rec] BY <1>3 DEF Update
<1>8. nextVid' \in 0 .. MaxVid BY <1>1, VidAssumption DEF Update
<1>9. QED BY <1>6, <1>7, <1>8, StoreInHandle

LEMMA SnapshotKeepsHeldOK ==
  ASSUME HeldOK, NEW h \in Ids, NEW g \in Ids, Snapshot(h, g)
  PROVE  HeldOK'
<1> DEFINE rec == [held[h] EXCEPT !.state = "snapshot", !.hash = NoHash]
<1>1. held \in [Ids -> Record] /\ held[h].state = "mutable" /\ held[h].chain # <<>>
  BY DEF HeldOK, CoreTypeOK, DigestExactlyWhenFixed, Snapshot
<1>2. held[h] \in Record BY <1>1
<1>3. rec \in Record BY <1>2 DEF Record, States, Hashes
<1>4. rec.state = "snapshot" /\ rec.hash = NoHash /\ rec.chain = held[h].chain
  BY <1>2 DEF Record
<1>5. WellFormed(rec) BY <1>1, <1>3, <1>4 DEF WellFormed
<1>6. QED BY <1>5, StoreInHandle DEF Snapshot, HeldOK, CoreTypeOK

LEMMA FixKeepsHeldOK ==
  ASSUME HeldOK, NEW h \in Ids, NEW x \in Bytes, Fix(h, x)
  PROVE  HeldOK'
<1>1. held[h] \in Record /\ held[h].chain # <<>>
  BY DEF HeldOK, CoreTypeOK, DigestExactlyWhenFixed, Fix
<1>2. WellFormed(Fossilize(held[h], x)) BY <1>1, FossilizeWellFormed
<1>3. QED BY <1>2, StoreInHandle DEF Fix, HeldOK, CoreTypeOK

LEMMA CloneKeepsHeldOK ==
  ASSUME HeldOK, NEW h \in Ids, NEW g \in Ids, CloneRecord(h, g)
  PROVE  HeldOK'
<1>1. WellFormed(held[h])
  BY DEF HeldOK, CoreTypeOK, DigestExactlyWhenFixed, WellFormed
<1>2. QED BY <1>1, StoreInHandle DEF CloneRecord, HeldOK, CoreTypeOK

LEMMA CoreStepKeepsHeldOK ==
  ASSUME HeldOK, CoreNext
  PROVE  HeldOK'
BY NewKeepsHeldOK, UpdateKeepsHeldOK, SnapshotKeepsHeldOK, FixKeepsHeldOK, CloneKeepsHeldOK
   DEF CoreNext

LEMMA HeldOKInitially == CoreInit => HeldOK
BY VidAssumption
   DEF CoreInit, HeldOK, CoreTypeOK, DigestExactlyWhenFixed, Nothing, Record, Hashes

-----------------------------------------------------------------------------
(* Every value a program can hold is a record: typed, with a version, and  *)
(* with a digest exactly when it is Fixed.                                 *)
THEOREM HeldRecordsAreWellFormed == CoreSpec => [](CoreTypeOK /\ DigestExactlyWhenFixed)
<1>1. HeldOK /\ [CoreNext]_coreVars => HeldOK'
  BY CoreStepKeepsHeldOK
     DEF coreVars, HeldOK, CoreTypeOK, DigestExactlyWhenFixed
<1>2. QED BY <1>1, HeldOKInitially, PTL DEF CoreSpec, HeldOK

(* Types.                                                                  *)
THEOREM HeldRecordsAreTyped == CoreSpec => []CoreTypeOK
BY HeldRecordsAreWellFormed, PTL

(* No method mutates a Fixed record: whatever the program does, a handle   *)
(* whose value is Fixed keeps that very value.                             *)
THEOREM FixedRecordsAreFrozen == CoreSpec => FixedIsFrozen
<1> DEFINE Frozen == \A h \in Ids : held[h].state = "fixed" => held'[h] = held[h]
<1>1. CoreTypeOK /\ [CoreNext]_coreVars => [Frozen]_coreVars
  <2> SUFFICES ASSUME CoreTypeOK, CoreNext PROVE Frozen OBVIOUS
  <2> held \in [Ids -> Record] BY DEF CoreTypeOK
  <2>1. ASSUME NEW h \in Ids, NEW b \in Bodies, New(h, b) PROVE Frozen
    BY <2>1 DEF New
  <2>2. ASSUME NEW h \in Ids, NEW b \in Bodies, Update(h, b) PROVE Frozen
    BY <2>2 DEF Update
  <2>3. ASSUME NEW h \in Ids, NEW x \in Bytes, Fix(h, x) PROVE Frozen
    BY <2>3 DEF Fix
  <2>4. ASSUME NEW h \in Ids, NEW g \in Ids, Snapshot(h, g) PROVE Frozen
    BY <2>4 DEF Snapshot
  <2>5. ASSUME NEW h \in Ids, NEW g \in Ids, CloneRecord(h, g) PROVE Frozen
    BY <2>5 DEF CloneRecord
  <2>6. QED BY <2>1, <2>2, <2>3, <2>4, <2>5 DEF CoreNext
<1>2. QED BY <1>1, HeldRecordsAreTyped, PTL DEF CoreSpec, FixedIsFrozen

-----------------------------------------------------------------------------
(* Annual rings.  Neither property is inductive alone: that the ids already *)
(* handed out lie below the generator is what makes a new ring the last one *)
(* of its chain and a stranger to every other.                             *)

RingsBelow ==
  \A h \in Ids : \A i \in DOMAIN held[h].chain : held[h].chain[i].vid < nextVid

Rings == RingsBelow /\ ChainsAreOldestFirst /\ VersionIdNamesOneBody

(* A ring after a step may be the ring before it, its key migrated or not. *)
Descends(new, old) ==
  /\ new.vid = old.vid
  /\ \/ new.body = old.body
     \/ old.body.form # "inline" /\ new.body.form = "fixed"

(* Every chain is a copy of one there was, ring by ring, of the same record.*)
ChainsCopied ==
  /\ nextVid' = nextVid
  /\ \A g \in Ids : \E h \in Ids :
       /\ held'[g].id = held[h].id
       /\ DOMAIN held'[g].chain = DOMAIN held[h].chain
       /\ \A i \in DOMAIN held[h].chain : Descends(held'[g].chain[i], held[h].chain[i])

(* One chain starts, or goes on, with the next id; the others stay.        *)
ChainGrown(h, v) ==
  /\ nextVid' = nextVid + 1 /\ v.vid = nextVid
  /\ \E c \in {<<>>, held[h].chain} :
       /\ held'[h].chain = Append(c, v)
       /\ c # <<>> => held'[h].id = held[h].id
  /\ \A g \in Ids \ {h} : held'[g] = held[g]

(* Two bodies of one version stay bodies of one version when either key    *)
(* migrates.                                                               *)
LEMMA DescentKeepsSameVersion ==
  ASSUME NEW v, NEW w, NEW x, NEW y, SameVersion(v.body, w.body),
         Descends(x, v), Descends(y, w)
  PROVE  SameVersion(x.body, y.body)
BY DEF SameVersion, Descends

(* Fossilizing changes the last ring only, and that by migrating its key.  *)
LEMMA FossilizeDescends ==
  ASSUME NEW rec \in Record, rec.chain # <<>>, NEW hash \in Bytes
  PROVE  /\ Fossilize(rec, hash).id = rec.id
         /\ DOMAIN Fossilize(rec, hash).chain = DOMAIN rec.chain
         /\ \A i \in DOMAIN rec.chain :
              Descends(Fossilize(rec, hash).chain[i], rec.chain[i])
<1> DEFINE n == Len(rec.chain)
<1>1. rec.chain \in Seq(Version) BY DEF Record
<1>2. n \in 1 .. n /\ DOMAIN rec.chain = 1 .. n /\ rec.chain \in [1 .. n -> Version]
  BY <1>1
<1>3. /\ Fossilize(rec, hash).chain = [rec.chain EXCEPT ![n].body = Fossil(@, hash)]
      /\ Fossilize(rec, hash).id = rec.id
  BY DEF Fossilize, Record
<1>4. Descends(Fossilize(rec, hash).chain[n], rec.chain[n])
  BY <1>2, <1>3 DEF Descends, Fossil, Version, Body
<1>5. ASSUME NEW i \in 1 .. n, i # n
      PROVE  Descends(Fossilize(rec, hash).chain[i], rec.chain[i])
  BY <1>2, <1>3, <1>5 DEF Descends
<1>6. QED BY <1>2, <1>3, <1>4, <1>5

LEMMA StepCopiesOrGrows ==
  ASSUME HeldOK, CoreNext
  PROVE  ChainsCopied \/ \E h \in Ids, v \in Version : ChainGrown(h, v)
<1> USE DEF HeldOK, CoreTypeOK
<1>1. ASSUME NEW h \in Ids, NEW b \in Bodies, New(h, b)
      PROVE  \E v \in Version : ChainGrown(h, v)
  <2>1. Mint(b) \in Version BY <1>1, MintIsVersion, BodiesAssumption DEF New
  <2>2. held'[h].chain = <<Mint(b)>> BY <1>1 DEF New
  <2>3. Append(<<>>, Mint(b)) = <<Mint(b)>> OBVIOUS
  <2>4. ChainGrown(h, Mint(b)) BY <1>1, <2>2, <2>3 DEF ChainGrown, New, Mint
  <2>5. QED BY <2>1, <2>4
<1>2. ASSUME NEW h \in Ids, NEW b \in Bodies, Update(h, b)
      PROVE  \E v \in Version : ChainGrown(h, v)
  <2>1. Mint(b) \in Version BY <1>2, MintIsVersion, BodiesAssumption DEF Update
  <2>2. held[h] \in Record OBVIOUS
  <2>3. held'[h].chain = Append(held[h].chain, Mint(b)) /\ held'[h].id = held[h].id
    BY <1>2, <2>2 DEF Update, Record
  <2>4. ChainGrown(h, Mint(b)) BY <1>2, <2>3 DEF ChainGrown, Update, Mint
  <2>5. QED BY <2>1, <2>4
<1>3. ASSUME NEW h \in Ids, NEW x \in Bytes, Fix(h, x) PROVE ChainsCopied
  <2>1. held[h] \in Record /\ held[h].chain # <<>>
    BY <1>3 DEF DigestExactlyWhenFixed, Fix
  <2>2. held'[h] = Fossilize(held[h], x) /\ \A g \in Ids \ {h} : held'[g] = held[g]
    BY <1>3 DEF Fix
  <2>3. ASSUME NEW g \in Ids
        PROVE  /\ held'[g].id = held[g].id
               /\ DOMAIN held'[g].chain = DOMAIN held[g].chain
               /\ \A i \in DOMAIN held[g].chain : Descends(held'[g].chain[i], held[g].chain[i])
    <3>1. CASE g = h BY <2>1, <2>2, <3>1, FossilizeDescends
    <3>2. CASE g # h BY <2>2, <3>2 DEF Descends
    <3>3. QED BY <3>1, <3>2
  <2>4. QED BY <1>3, <2>3 DEF ChainsCopied, Fix
<1>4. ASSUME NEW h \in Ids, NEW g \in Ids, Snapshot(h, g) PROVE ChainsCopied
  <2>1. /\ held'[g].chain = held[h].chain /\ held'[g].id = held[h].id
        /\ \A k \in Ids \ {g} : held'[k] = held[k]
    BY <1>4 DEF Snapshot, Record
  <2>2. QED BY <1>4, <2>1 DEF ChainsCopied, Snapshot, Descends
<1>5. ASSUME NEW h \in Ids, NEW g \in Ids, CloneRecord(h, g) PROVE ChainsCopied
  <2>1. /\ held'[g].chain = held[h].chain /\ held'[g].id = held[h].id
        /\ \A k \in Ids \ {g} : held'[k] = held[k]
    BY <1>5 DEF CloneRecord
  <2>2. QED BY <1>5, <2>1 DEF ChainsCopied, CloneRecord, Descends
<1>6. QED BY <1>1, <1>2, <1>3, <1>4, <1>5 DEF CoreNext

(* A held ring has an id and the chain its natural positions.              *)
LEMMA RingsAreVersions ==
  ASSUME HeldOK, NEW h \in Ids
  PROVE  /\ held[h].chain \in Seq(Version)
         /\ \A i \in DOMAIN held[h].chain :
              i \in Nat /\ held[h].chain[i].vid \in Nat
<1>1. held[h] \in Record BY DEF HeldOK, CoreTypeOK
<1>2. held[h].chain \in Seq(Version) BY <1>1 DEF Record
<1>3. \A i \in DOMAIN held[h].chain : i \in Nat /\ held[h].chain[i] \in Version BY <1>2
<1>4. \A w \in Version : w.vid \in Nat BY VidAssumption DEF Version, Vids
<1>5. QED BY <1>2, <1>3, <1>4

LEMMA CopiesKeepRings ==
  ASSUME HeldOK, Rings, ChainsCopied
  PROVE  Rings'
<1>1. ASSUME NEW g \in Ids
      PROVE  \E h \in Ids :
               /\ DOMAIN held'[g].chain = DOMAIN held[h].chain
               /\ \A i \in DOMAIN held[h].chain : Descends(held'[g].chain[i], held[h].chain[i])
  BY DEF ChainsCopied
<1>2. RingsBelow'
  <2>1. ASSUME NEW g \in Ids, NEW i \in DOMAIN held'[g].chain
        PROVE  held'[g].chain[i].vid < nextVid'
    <3>1. PICK h \in Ids : i \in DOMAIN held[h].chain
                           /\ Descends(held'[g].chain[i], held[h].chain[i])
      BY <1>1
    <3>2. held[h].chain[i].vid < nextVid BY <3>1 DEF Rings, RingsBelow
    <3>3. QED BY <3>1, <3>2 DEF Descends, ChainsCopied
  <2>2. QED BY <2>1 DEF RingsBelow
<1>3. ChainsAreOldestFirst'
  BY <1>1 DEF Rings, ChainsAreOldestFirst, Descends
<1>4. ASSUME NEW g \in Ids, NEW h \in Ids,
             NEW i \in DOMAIN held'[g].chain, NEW j \in DOMAIN held'[h].chain,
             held'[g].chain[i].vid = held'[h].chain[j].vid
      PROVE  SameVersion(held'[g].chain[i].body, held'[h].chain[j].body)
  <2>1. PICK a \in Ids : i \in DOMAIN held[a].chain /\ Descends(held'[g].chain[i], held[a].chain[i])
    BY <1>1
  <2>2. PICK b \in Ids : j \in DOMAIN held[b].chain /\ Descends(held'[h].chain[j], held[b].chain[j])
    BY <1>1
  <2>3. held[a].chain[i].vid = held[b].chain[j].vid
    BY <1>4, <2>1, <2>2 DEF Descends
  <2>4. SameVersion(held[a].chain[i].body, held[b].chain[j].body)
    BY <2>1, <2>2, <2>3 DEF Rings, VersionIdNamesOneBody
  <2>5. QED BY <2>1, <2>2, <2>4, DescentKeepsSameVersion
<1>5. VersionIdNamesOneBody' BY <1>4 DEF VersionIdNamesOneBody
<1>6. QED BY <1>2, <1>3, <1>5 DEF Rings

LEMMA GrowthKeepsRings ==
  ASSUME HeldOK, Rings, NEW f \in Ids, NEW v \in Version, ChainGrown(f, v)
  PROVE  Rings'
<1>1. PICK c \in {<<>>, held[f].chain} : held'[f].chain = Append(c, v)
  BY DEF ChainGrown
<1> DEFINE n == Len(c) + 1
<1>2. nextVid \in Nat BY VidAssumption DEF HeldOK, CoreTypeOK
<1>3. c \in Seq(Version)
  <2>1. <<>> \in Seq(Version) /\ held[f].chain \in Seq(Version) BY RingsAreVersions
  <2>2. QED BY <2>1
<1>4. Len(c) \in Nat /\ DOMAIN c = 1 .. Len(c) BY <1>3
<1>5. /\ DOMAIN held'[f].chain = 1 .. n
      /\ held'[f].chain[n] = v
      /\ \A i \in 1 .. Len(c) : held'[f].chain[i] = c[i]
  BY <1>1, <1>3
<1>6. \A i \in 1 .. Len(c) : i \in DOMAIN held[f].chain /\ c[i] = held[f].chain[i]
  BY <1>1, <1>4
<1>7. \A g \in Ids \ {f} : held'[g] = held[g] BY DEF ChainGrown
<1>8. v.vid = nextVid /\ nextVid' = nextVid + 1 BY DEF ChainGrown
(* Every ring is one there was, with an older id, or the new one.          *)
<1>9. ASSUME NEW g \in Ids, NEW i \in DOMAIN held'[g].chain
      PROVE  /\ i \in Nat
             /\ \/ g = f /\ i = n /\ held'[g].chain[i] = v
                \/ /\ i \in DOMAIN held[g].chain
                   /\ held'[g].chain[i] = held[g].chain[i]
                   /\ held[g].chain[i].vid \in Nat /\ held[g].chain[i].vid < nextVid
                   /\ g = f => i < n
  <2>1. \A j \in DOMAIN held[g].chain :
          j \in Nat /\ held[g].chain[j].vid \in Nat /\ held[g].chain[j].vid < nextVid
    BY RingsAreVersions DEF Rings, RingsBelow
  <2>2. CASE g # f BY <1>7, <2>1, <2>2
  <2>3. CASE g = f /\ i = n BY <1>4, <1>5, <2>3
  <2>4. CASE g = f /\ i # n
    <3>1. i \in 1 .. Len(c) /\ i < n BY <1>4, <1>5, <2>4
    <3>2. QED BY <1>5, <1>6, <2>1, <2>4, <3>1
  <2>5. QED BY <2>2, <2>3, <2>4
<1>10. RingsBelow' BY <1>2, <1>8, <1>9 DEF RingsBelow
<1>11. ASSUME NEW g \in Ids, NEW i \in DOMAIN held'[g].chain, NEW j \in DOMAIN held'[g].chain,
              i < j
       PROVE  held'[g].chain[i].vid < held'[g].chain[j].vid
  <2>1. CASE g = f /\ j = n
    <3>1. i # n BY <1>9, <1>11, <2>1
    <3>2. QED BY <1>5, <1>8, <1>9, <2>1, <3>1
  <2>2. CASE ~ (g = f /\ j = n)
    <3>1. j \in DOMAIN held[g].chain /\ held'[g].chain[j] = held[g].chain[j] /\ (g = f => j < n)
      BY <1>9, <2>2
    <3>2. ~ (g = f /\ i = n) BY <1>4, <1>9, <1>11, <3>1
    <3>3. i \in DOMAIN held[g].chain /\ held'[g].chain[i] = held[g].chain[i] BY <1>9, <3>2
    <3>4. QED BY <1>11, <3>1, <3>3 DEF Rings, ChainsAreOldestFirst
  <2>3. QED BY <2>1, <2>2
<1>12. ChainsAreOldestFirst' BY <1>11 DEF ChainsAreOldestFirst
<1>13. ASSUME NEW g \in Ids, NEW h \in Ids,
              NEW i \in DOMAIN held'[g].chain, NEW j \in DOMAIN held'[h].chain,
              held'[g].chain[i].vid = held'[h].chain[j].vid
       PROVE  SameVersion(held'[g].chain[i].body, held'[h].chain[j].body)
  <2>1. CASE held'[g].chain[i] = v /\ held'[h].chain[j] = v BY <2>1 DEF SameVersion
  <2>2. CASE /\ i \in DOMAIN held[g].chain /\ held'[g].chain[i] = held[g].chain[i]
             /\ j \in DOMAIN held[h].chain /\ held'[h].chain[j] = held[h].chain[j]
    BY <1>13, <2>2 DEF Rings, VersionIdNamesOneBody
  <2>3. QED BY <1>2, <1>8, <1>9, <1>13, <2>1, <2>2
<1>14. VersionIdNamesOneBody' BY <1>13 DEF VersionIdNamesOneBody
<1>15. QED BY <1>10, <1>12, <1>14 DEF Rings

LEMMA RingsInitially == CoreInit => Rings
BY DEF CoreInit, Nothing, Rings, RingsBelow, ChainsAreOldestFirst, VersionIdNamesOneBody

LEMMA RingsAlways == CoreSpec => []Rings
<1>1. HeldOK /\ Rings /\ [CoreNext]_coreVars => Rings'
  <2>1. ASSUME HeldOK, Rings, CoreNext PROVE Rings'
    BY <2>1, StepCopiesOrGrows, CopiesKeepRings, GrowthKeepsRings
  <2>2. ASSUME Rings, UNCHANGED coreVars PROVE Rings'
    BY <2>2 DEF coreVars, Rings, RingsBelow, ChainsAreOldestFirst, VersionIdNamesOneBody
  <2>3. QED BY <2>1, <2>2
<1>2. CoreSpec => []HeldOK BY HeldRecordsAreWellFormed, PTL DEF HeldOK
<1>3. QED BY <1>1, <1>2, RingsInitially, PTL DEF CoreSpec

(* Chains are written from oldest to newest, in every copy ever made:      *)
(* update (the only method that adds a version) puts it last, with an id   *)
(* above all the others.                                                   *)
THEOREM ChainsGrowForward == CoreSpec => []ChainsAreOldestFirst
BY RingsAlways, PTL DEF Rings

(* Annual rings: however records are snapshot, cloned, updated and fixed,  *)
(* a version id shows one body wherever it appears, but for the migration  *)
(* of its key that fix makes.                                              *)
THEOREM RingsNeverChange == CoreSpec => []VersionIdNamesOneBody
BY RingsAlways, PTL DEF Rings
=============================================================================
