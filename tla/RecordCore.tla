---------------------------- MODULE RecordCore ----------------------------
(***************************************************************************)
(* crate objectrecords-core: a Record and its type-state life.             *)
(*                                                                         *)
(*        new            snapshot(&self)                                   *)
(*   ---------> mutable ----------------> snapshot                         *)
(*               |  ^ |                      |                             *)
(*        update +--+ +---- fix(self) ----> fixed                          *)
(*                                                                         *)
(* A program holds record values in variables ("handles").  A handle also  *)
(* names the UUID that Record::new mints when the handle is filled by it,  *)
(* so one set, Ids, serves both.  The consuming methods (fix) replace the  *)
(* value of the handle; the borrowing ones (snapshot, clone) fill another. *)
(*                                                                         *)
(* Abstractions.  A payload is a member of Bytes, and SHA-256 is taken as  *)
(* injective, so the digest of a payload is that member itself.  A body is *)
(* inline, or a reference to a key of the object store: "assets" and       *)
(* "fixed" stand for the keys /assets/<of> and /fixed/<of>, "upload" for   *)
(* any other key.  Record.kind and BlobRef.size are carried along          *)
(* unchanged by every operation and are left out.                          *)
(***************************************************************************)
EXTENDS Integers, Sequences, FiniteSets

CONSTANTS
  Ids,      \* record UUIDs, and the handles that name them
  Bytes,    \* payloads, each standing for its own SHA-256 digest
  NoHash,   \* content_hash = None
  Bodies,   \* the bodies that callers submit
  MaxVid    \* bound on the version ids minted in a run

Forms == {"inline", "assets", "fixed", "upload"}
Body  == [form : Forms, of : Bytes]

ASSUME IdsAssumption    == Ids # {}
ASSUME HashAssumption   == NoHash \notin Bytes
ASSUME BodiesAssumption == Bodies \subseteq Body
ASSUME VidAssumption    == MaxVid \in Nat

VARIABLES
  held,     \* held[h]: the Record value in handle h
  nextVid   \* the next version UUID v7: later ids are larger

coreVars == <<held, nextVid>>

States  == {"mutable", "snapshot", "fixed"}
Vids    == 0 .. MaxVid - 1
Hashes  == Bytes \cup {NoHash}
Version == [vid : Vids, body : Body]
Record  == [state : States \cup {"none"}, id : Ids, hash : Hashes,
            chain : Seq(Version)]

Nothing(h) == [state |-> "none", id |-> h, hash |-> NoHash, chain |-> <<>>]

(* Mutant: a key that was migrated before is taken for the right one.      *)
FossilOnce(body, hash) ==
  IF body.form \in {"inline", "fixed"} THEN body ELSE [form |-> "fixed", of |-> hash]

(* What fossilization makes of the trailing body: a key migrates to        *)
(* /fixed/<hash>, inline bytes stay.                                       *)
Fossil(body, hash) ==
  IF body.form = "inline" THEN body ELSE [form |-> "fixed", of |-> hash]

(* Mutant: the digest is left in the caller's hands.                       *)
FossilizeForgetsHash(rec, hash) ==
  [rec EXCEPT !.state = "fixed", !.chain[Len(rec.chain)].body = Fossil(@, hash)]

Fossilize(rec, hash) ==
  [rec EXCEPT !.state = "fixed", !.hash = hash,
              !.chain[Len(rec.chain)].body = Fossil(@, hash)]

(* Mutant: the id is read after the generator has moved on.                *)
MintLate(body) == [vid |-> nextVid + 1, body |-> body]

Mint(body) == [vid |-> nextVid, body |-> body]

-----------------------------------------------------------------------------
CoreInit == held = [h \in Ids |-> Nothing(h)] /\ nextVid = 0

(* Record::new mints the record id and the first version id.               *)
New(h, body) ==
  /\ held[h].state = "none"
  /\ nextVid < MaxVid
  /\ held' = [held EXCEPT ![h] = [state |-> "mutable", id |-> h,
                                  hash |-> NoHash, chain |-> <<Mint(body)>>]]
  /\ nextVid' = nextVid + 1

(* Mutant: update edits the trailing version.                              *)
UpdateInPlace(h, body) ==
  /\ held[h].state = "mutable"
  /\ held' = [held EXCEPT ![h].chain[Len(held[h].chain)].body = body]
  /\ UNCHANGED nextVid

(* Mutant: update puts the new version first.                              *)
UpdatePrepends(h, body) ==
  /\ held[h].state = "mutable"
  /\ nextVid < MaxVid
  /\ held' = [held EXCEPT ![h].chain = <<Mint(body)>> \o @]
  /\ nextVid' = nextVid + 1

(* Record<Mutable>::update: the only method that grows a chain.            *)
Update(h, body) ==
  /\ held[h].state = "mutable"
  /\ nextVid < MaxVid
  /\ held' = [held EXCEPT ![h].chain = Append(@, Mint(body))]
  /\ nextVid' = nextVid + 1

(* Record<Mutable>::snapshot: an independent copy under the same id.       *)
Snapshot(h, g) ==
  /\ held[h].state = "mutable" /\ held[g].state = "none"
  /\ held' = [held EXCEPT ![g] = [held[h] EXCEPT !.state = "snapshot",
                                                 !.hash = NoHash]]
  /\ UNCHANGED nextVid

(* Mutant: fix is there for every state.                                   *)
FixAgain(h, hash) ==
  /\ held[h].state # "none"
  /\ held' = [held EXCEPT ![h] = Fossilize(held[h], hash)]
  /\ UNCHANGED nextVid

(* Record<Mutable>::fix and Record<Snapshot>::fix, with the caller's hash. *)
Fix(h, hash) ==
  /\ held[h].state \in {"mutable", "snapshot"}
  /\ held' = [held EXCEPT ![h] = Fossilize(held[h], hash)]
  /\ UNCHANGED nextVid

(* The derived Clone of Record.                                            *)
CloneRecord(h, g) ==
  /\ held[h].state # "none" /\ held[g].state = "none"
  /\ held' = [held EXCEPT ![g] = held[h]]
  /\ UNCHANGED nextVid

CoreNext ==
  \E h \in Ids :
    \/ \E b \in Bodies : New(h, b) \/ Update(h, b)
    \/ \E x \in Bytes : Fix(h, x)
    \/ \E g \in Ids \ {h} : Snapshot(h, g) \/ CloneRecord(h, g)

CoreSpec == CoreInit /\ [][CoreNext]_coreVars

-----------------------------------------------------------------------------
CoreTypeOK ==
  /\ held \in [Ids -> Record]
  /\ nextVid \in 0 .. MaxVid

(* Decision #6 and the non-empty chain: the digest is there exactly when   *)
(* the record is Fixed, and no held record is without a version.           *)
DigestExactlyWhenFixed ==
  \A h \in Ids : held[h].state # "none" =>
    /\ held[h].hash # NoHash <=> held[h].state = "fixed"
    /\ held[h].chain # <<>>

(* Two bodies that one version id may show: the same, or keys of which     *)
(* one is the fossilized form of the other (or both are).                  *)
SameVersion(b, c) ==
  \/ b = c
  \/ /\ b.form # "inline" /\ c.form # "inline"
     /\ "fixed" \in {b.form, c.form}

(* Annual rings.  A version id names one body in every copy of a record    *)
(* that is ever made -- snapshots, clones and fossils, however the source  *)
(* evolves afterwards -- up to the migration of its key to /fixed.         *)
VersionIdNamesOneBody ==
  \A g, h \in Ids :
    \A i \in DOMAIN held[g].chain, j \in DOMAIN held[h].chain :
      held[g].chain[i].vid = held[h].chain[j].vid
        => SameVersion(held[g].chain[i].body, held[h].chain[j].body)

(* A chain is written from oldest to newest: UUID v7 ids increase along it.*)
ChainsAreOldestFirst ==
  \A h \in Ids : \A i, j \in DOMAIN held[h].chain :
    i < j => held[h].chain[i].vid < held[h].chain[j].vid

(* Record<Fixed> has no mutating method: once Fixed a value never changes. *)
FixedIsFrozen ==
  [][\A h \in Ids : held[h].state = "fixed" => held'[h] = held[h]]_coreVars
=============================================================================
