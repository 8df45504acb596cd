------------------------------ MODULE Convert ------------------------------
(***************************************************************************)
(* The forms a record takes between the program, the database and the wire *)
(* (crate objectrecords-db: convert.rs, persisted.rs and the row types of  *)
(* repository.rs; the projections and parsers of routes/records.rs):       *)
(*                                                                         *)
(*   Record<S> --> PersistedRow --> rows --> PersistedRow --> AnyRecord    *)
(*                                                               |         *)
(*                                            PersistedRow <-----+  (JSON) *)
(*                                                                         *)
(* and the texts that name a digest, a kind and a creator.                 *)
(*                                                                         *)
(* A text is a sequence of characters where a parser looks at them, and    *)
(* one string where it is compared as a whole.  A multi-byte character is  *)
(* its bytes, "lead" and "cont".  UUIDs are opaque; a row key that is not  *)
(* one is NoUuid.  Timestamps and sizes are left out.                      *)
(***************************************************************************)
EXTENDS RecordCore, SequencesExt

CONSTANTS
  DigestLen,   \* bytes of a digest: 32 in the code
  DigestOf,    \* [Bytes -> digests]
  NoText,      \* content_hash = None in a row
  NoUuid,      \* a key of a row that is no UUID
  Plain        \* the characters that an id may have unquoted

ASSUME DigestAssumption ==
  /\ DigestLen \in Nat
  /\ DigestOf \in [Bytes -> [1 .. DigestLen -> 0 .. 255]]
  /\ \A x, y \in Bytes : DigestOf[x] = DigestOf[y] => x = y

Ok(val)  == [ok |-> TRUE, val |-> val, err |-> "none"]
Err(err) == [ok |-> FALSE, val |-> <<>>, err |-> err]

-----------------------------------------------------------------------------
(* Digests.                                                                *)
HexDigits == <<"0", "1", "2", "3", "4", "5", "6", "7", "8", "9",
               "a", "b", "c", "d", "e", "f">>
Capitals  == {"A", "B", "C", "D", "E", "F"}

(* None, of a digest, of its text and of a version id, is none.            *)
ASSUME NoneAssumption ==
  /\ NoHash \notin [1 .. DigestLen -> 0 .. 255]
  /\ NoText \notin Seq(ToSet(HexDigits))
  /\ NoUuid \notin Vids

(* Mutant: {byte:x} for {byte:02x}, which writes no leading zero.          *)
DisplayUnpadded(digest) ==
  FlattenSeq([i \in DOMAIN digest |->
    IF digest[i] < 16 THEN <<HexDigits[digest[i] + 1]>>
    ELSE <<HexDigits[(digest[i] \div 16) + 1], HexDigits[(digest[i] % 16) + 1]>>])

(* Sha256Hash::Display: {byte:02x} for each byte.                          *)
Display(digest) ==
  [k \in 1 .. 2 * Len(digest) |->
     IF k % 2 = 1 THEN HexDigits[(digest[(k + 1) \div 2] \div 16) + 1]
     ELSE HexDigits[(digest[k \div 2] % 16) + 1]]

IsNibble(c) == Contains(HexDigits, c)
Nibble(c)   == (CHOOSE n \in 1 .. 16 : HexDigits[n] = c) - 1

(* parse_sha256_hex of the database crate, which reads rows.               *)
ParseStored(text) ==
  IF Len(text) = 2 * DigestLen /\ \A i \in DOMAIN text : IsNibble(text[i])
  THEN Ok([i \in 1 .. DigestLen |-> 16 * Nibble(text[2*i - 1]) + Nibble(text[2*i])])
  ELSE Err("MalformedHash")

(* u8::from_str_radix(_, 16) of two characters takes a sign for the first. *)
IsPair(hi, lo) == (IsNibble(hi) \/ hi = "+") /\ IsNibble(lo)
Pair(hi, lo)   == IF hi = "+" THEN Nibble(lo) ELSE 16 * Nibble(hi) + Nibble(lo)

(* parse_sha256_hex of the API crate, which reads requests: byte by byte,  *)
(* until a slice cuts a character in two or does not parse.                *)
ParseRequested(text) ==
  LET CutsChar(i) == text[2*i] = "lead"
      Fails(i)    == CutsChar(i) \/ ~IsPair(text[2*i - 1], text[2*i])
      Failing     == {i \in 1 .. DigestLen : Fails(i)}
  IN  IF Len(text) # 2 * DigestLen \/ \E i \in DOMAIN text : text[i] \in Capitals
      THEN Err("BadRequest")
      ELSE IF Failing = {}
      THEN Ok([i \in 1 .. DigestLen |-> Pair(text[2*i - 1], text[2*i])])
      ELSE Err(IF CutsChar(Min(Failing)) THEN "panic" ELSE "BadRequest")

-----------------------------------------------------------------------------
(* Kinds: the four built-in ones, and any other name.                      *)
BuiltIns == {"log", "fix", "dataset", "asset"}
BuiltIn(name) == [tag |-> name, name |-> "none"]
Custom(name)  == [tag |-> "custom", name |-> name]

KindToString(kind) == IF kind.tag = "custom" THEN kind.name ELSE kind.tag

(* Mutant: everything that the database returns is taken for custom.       *)
KindFromStringCustom(name) == Custom(name)

KindFromString(name) == IF name \in BuiltIns THEN BuiltIn(name) ELSE Custom(name)

(* parse_kind of the API.  Nothing keeps a client from the prefix creo: .  *)
ParseKind(raw) ==
  IF raw = "" THEN Err("BadRequest")
  ELSE Ok(IF raw \in BuiltIns THEN BuiltIn(raw) ELSE Custom(raw))

-----------------------------------------------------------------------------
(* Creators: Thing literals "<table>:<id>".                                *)
CreatorFromClaims(sub) ==
  <<"creo_user", ":">> \o (IF sub = <<>> THEN <<"anonymous">> ELSE sub)

(* Mutant: the literal is split at its last colon.                         *)
ParseThingAtLast(literal) ==
  LET colons == {i \in DOMAIN literal : literal[i] = ":"} IN
  IF colons = {} THEN Err("MalformedHash")
  ELSE Ok([table |-> SubSeq(literal, 1, Max(colons) - 1),
           id    |-> SubSeq(literal, Max(colons) + 1, Len(literal))])

(* parse_thing_literal: at the first.                                      *)
ParseThing(literal) ==
  LET colons == {i \in DOMAIN literal : literal[i] = ":"} IN
  IF colons = {} THEN Err("MalformedHash")
  ELSE Ok([table |-> SubSeq(literal, 1, Min(colons) - 1),
           id    |-> SubSeq(literal, Min(colons) + 1, Len(literal))])

(* type::string of a record id, which quotes what is not alphanumeric.     *)
TypeString(thing) ==
  thing.table \o <<":">> \o
  IF \A i \in DOMAIN thing.id : thing.id[i] \in Plain THEN thing.id
  ELSE <<"backtick">> \o thing.id \o <<"backtick">>

StripThingBackticks(text) == SelectSeq(text, LAMBDA c : c # "backtick")

-----------------------------------------------------------------------------
(* Record<S> -> PersistedRow -> rows.                                      *)
StateLiteral == [mutable |-> "Mutable", snapshot |-> "Snapshot", fixed |-> "Fixed"]
AsLiteral    == [Mutable |-> "mutable", Snapshot |-> "snapshot", Fixed |-> "fixed"]
FromLiteral  == [mutable |-> "Mutable", snapshot |-> "Snapshot", fixed |-> "Fixed"]

BodyToPersisted(body) ==
  IF body.form = "inline" THEN [type |-> "inline", bytes |-> body.of]
  ELSE [type |-> "blob_ref", key |-> [dir |-> body.form, name |-> body.of]]

BodyFromPersisted(body) ==
  IF body.type = "inline" THEN [form |-> "inline", of |-> body.bytes]
  ELSE [form |-> body.key.dir, of |-> body.key.name]

VersionsToPersisted(rec) ==
  [i \in DOMAIN rec.chain |-> [id |-> rec.chain[i].vid, record_id |-> rec.id,
                               body |-> BodyToPersisted(rec.chain[i].body)]]

(* The Record<S> of the program, whose digest is bytes and which has a kind.*)
Typed(rec, kind) ==
  [state |-> rec.state, id |-> rec.id, kind |-> kind, chain |-> rec.chain,
   hash |-> IF rec.hash = NoHash THEN NoHash ELSE DigestOf[rec.hash]]

RecordToPersistedRow(rec, creator) ==
  [record |-> [id |-> rec.id, state |-> StateLiteral[rec.state],
               kind |-> KindToString(rec.kind),
               content_hash |-> IF rec.hash = NoHash THEN NoText ELSE Display(rec.hash)],
   versions |-> VersionsToPersisted(rec), creator |-> creator]

(* RecordRowDb::from_persisted and VersionRowWrite::from_persisted, and    *)
(* the edge, which RELATEs the two parts of the literal.                   *)
ToRows(row) ==
  [row EXCEPT !.record.state = AsLiteral[@], !.creator = ParseThing(@).val]

-----------------------------------------------------------------------------
(* Rows -> PersistedRow -> Record<S>.                                      *)

(* RecordRowDb::into_persisted, then VersionRowRead::into_persisted of     *)
(* each version, then the literal of the edge.                             *)
FromRows(rows) ==
  IF rows.record.state \notin DOMAIN FromLiteral THEN Err("UnknownState")
  ELSE IF \E i \in DOMAIN rows.versions : rows.versions[i].id = NoUuid
  THEN Err("MalformedHash")
  ELSE Ok([rows EXCEPT !.record.state = FromLiteral[@],
                       !.creator = StripThingBackticks(TypeString(@))])

FromParts(row, state, hash) ==
  [state |-> state, id |-> row.record.id, kind |-> KindFromString(row.record.kind),
   hash |-> hash,
   chain |-> [i \in DOMAIN row.versions |->
                [vid |-> row.versions[i].id,
                 body |-> BodyFromPersisted(row.versions[i].body)]]]

(* TryFrom<PersistedRow> for Record<Mutable> and Record<Snapshot>.         *)
TryFromUnfixed(row, state) ==
  IF row.record.state # StateLiteral[state] THEN Err("StateMismatch")
  ELSE IF row.record.content_hash # NoText THEN Err("UnexpectedContentHash")
  ELSE IF row.versions = <<>> THEN Err("EmptyVersionChain")
  ELSE Ok(FromParts(row, state, NoHash))

(* Mutant: the chain of a Fixed record is not looked at.                   *)
TryFromFixedUnseen(row) ==
  IF row.record.state # "Fixed" THEN Err("StateMismatch")
  ELSE IF row.record.content_hash = NoText THEN Err("MissingContentHash")
  ELSE IF ~ParseStored(row.record.content_hash).ok THEN Err("MalformedHash")
  ELSE Ok(FromParts(row, "fixed", ParseStored(row.record.content_hash).val))

(* TryFrom<PersistedRow> for Record<Fixed>.                                *)
TryFromFixed(row) ==
  IF row.record.state # "Fixed" THEN Err("StateMismatch")
  ELSE IF row.record.content_hash = NoText THEN Err("MissingContentHash")
  ELSE IF ~ParseStored(row.record.content_hash).ok THEN Err("MalformedHash")
  ELSE IF row.versions = <<>> THEN Err("EmptyVersionChain")
  ELSE Ok(FromParts(row, "fixed", ParseStored(row.record.content_hash).val))

TryFrom(row, state) ==
  IF state = "fixed" THEN TryFromFixed(row) ELSE TryFromUnfixed(row, state)

(* persisted_row_to_any.                                                   *)
ToAny(row) == TryFrom(row, AsLiteral[row.record.state])

(* What a read makes of rows: the record, without its creator.             *)
ReadBack(rows) == IF FromRows(rows).ok THEN ToAny(FromRows(rows).val) ELSE FromRows(rows)

(* record_with_attribution_to_row and build_row: the answer of the API.    *)
BuildRow(rec, creator) ==
  [record |-> [id |-> rec.id, state |-> StateLiteral[rec.state],
               kind |-> KindToString(rec.kind),
               content_hash |-> IF rec.state = "fixed" THEN Display(rec.hash) ELSE NoText],
   versions |-> VersionsToPersisted(rec), creator |-> creator]
=============================================================================
