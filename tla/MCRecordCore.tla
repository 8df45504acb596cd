--------------------------- MODULE MCRecordCore ---------------------------
(***************************************************************************)
(* Three handles, so that a record, its snapshot and a clone coexist; and  *)
(* every form that each value they come to hold takes on its way to the    *)
(* database and back.  Digests have two bytes: enough for a pair to follow *)
(* another, and for a leading zero in either half.                         *)
(***************************************************************************)
EXTENDS Convert

MCBodies == [form : {"inline", "assets"}, of : Bytes]

CONSTANTS x, y

ASSUME PayloadsAssumption == {x, y} \subseteq Bytes

MCDigestOf == (x :> <<15, 160>>) @@ (y :> <<240, 10>>)

HandlesAreAlike == Permutations(Ids)

MCPlain == {"a", "b"}

(* The kinds and subs of requests: built in or not, known or not, and subs *)
(* that the database has to quote.                                         *)
Requests == {<<"log", <<>>>>, <<"creo:memory", <<"a", "|", "b">>>>,
             <<"asset", <<"a", ":", "b">>>>}

(* The texts that are one character from a digest, or one short of it.     *)
Near(text) ==
  {[text EXCEPT ![i] = c] : i \in DOMAIN text, c \in {"0", "a", "F", "+", "g", "lead"}}
    \cup {Front(text)}

Held == {h \in Ids : held[h].state # "none"}

Stored(h, request) ==
  RecordToPersistedRow(Typed(held[h], ParseKind(request[1]).val),
                       CreatorFromClaims(request[2]))

(* What the rows of a record become when a write is half done, or not by   *)
(* this program.                                                           *)
Tampered(rows) ==
  {[rows EXCEPT !.record.state = state, !.record.content_hash = hash, !.versions = versions] :
     state    \in {"mutable", "snapshot", "fixed", "archived"},
     hash     \in {NoText, Display(DigestOf[x]), <<"F", "0", "0", "a">>},
     versions \in {<<>>, rows.versions, [rows.versions EXCEPT ![1].id = NoUuid]}}

(* convert.rs "round-trip is byte-equal": every record that the program    *)
(* can hold, of every kind and by every creator that a request can name,   *)
(* comes back from the database as it was, under the one state it was      *)
(* saved in, and the API answers with the row that was stored.             *)
RowsRoundTrip ==
  \A h \in Held, request \in Requests :
    LET row  == Stored(h, request)
        rows == ToRows(row)
        back == ReadBack(rows)
    IN  /\ back.ok /\ back.val = Typed(held[h], ParseKind(request[1]).val)
        /\ \A state \in States : TryFrom(row, state).ok <=> state = held[h].state
        /\ rows.creator.table = <<"creo_user">>
        /\ BuildRow(back.val, FromRows(rows).val.creator) = row

(* Whatever is in the rows, what is read from them is a record: a digest   *)
(* exactly in Fixed ones, never an empty chain, UUIDs for version ids.     *)
AcceptedRowsAreRecords ==
  \A h \in Held :
    \A rows \in Tampered(ToRows(Stored(h, <<"log", <<>>>>))) :
      LET back == ReadBack(rows) IN
      back.ok => /\ back.val.hash # NoHash <=> back.val.state = "fixed"
                 /\ back.val.chain # <<>>
                 /\ \A i \in DOMAIN back.val.chain : back.val.chain[i].vid \in Vids

(* The two parsers and Display agree.  The digest of a Fixed record, as it *)
(* is shown, is what both read; and of the texts close to it the database  *)
(* accepts only what Display shows, the API only what it then stores and   *)
(* reads back as the same digest.                                          *)
DigestTextsAgree ==
  \A h \in Held : held[h].state = "fixed" =>
    LET digest == DigestOf[held[h].hash] IN
    /\ ParseStored(Display(digest)) = Ok(digest)
    /\ ParseRequested(Display(digest)) = Ok(digest)
    /\ \A text \in Near(Display(digest)) :
         /\ ParseStored(text).ok =>
              /\ Display(ParseStored(text).val) = text
              /\ ParseRequested(text) = ParseStored(text)
         /\ ParseRequested(text).ok =>
              ParseStored(Display(ParseRequested(text).val)) = ParseRequested(text)
=============================================================================
