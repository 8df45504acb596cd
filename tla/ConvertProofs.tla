--------------------------- MODULE ConvertProofs ---------------------------
(***************************************************************************)
(* Proofs about Convert, for digests of any length: Display and the two    *)
(* parsers of a digest agree, what is read from rows is a record whoever   *)
(* wrote them, and a record comes back as it was saved.                    *)
(*                                                                         *)
(* None of this is about steps, so no new invariant is needed: what the    *)
(* conversions do is proved for every digest, row and well-formed record,  *)
(* and that the program holds only well-formed records is RecordCoreProofs.*)
(* One thing is taken as a hypothesis where it is needed                   *)
(* (QuotingIsUndone): that stripping quotes undoes quoting is an induction *)
(* over the text, and TLC evaluates it for the texts of the run.           *)
(***************************************************************************)
EXTENDS MCRecordCore, RecordCoreProofs, SequenceTheorems

Digests == [1 .. DigestLen -> 0 .. 255]

-----------------------------------------------------------------------------
(* The digits.                                                             *)

LEMMA DigitsDiffer ==
  \A i, j \in 1 .. 16 : HexDigits[i] = HexDigits[j] => i = j
BY DEF HexDigits

LEMMA DigitsAreOrdinary ==
  \A i \in 1 .. 16 : /\ HexDigits[i] # "+" /\ HexDigits[i] # "lead"
                     /\ HexDigits[i] \notin Capitals
BY DEF HexDigits, Capitals

LEMMA HexDigitsLen == Len(HexDigits) = 16
BY DEF HexDigits

LEMMA NibbleOfDigit ==
  ASSUME NEW n \in 0 .. 15
  PROVE  IsNibble(HexDigits[n + 1]) /\ Nibble(HexDigits[n + 1]) = n
<1> DEFINE m == CHOOSE i \in 1 .. 16 : HexDigits[i] = HexDigits[n + 1]
<1>1. n + 1 \in 1 .. 16 OBVIOUS
<1>2. m \in 1 .. 16 /\ HexDigits[m] = HexDigits[n + 1] BY <1>1
<1>3. m = n + 1 BY <1>1, <1>2, DigitsDiffer
<1>4. IsNibble(HexDigits[n + 1]) BY <1>1, HexDigitsLen DEF IsNibble, Contains
<1>5. Nibble(HexDigits[n + 1]) = m - 1 BY DEF Nibble
<1> HIDE DEF m
<1> QED BY <1>3, <1>4, <1>5

LEMMA DigitOfNibble ==
  ASSUME NEW c, IsNibble(c)
  PROVE  /\ Nibble(c) \in 0 .. 15 /\ HexDigits[Nibble(c) + 1] = c
         /\ c # "+" /\ c # "lead" /\ c \notin Capitals
<1> DEFINE m == CHOOSE i \in 1 .. 16 : HexDigits[i] = c
<1>1. \E i \in 1 .. 16 : HexDigits[i] = c BY HexDigitsLen DEF IsNibble, Contains
<1>2. m \in 1 .. 16 /\ HexDigits[m] = c BY <1>1
<1>3. Nibble(c) = m - 1 BY DEF Nibble
<1>4. c # "+" /\ c # "lead" /\ c \notin Capitals BY <1>2, DigitsAreOrdinary
<1> HIDE DEF m
<1>5. Nibble(c) \in 0 .. 15 /\ Nibble(c) + 1 = m BY <1>2, <1>3
<1> QED BY <1>2, <1>4, <1>5

LEMMA HalvesOfByte ==
  \A a \in 0 .. 255 : a \div 16 \in 0 .. 15 /\ a % 16 \in 0 .. 15
                        /\ 16 * (a \div 16) + (a % 16) = a
OBVIOUS

LEMMA ByteOfHalves ==
  \A a, b \in 0 .. 15 : /\ 16 * a + b \in 0 .. 255
                        /\ (16 * a + b) \div 16 = a /\ (16 * a + b) % 16 = b
OBVIOUS

LEMMA Pairing ==
  \A n \in Nat : /\ \A i \in 1 .. n :
                      /\ 2 * i - 1 \in 1 .. 2 * n /\ 2 * i \in 1 .. 2 * n
                      /\ (2 * i - 1) % 2 = 1 /\ (2 * i) % 2 # 1
                      /\ (2 * i - 1 + 1) \div 2 = i /\ (2 * i) \div 2 = i
                 /\ \A k \in 1 .. 2 * n :
                      \/ (k + 1) \div 2 \in 1 .. n /\ k % 2 = 1 /\ k = 2 * ((k + 1) \div 2) - 1
                      \/ k \div 2 \in 1 .. n /\ k % 2 # 1 /\ k = 2 * (k \div 2)
OBVIOUS

-----------------------------------------------------------------------------
(* Texts of digests.                                                       *)

LEMMA DigestIsSeq ==
  ASSUME NEW d \in Digests
  PROVE  Len(d) = DigestLen /\ DigestLen \in Nat
<1>1. d \in [1 .. DigestLen -> 0 .. 255] /\ DigestLen \in Nat
  BY DigestAssumption DEF Digests
<1>2. d \in Seq(0 .. 255) BY <1>1
<1> QED BY <1>1, <1>2, LenProperties

(* A function on 1 .. n is a text of n characters.                         *)
LEMMA CharactersMakeText ==
  ASSUME NEW n \in Nat, NEW D, D = [k \in 1 .. n |-> D[k]]
  PROVE  Len(D) = n /\ \E S : D \in Seq(S)
<1> DEFINE S == {D[k] : k \in 1 .. n}
<1>1. \A k \in 1 .. n : D[k] \in S OBVIOUS
<1> HIDE DEF S
<1>2. D \in [1 .. n -> S] BY <1>1
<1>3. D \in Seq(S) BY <1>2
<1>4. DOMAIN D = 1 .. n BY <1>2
<1>5. DOMAIN D = 1 .. Len(D) /\ Len(D) \in Nat BY <1>3, LenProperties
<1>6. \A m \in Nat : 1 .. m = 1 .. n => m = n OBVIOUS
<1>7. Len(D) = n BY <1>4, <1>5, <1>6
<1> QED BY <1>3, <1>7

(* What is where in the text of a digest.                                  *)
LEMMA DisplayShows ==
  ASSUME NEW d \in Digests
  PROVE  /\ DOMAIN Display(d) = 1 .. 2 * DigestLen
         /\ Len(Display(d)) = 2 * DigestLen
         /\ \A k \in 1 .. 2 * DigestLen : IsNibble(Display(d)[k])
         /\ \A i \in 1 .. DigestLen :
              /\ Nibble(Display(d)[2 * i - 1]) = d[i] \div 16
              /\ Nibble(Display(d)[2 * i]) = d[i] % 16
<1> DEFINE D == Display(d)
<1>1. Len(d) = DigestLen /\ DigestLen \in Nat BY DigestIsSeq
<1>2. D = [k \in 1 .. 2 * DigestLen |->
             IF k % 2 = 1 THEN HexDigits[(d[(k + 1) \div 2] \div 16) + 1]
             ELSE HexDigits[(d[k \div 2] % 16) + 1]]
  BY <1>1 DEF Display
<1>3. \A i \in 1 .. DigestLen : d[i] \in 0 .. 255 BY DEF Digests
<1>4. \A i \in 1 .. DigestLen : d[i] \div 16 \in 0 .. 15 /\ d[i] % 16 \in 0 .. 15
  BY <1>3, HalvesOfByte
<1>5. ASSUME NEW i \in 1 .. DigestLen
      PROVE  /\ D[2 * i - 1] = HexDigits[(d[i] \div 16) + 1]
             /\ D[2 * i] = HexDigits[(d[i] % 16) + 1]
  BY <1>1, <1>2, Pairing
<1> HIDE DEF D
<1>6. ASSUME NEW i \in 1 .. DigestLen
      PROVE  /\ IsNibble(D[2 * i - 1]) /\ Nibble(D[2 * i - 1]) = d[i] \div 16
             /\ IsNibble(D[2 * i]) /\ Nibble(D[2 * i]) = d[i] % 16
  BY <1>4, <1>5, NibbleOfDigit
<1>7. ASSUME NEW k \in 1 .. 2 * DigestLen PROVE IsNibble(D[k])
  <2>1. CASE k % 2 = 1
    <3>1. (k + 1) \div 2 \in 1 .. DigestLen /\ k = 2 * ((k + 1) \div 2) - 1
      BY <1>1, <2>1, Pairing
    <3> QED BY <3>1, <1>6
  <2>2. CASE k % 2 # 1
    <3>1. k \div 2 \in 1 .. DigestLen /\ k = 2 * (k \div 2) BY <1>1, <2>2, Pairing
    <3> QED BY <3>1, <1>6
  <2> QED BY <2>1, <2>2
<1>8. DOMAIN D = 1 .. 2 * DigestLen BY <1>2
<1>9. Len(D) = 2 * DigestLen
  <2>1. D = [k \in 1 .. 2 * DigestLen |-> D[k]] BY <1>2
  <2>2. 2 * DigestLen \in Nat BY <1>1
  <2> QED BY <2>1, <2>2, CharactersMakeText
<1> QED BY <1>6, <1>7, <1>8, <1>9 DEF D

LEMMA DisplayIsParsed ==
  ASSUME NEW d \in Digests
  PROVE  ParseStored(Display(d)) = Ok(d) /\ ParseRequested(Display(d)) = Ok(d)
<1> DEFINE D == Display(d)
<1>1. /\ DOMAIN D = 1 .. 2 * DigestLen /\ Len(D) = 2 * DigestLen
      /\ \A k \in 1 .. 2 * DigestLen : IsNibble(D[k])
      /\ \A i \in 1 .. DigestLen :
           Nibble(D[2 * i - 1]) = d[i] \div 16 /\ Nibble(D[2 * i]) = d[i] % 16
  BY DisplayShows
<1>2. DigestLen \in Nat BY DigestIsSeq
<1>3. \A i \in 1 .. DigestLen : d[i] \in 0 .. 255 BY DEF Digests
<1> HIDE DEF D
<1>4. \A i \in 1 .. DigestLen : 16 * Nibble(D[2 * i - 1]) + Nibble(D[2 * i]) = d[i]
  BY <1>1, <1>3, HalvesOfByte
<1>5. [i \in 1 .. DigestLen |-> 16 * Nibble(D[2 * i - 1]) + Nibble(D[2 * i])] = d
  BY <1>4 DEF Digests
<1>6. ParseStored(D) = Ok(d) BY <1>1, <1>5 DEF ParseStored
<1>7. \A k \in 1 .. 2 * DigestLen : D[k] # "lead" /\ D[k] # "+" /\ D[k] \notin Capitals
  BY <1>1, DigitOfNibble
<1>8. \A i \in 1 .. DigestLen : 2 * i - 1 \in 1 .. 2 * DigestLen /\ 2 * i \in 1 .. 2 * DigestLen
  BY <1>2, Pairing
<1>9. \A i \in 1 .. DigestLen : /\ D[2 * i] # "lead" /\ IsPair(D[2 * i - 1], D[2 * i])
                                /\ Pair(D[2 * i - 1], D[2 * i]) = d[i]
  BY <1>1, <1>4, <1>7, <1>8 DEF IsPair, Pair
<1>10. [i \in 1 .. DigestLen |-> Pair(D[2 * i - 1], D[2 * i])] = d
  BY <1>9 DEF Digests
<1>11. ParseRequested(D) = Ok(d) BY <1>1, <1>7, <1>9, <1>10 DEF ParseRequested
<1> QED BY <1>6, <1>11 DEF D

(* A text that the database accepts is what Display shows of its value, and*)
(* the API reads the same.                                                 *)
LEMMA StoredTextIsDisplay ==
  ASSUME NEW S, NEW D \in Seq(S), ParseStored(D).ok
  PROVE  /\ ParseStored(D).val \in Digests
         /\ Display(ParseStored(D).val) = D
         /\ ParseRequested(D) = ParseStored(D)
<1> DEFINE d == [i \in 1 .. DigestLen |-> 16 * Nibble(D[2 * i - 1]) + Nibble(D[2 * i])]
<1>1. /\ Len(D) = 2 * DigestLen /\ \A k \in DOMAIN D : IsNibble(D[k])
      /\ ParseStored(D) = Ok(d)
  BY DEF ParseStored, Ok, Err
<1>2. DOMAIN D = 1 .. 2 * DigestLen /\ D \in [1 .. 2 * DigestLen -> S]
  BY <1>1, LenProperties
<1>3. DigestLen \in Nat BY DigestAssumption
<1>4. \A k \in 1 .. 2 * DigestLen :
        /\ Nibble(D[k]) \in 0 .. 15 /\ D[k] = HexDigits[Nibble(D[k]) + 1]
        /\ D[k] # "lead" /\ D[k] # "+" /\ D[k] \notin Capitals
  BY <1>1, <1>2, DigitOfNibble
<1>5. \A i \in 1 .. DigestLen : 2 * i - 1 \in 1 .. 2 * DigestLen /\ 2 * i \in 1 .. 2 * DigestLen
  BY <1>3, Pairing
<1>6. \A i \in 1 .. DigestLen :
        /\ d[i] \in 0 .. 255
        /\ d[i] \div 16 = Nibble(D[2 * i - 1]) /\ d[i] % 16 = Nibble(D[2 * i])
  BY <1>4, <1>5, ByteOfHalves
<1>7. d \in Digests BY <1>6 DEF Digests
<1>8. ParseRequested(D) = Ok(d)
  <2>1. \A i \in 1 .. DigestLen :
          /\ D[2 * i] # "lead" /\ IsPair(D[2 * i - 1], D[2 * i])
          /\ Pair(D[2 * i - 1], D[2 * i]) = 16 * Nibble(D[2 * i - 1]) + Nibble(D[2 * i])
    BY <1>1, <1>2, <1>4, <1>5 DEF IsPair, Pair
  <2>2. [i \in 1 .. DigestLen |-> Pair(D[2 * i - 1], D[2 * i])] = d BY <2>1
  <2> HIDE DEF d
  <2> QED BY <1>1, <1>2, <1>4, <2>1, <2>2 DEF ParseRequested
<1> HIDE DEF d
<1>9. Display(d) = D
  <2>1. Len(d) = DigestLen BY <1>7, DigestIsSeq
  <2>2. ASSUME NEW k \in 1 .. 2 * DigestLen
        PROVE  D[k] = IF k % 2 = 1 THEN HexDigits[(d[(k + 1) \div 2] \div 16) + 1]
                      ELSE HexDigits[(d[k \div 2] % 16) + 1]
    <3>1. CASE k % 2 = 1
      <4>1. (k + 1) \div 2 \in 1 .. DigestLen /\ k = 2 * ((k + 1) \div 2) - 1
        BY <1>3, <3>1, Pairing
      <4>2. d[(k + 1) \div 2] \div 16 = Nibble(D[k]) BY <4>1, <1>6
      <4> QED BY <3>1, <4>2, <1>4
    <3>2. CASE k % 2 # 1
      <4>1. k \div 2 \in 1 .. DigestLen /\ k = 2 * (k \div 2) BY <1>3, <3>2, Pairing
      <4>2. d[k \div 2] % 16 = Nibble(D[k]) BY <4>1, <1>6
      <4> QED BY <3>2, <4>2, <1>4
    <3> QED BY <3>1, <3>2
  <2>3. Display(d) =
          [k \in 1 .. 2 * DigestLen |->
             IF k % 2 = 1 THEN HexDigits[(d[(k + 1) \div 2] \div 16) + 1]
             ELSE HexDigits[(d[k \div 2] % 16) + 1]]
    BY <2>1 DEF Display
  <2> QED BY <1>2, <2>2, <2>3
<1> QED BY <1>1, <1>7, <1>8, <1>9 DEF Ok

(* What the API accepts is a digest.                                       *)
LEMMA RequestedIsDigest ==
  ASSUME NEW S, NEW D \in Seq(S), ParseRequested(D).ok
  PROVE  ParseRequested(D).val \in Digests /\ ParseRequested(D) = Ok(ParseRequested(D).val)
<1> DEFINE d == [i \in 1 .. DigestLen |-> Pair(D[2 * i - 1], D[2 * i])]
<1>1. /\ \A i \in 1 .. DigestLen : IsPair(D[2 * i - 1], D[2 * i])
      /\ ParseRequested(D) = Ok(d)
  BY DEF ParseRequested, Ok, Err
<1>2. ASSUME NEW i \in 1 .. DigestLen PROVE d[i] \in 0 .. 255
  <2>1. IsPair(D[2 * i - 1], D[2 * i]) BY <1>1
  <2>2. Nibble(D[2 * i]) \in 0 .. 15 BY <2>1, DigitOfNibble DEF IsPair
  <2>3. CASE D[2 * i - 1] = "+" BY <2>2, <2>3 DEF Pair
  <2>4. CASE D[2 * i - 1] # "+"
    <3>1. Nibble(D[2 * i - 1]) \in 0 .. 15 BY <2>1, <2>4, DigitOfNibble DEF IsPair
    <3>2. d[i] = 16 * Nibble(D[2 * i - 1]) + Nibble(D[2 * i]) BY <2>4 DEF Pair
    <3>3. 16 * Nibble(D[2 * i - 1]) + Nibble(D[2 * i]) \in 0 .. 255
      BY <2>2, <3>1, ByteOfHalves
    <3> QED BY <3>2, <3>3
  <2> QED BY <2>3, <2>4
<1>3. d \in Digests BY <1>2 DEF Digests
<1> QED BY <1>1, <1>3 DEF Ok

(* The texts near one are texts.                                           *)
LEMMA NearAreTexts ==
  ASSUME NEW S, NEW D \in Seq(S), NEW text \in Near(D)
  PROVE  \E T : text \in Seq(T)
<1>1. DOMAIN D = 1 .. Len(D) /\ Len(D) \in Nat /\ \A i \in 1 .. Len(D) : D[i] \in S
  BY LenProperties
<1>2. CASE text = Front(D)
  <2>1. \A i \in 1 .. Len(D) - 1 : D[i] \in S BY <1>1
  <2>2. SubSeq(D, 1, Len(D) - 1) \in Seq(S) BY <1>1, <2>1, SubSeqProperties
  <2> QED BY <1>2, <2>2 DEF Front
<1>3. ASSUME NEW i \in DOMAIN D, NEW c \in {"0", "a", "F", "+", "g", "lead"},
             text = [D EXCEPT ![i] = c]
      PROVE  text \in Seq(S \cup {c})
  <2>1. D \in Seq(S \cup {c}) BY <1>1
  <2> QED BY <1>1, <1>3, <2>1
<1> QED BY <1>2, <1>3 DEF Near

LEMMA DisplayIsText ==
  ASSUME NEW digest \in Digests
  PROVE  \E S : Display(digest) \in Seq(S)
<1> DEFINE D == Display(digest)
<1>1. DOMAIN D = 1 .. 2 * DigestLen /\ 2 * DigestLen \in Nat
  BY DisplayShows, DigestIsSeq
<1>2. Len(digest) = DigestLen BY DigestIsSeq
<1>3. D = [k \in 1 .. 2 * DigestLen |-> D[k]] BY <1>2 DEF Display
<1> HIDE DEF D
<1> QED BY <1>1, <1>3, CharactersMakeText DEF D

(* The parsers and Display agree about any digest.                         *)
LEMMA ParsersAgreeOnDigest ==
  ASSUME NEW digest \in Digests
  PROVE  /\ ParseStored(Display(digest)) = Ok(digest)
         /\ ParseRequested(Display(digest)) = Ok(digest)
         /\ \A text \in Near(Display(digest)) :
              /\ ParseStored(text).ok =>
                   /\ Display(ParseStored(text).val) = text
                   /\ ParseRequested(text) = ParseStored(text)
              /\ ParseRequested(text).ok =>
                   ParseStored(Display(ParseRequested(text).val)) = ParseRequested(text)
<1>1. PICK S : Display(digest) \in Seq(S) BY DisplayIsText
<1>2. ASSUME NEW text \in Near(Display(digest))
      PROVE  /\ ParseStored(text).ok =>
                  /\ Display(ParseStored(text).val) = text
                  /\ ParseRequested(text) = ParseStored(text)
             /\ ParseRequested(text).ok =>
                  ParseStored(Display(ParseRequested(text).val)) = ParseRequested(text)
  <2>1. PICK T : text \in Seq(T) BY <1>1, NearAreTexts
  <2>2. ASSUME ParseStored(text).ok
        PROVE  Display(ParseStored(text).val) = text /\ ParseRequested(text) = ParseStored(text)
    BY <2>1, <2>2, StoredTextIsDisplay
  <2>3. ASSUME ParseRequested(text).ok
        PROVE  ParseStored(Display(ParseRequested(text).val)) = ParseRequested(text)
    BY <2>1, <2>3, RequestedIsDigest, DisplayIsParsed
  <2> QED BY <2>2, <2>3
<1> QED BY <1>2, DisplayIsParsed

-----------------------------------------------------------------------------
(* Rows.                                                                   *)

(* A database can answer with any row of this shape.                       *)
AnyRows(id, state, kind, hash, versions, creator) ==
  [record |-> [id |-> id, state |-> state, kind |-> kind, content_hash |-> hash],
   versions |-> versions, creator |-> creator]

(* Both directions translate the state and the creator of such rows.       *)
LEMMA StateOfRows ==
  ASSUME NEW id, NEW state, NEW kind, NEW hash, NEW versions, NEW creator, NEW L
  PROVE  [AnyRows(id, state, kind, hash, versions, creator) EXCEPT !.record.state = L[@]]
           = AnyRows(id, L[state], kind, hash, versions, creator)
BY DEF AnyRows

LEMMA RowsRead ==
  ASSUME NEW id, NEW state, NEW kind, NEW hash, NEW versions, NEW creator,
         FromRows(AnyRows(id, state, kind, hash, versions, creator)).ok
  PROVE  /\ state \in States /\ \A i \in DOMAIN versions : versions[i].id # NoUuid
         /\ FromRows(AnyRows(id, state, kind, hash, versions, creator))
              = Ok(AnyRows(id, FromLiteral[state], kind, hash, versions,
                           StripThingBackticks(TypeString(creator))))
<1>1. PICK R : R = AnyRows(id, state, kind, hash, versions, creator) OBVIOUS
<1>2. [R EXCEPT !.record.state = FromLiteral[@]]
        = AnyRows(id, FromLiteral[state], kind, hash, versions, creator)
  BY <1>1, StateOfRows
<1>3. PICK Q : Q = AnyRows(id, FromLiteral[state], kind, hash, versions, creator) OBVIOUS
<1>4. [Q EXCEPT !.creator = StripThingBackticks(TypeString(@))]
        = AnyRows(id, FromLiteral[state], kind, hash, versions,
                  StripThingBackticks(TypeString(creator)))
  BY <1>3 DEF AnyRows
<1>5. [R EXCEPT !.record.state = FromLiteral[@],
                !.creator = StripThingBackticks(TypeString(@))]
        = [Q EXCEPT !.creator = StripThingBackticks(TypeString(@))]
  BY <1>2, <1>3
<1>6. R.record.state = state /\ R.versions = versions BY <1>1 DEF AnyRows
<1>7. /\ state \in DOMAIN FromLiteral /\ \A i \in DOMAIN versions : versions[i].id # NoUuid
      /\ FromRows(R) = Ok([R EXCEPT !.record.state = FromLiteral[@],
                                    !.creator = StripThingBackticks(TypeString(@))])
  <2>1. FromRows(R).ok BY <1>1
  <2> QED BY <2>1, <1>6 DEF FromRows, Err
<1>8. DOMAIN FromLiteral = States BY DEF FromLiteral, States
<1> QED BY <1>1, <1>4, <1>5, <1>7, <1>8

LEMMA RowsWritten ==
  ASSUME NEW id, NEW state, NEW kind, NEW hash, NEW versions, NEW creator
  PROVE  ToRows(AnyRows(id, state, kind, hash, versions, creator))
           = AnyRows(id, AsLiteral[state], kind, hash, versions, ParseThing(creator).val)
<1>1. PICK R : R = AnyRows(id, state, kind, hash, versions, creator) OBVIOUS
<1>2. [R EXCEPT !.record.state = AsLiteral[@]]
        = AnyRows(id, AsLiteral[state], kind, hash, versions, creator)
  BY <1>1, StateOfRows
<1>3. PICK Q : Q = AnyRows(id, AsLiteral[state], kind, hash, versions, creator) OBVIOUS
<1>4. [Q EXCEPT !.creator = ParseThing(@).val]
        = AnyRows(id, AsLiteral[state], kind, hash, versions, ParseThing(creator).val)
  BY <1>3 DEF AnyRows
<1>5. ToRows(R) = [Q EXCEPT !.creator = ParseThing(@).val] BY <1>2, <1>3 DEF ToRows
<1> QED BY <1>1, <1>4, <1>5

(* And the parts that a write can have left in another state.              *)
LEMMA RowsTampered ==
  ASSUME NEW id, NEW state, NEW kind, NEW hash, NEW versions, NEW creator,
         NEW rows \in Tampered(AnyRows(id, state, kind, hash, versions, creator))
  PROVE  \E s : \E t \in {NoText, Display(DigestOf[x]), <<"F", "0", "0", "a">>} :
           \E v \in {<<>>, versions, [versions EXCEPT ![1].id = NoUuid]} :
             rows = AnyRows(id, s, kind, t, v, creator)
<1>1. PICK R : R = AnyRows(id, state, kind, hash, versions, creator) OBVIOUS
<1>2. R.versions = versions BY <1>1 DEF AnyRows
<1>3. rows \in Tampered(R) BY <1>1
<1>4. PICK s \in {"mutable", "snapshot", "fixed", "archived"},
           t \in {NoText, Display(DigestOf[x]), <<"F", "0", "0", "a">>},
           v \in {<<>>, R.versions, [R.versions EXCEPT ![1].id = NoUuid]} :
        rows = [R EXCEPT !.record.state = s, !.record.content_hash = t, !.versions = v]
  BY <1>3 DEF Tampered
<1>5. [R EXCEPT !.record.state = s] = AnyRows(id, s, kind, hash, versions, creator)
  BY <1>1 DEF AnyRows
<1>6. [AnyRows(id, s, kind, hash, versions, creator) EXCEPT !.record.content_hash = t]
        = AnyRows(id, s, kind, t, versions, creator)
  BY DEF AnyRows
<1>7. [AnyRows(id, s, kind, t, versions, creator) EXCEPT !.versions = v]
        = AnyRows(id, s, kind, t, v, creator)
  BY DEF AnyRows
<1>8. rows = AnyRows(id, s, kind, t, v, creator) BY <1>4, <1>5, <1>6, <1>7
<1> QED BY <1>2, <1>4, <1>8

IsText(hash) == hash = NoText \/ \E S : hash \in Seq(S)

(* What TryFrom makes of a PersistedRow is a record: it refuses a Fixed one*)
(* without a digest, any other with one, and every one without a version.  *)
LEMMA TryFromMakesRecord ==
  ASSUME NEW row, NEW state \in States, IsText(row.record.content_hash),
         TryFrom(row, state).ok
  PROVE  /\ TryFrom(row, state).val.state = state
         /\ TryFrom(row, state).val.hash # NoHash <=> state = "fixed"
         /\ row.versions # <<>>
         /\ TryFrom(row, state).val.chain =
              [i \in DOMAIN row.versions |->
                 [vid |-> row.versions[i].id,
                  body |-> BodyFromPersisted(row.versions[i].body)]]
<1>1. CASE state = "fixed"
  <2> DEFINE parsed == ParseStored(row.record.content_hash)
  <2>1. /\ row.record.content_hash # NoText /\ parsed.ok /\ row.versions # <<>>
        /\ TryFrom(row, state) = Ok(FromParts(row, "fixed", parsed.val))
    BY <1>1 DEF TryFrom, TryFromFixed, Ok, Err
  <2>2. parsed.val \in Digests BY <2>1, StoredTextIsDisplay DEF IsText
  <2>3. parsed.val # NoHash BY <2>2, NoneAssumption DEF Digests
  <2> HIDE DEF parsed
  <2> QED BY <1>1, <2>1, <2>3 DEF Ok, FromParts
<1>2. CASE state # "fixed"
  <2>1. row.versions # <<>> /\ TryFrom(row, state) = Ok(FromParts(row, state, NoHash))
    BY <1>2 DEF TryFrom, TryFromUnfixed, Ok, Err
  <2> QED BY <1>2, <2>1 DEF Ok, FromParts
<1> QED BY <1>1, <1>2

(* So whoever wrote the rows, what is read from them has a digest exactly  *)
(* when it is Fixed, has a version, and shows only ids that the rows have. *)
LEMMA ReadBackMakesRecord ==
  ASSUME NEW id, NEW state, NEW kind, NEW hash, NEW versions, NEW creator,
         IsText(hash), ReadBack(AnyRows(id, state, kind, hash, versions, creator)).ok
  PROVE  LET back == ReadBack(AnyRows(id, state, kind, hash, versions, creator)).val IN
         /\ back.hash # NoHash <=> back.state = "fixed"
         /\ versions # <<>>
         /\ \A i \in DOMAIN versions : versions[i].id # NoUuid
         /\ DOMAIN back.chain = DOMAIN versions
         /\ \A i \in DOMAIN versions : back.chain[i].vid = versions[i].id
<1> DEFINE rows == AnyRows(id, state, kind, hash, versions, creator)
           row  == AnyRows(id, FromLiteral[state], kind, hash, versions,
                           StripThingBackticks(TypeString(creator)))
<1>1. /\ state \in States /\ \A i \in DOMAIN versions : versions[i].id # NoUuid
      /\ FromRows(rows) = Ok(row)
  <2>1. FromRows(rows).ok BY DEF ReadBack
  <2> QED BY <2>1, RowsRead
<1>2. AsLiteral[FromLiteral[state]] = state
  BY <1>1 DEF AsLiteral, FromLiteral, States
<1>3. ReadBack(rows) = TryFrom(row, state)
  BY <1>1, <1>2 DEF ReadBack, ToAny, Ok, AnyRows
<1>4. row.versions = versions /\ row.record.content_hash = hash BY DEF AnyRows
<1> HIDE DEF rows, row
<1>5. TryFrom(row, state).ok BY <1>3 DEF rows
<1>6. /\ TryFrom(row, state).val.state = state
      /\ TryFrom(row, state).val.hash # NoHash <=> state = "fixed"
      /\ row.versions # <<>>
      /\ TryFrom(row, state).val.chain =
           [i \in DOMAIN row.versions |->
              [vid |-> row.versions[i].id,
               body |-> BodyFromPersisted(row.versions[i].body)]]
  BY <1>1, <1>4, <1>5, TryFromMakesRecord
<1> QED BY <1>1, <1>3, <1>4, <1>6 DEF rows

-----------------------------------------------------------------------------
(* The way there and back.                                                 *)

LEMMA DisplayIsSomeText ==
  ASSUME NEW digest \in Digests
  PROVE  Display(digest) # NoText
<1> DEFINE D == Display(digest)
<1>1. DOMAIN D = 1 .. 2 * DigestLen /\ 2 * DigestLen \in Nat
      /\ \A k \in 1 .. 2 * DigestLen : IsNibble(D[k])
  BY DisplayShows, DigestIsSeq
<1>2. Len(digest) = DigestLen BY DigestIsSeq
<1>3. D = [k \in 1 .. 2 * DigestLen |-> D[k]] BY <1>2 DEF Display
<1>4. \A i \in 1 .. 16 : HexDigits[i] \in ToSet(HexDigits) BY DEF HexDigits, ToSet
<1> HIDE DEF D
<1>5. \A k \in 1 .. 2 * DigestLen : D[k] \in ToSet(HexDigits)
  <2> SUFFICES ASSUME NEW k \in 1 .. 2 * DigestLen PROVE D[k] \in ToSet(HexDigits) OBVIOUS
  <2>1. Nibble(D[k]) \in 0 .. 15 /\ HexDigits[Nibble(D[k]) + 1] = D[k]
    BY <1>1, DigitOfNibble
  <2> QED BY <1>4, <2>1
<1>6. D \in [1 .. 2 * DigestLen -> ToSet(HexDigits)] BY <1>3, <1>5
<1>7. D \in Seq(ToSet(HexDigits)) BY <1>1, <1>6
<1> QED BY <1>7, NoneAssumption DEF D

(* Every name of a kind that a request can give is what its kind becomes,  *)
(* and comes back as that kind.                                            *)
LEMMA KindComesBack ==
  ASSUME NEW raw, raw # ""
  PROVE  /\ KindToString(ParseKind(raw).val) = raw
         /\ KindFromString(raw) = ParseKind(raw).val
BY DEF ParseKind, KindToString, KindFromString, BuiltIn, Custom, BuiltIns, Ok

LEMMA BodyComesBack ==
  ASSUME NEW body \in Body
  PROVE  BodyFromPersisted(BodyToPersisted(body)) = body
BY DEF Body, Forms, BodyFromPersisted, BodyToPersisted

LEMMA StateComesBack ==
  ASSUME NEW state \in States
  PROVE  /\ AsLiteral[StateLiteral[state]] = state /\ FromLiteral[state] = StateLiteral[state]
         /\ state \in DOMAIN FromLiteral
         /\ StateLiteral[state] = "Fixed" <=> state = "fixed"
BY DEF States, AsLiteral, StateLiteral, FromLiteral

LEMMA StatesDiffer ==
  \A state, other \in States : StateLiteral[state] = StateLiteral[other] => state = other
BY DEF States, StateLiteral

(* The edge names the whole sub, whatever colons are in it.                *)
LEMMA ThingOfCreator ==
  ASSUME NEW S, NEW sub \in Seq(S)
  PROVE  ParseThing(CreatorFromClaims(sub)).val
           = [table |-> <<"creo_user">>, id |-> IF sub = <<>> THEN <<"anonymous">> ELSE sub]
<1> DEFINE id      == IF sub = <<>> THEN <<"anonymous">> ELSE sub
           T       == S \cup {"anonymous", "creo_user", ":"}
           literal == CreatorFromClaims(sub)
           colons  == {i \in DOMAIN literal : literal[i] = ":"}
<1>1. id \in Seq(T)
  <2>1. sub \in Seq(T) BY LenProperties
  <2>2. <<"anonymous">> \in Seq(T) OBVIOUS
  <2> QED BY <2>1, <2>2
<1> HIDE DEF id
<1>2. literal = <<"creo_user", ":">> \o id BY DEF CreatorFromClaims, id
<1>3. <<"creo_user", ":">> \in Seq(T) /\ Len(<<"creo_user", ":">>) = 2 OBVIOUS
<1>4. /\ literal \in Seq(T) /\ Len(literal) = 2 + Len(id) /\ Len(id) \in Nat
      /\ literal[1] = "creo_user" /\ literal[2] = ":"
      /\ \A i \in 1 .. Len(id) : literal[i + 2] = id[i]
  BY <1>1, <1>2, <1>3
<1> HIDE DEF T, literal
<1>5. DOMAIN literal = 1 .. 2 + Len(id) BY <1>4
<1>6. 2 \in colons /\ \A i \in colons : 2 =< i /\ i \in Nat BY <1>4, <1>5
<1>7. Min(colons) = 2
  <2> HIDE DEF colons
  <2>1. \E i \in colons : \A j \in colons : i =< j BY <1>6
  <2>2. /\ Min(colons) \in colons
        /\ \A j \in colons : Min(colons) =< j
    BY <2>1 DEF Min
  <2> QED BY <1>6, <2>2
<1>8. SubSeq(literal, 1, 1) = <<"creo_user">>
  <2> DEFINE s == SubSeq(literal, 1, 1)
  <2>1. \A i \in 1 .. 1 : literal[i] \in T BY <1>4, <1>5
  <2>2. s \in Seq(T) /\ Len(s) = 1 /\ s[1] = literal[1] BY <2>1, SubSeqProperties
  <2> HIDE DEF s
  <2>3. <<"creo_user">> \in Seq(T) BY DEF T
  <2>4. s = <<"creo_user">> BY <1>4, <2>2, <2>3, SeqEqual
  <2> QED BY <2>4 DEF s
<1>9. SubSeq(literal, 3, Len(literal)) = id
  <2> DEFINE s == SubSeq(literal, 3, Len(literal))
  <2>1. \A i \in 3 .. 2 + Len(id) : literal[i] \in T BY <1>4, <1>5
  <2>2. /\ s \in Seq(T) /\ Len(s) = Len(id)
        /\ \A i \in 1 .. Len(id) : s[i] = literal[3 + i - 1]
    BY <1>4, <2>1, SubSeqProperties
  <2> HIDE DEF s
  <2>3. \A i \in 1 .. Len(id) : s[i] = id[i] BY <1>4, <2>2
  <2>4. s = id BY <1>1, <2>2, <2>3, SeqEqual
  <2> QED BY <2>4 DEF s
<1>10. ParseThing(literal) =
         Ok([table |-> SubSeq(literal, 1, Min(colons) - 1),
             id    |-> SubSeq(literal, Min(colons) + 1, Len(literal))])
  <2>1. colons # {} BY <1>6
  <2> QED BY <2>1 DEF ParseThing
<1> HIDE DEF colons
<1>11. ParseThing(literal).val = [table |-> <<"creo_user">>, id |-> id]
  <2>1. Min(colons) - 1 = 1 /\ Min(colons) + 1 = 3 BY <1>7
  <2>2. ParseThing(literal) = Ok([table |-> <<"creo_user">>, id |-> id])
    BY <2>1, <1>8, <1>9, <1>10
  <2> QED BY <2>2 DEF Ok
<1> QED BY <1>11 DEF literal, id

LEMMA FirstOfChain ==
  ASSUME NEW S, NEW chain \in Seq(S), chain # <<>>
  PROVE  1 \in DOMAIN chain
BY LenProperties, EmptySeq

(* The record that the parts of a row make.                                *)
Parts(id, state, kind, hash, versions) ==
  [state |-> state, id |-> id, kind |-> KindFromString(kind), hash |-> hash,
   chain |-> [i \in DOMAIN versions |->
                [vid |-> versions[i].id, body |-> BodyFromPersisted(versions[i].body)]]]

(* What the columns of a row that was written have to do with one another. *)
Saved(state, text, hash, versions) ==
  /\ state \in States
  /\ versions # <<>> /\ \A i \in DOMAIN versions : versions[i].id # NoUuid
  /\ state = "fixed" => text # NoText /\ ParseStored(text) = Ok(hash)
  /\ state # "fixed" => text = NoText /\ hash = NoHash

(* TryFrom makes rec of row under that state, and under no other.          *)
RowMakes(row, state, rec) ==
  /\ TryFrom(row, state) = Ok(rec)
  /\ \A other \in States : TryFrom(row, other).ok <=> other = state

LEMMA TryFromMakesParts ==
  ASSUME NEW id, NEW state, NEW kind, NEW text, NEW hash, NEW versions, NEW creator,
         Saved(state, text, hash, versions)
  PROVE  RowMakes(AnyRows(id, StateLiteral[state], kind, text, versions, creator), state,
                  Parts(id, state, kind, hash, versions))
<1>1. PICK R : R = AnyRows(id, StateLiteral[state], kind, text, versions, creator) OBVIOUS
<1>2. /\ R.record.state = StateLiteral[state] /\ R.record.content_hash = text
      /\ R.versions = versions /\ R.record.id = id /\ R.record.kind = kind
  BY <1>1 DEF AnyRows
<1>3. /\ state \in States /\ versions # <<>>
      /\ state = "fixed" => text # NoText /\ ParseStored(text) = Ok(hash)
      /\ state # "fixed" => text = NoText /\ hash = NoHash
  BY DEF Saved
<1>4. FromParts(R, state, hash) = Parts(id, state, kind, hash, versions)
  BY <1>2 DEF FromParts, Parts
<1>5. StateLiteral[state] = "Fixed" <=> state = "fixed" BY <1>3, StateComesBack
<1>6. TryFrom(R, state) = Ok(FromParts(R, state, hash))
  <2>1. CASE state = "fixed"
    <3>1. ParseStored(R.record.content_hash).ok /\ ParseStored(R.record.content_hash).val = hash
      BY <1>3, <1>2, <2>1 DEF Ok
    <3>2. TryFromFixed(R) = Ok(FromParts(R, "fixed", ParseStored(R.record.content_hash).val))
      BY <1>3, <1>2, <1>5, <2>1, <3>1 DEF TryFromFixed
    <3> QED BY <2>1, <3>1, <3>2 DEF TryFrom
  <2>2. CASE state # "fixed"
    <3>1. TryFromUnfixed(R, state) = Ok(FromParts(R, state, NoHash))
      BY <1>3, <1>2, <2>2 DEF TryFromUnfixed
    <3> QED BY <1>3, <2>2, <3>1 DEF TryFrom
  <2> QED BY <1>3, <2>1, <2>2
<1>7. ASSUME NEW other \in States, TryFrom(R, other).ok PROVE other = state
  <2>1. CASE other = "fixed"
    <3>1. TryFromFixed(R).ok BY <1>7, <2>1 DEF TryFrom
    <3>2. R.record.state = "Fixed" BY <3>1 DEF TryFromFixed, Err
    <3> QED BY <1>2, <1>5, <2>1, <3>2
  <2>2. CASE other # "fixed"
    <3>1. TryFromUnfixed(R, other).ok BY <1>7, <2>2 DEF TryFrom
    <3>2. R.record.state = StateLiteral[other] BY <3>1 DEF TryFromUnfixed, Err
    <3> QED BY <1>3, <1>2, <3>2, StatesDiffer
  <2> QED BY <2>1, <2>2
<1>8. TryFrom(R, state).ok BY <1>6 DEF Ok
<1> QED BY <1>3, <1>1, <1>4, <1>6, <1>7, <1>8 DEF RowMakes

(* A read makes rec of rows, and the text of its creator of the creator.   *)
RowsMake(rows, rec, creator) ==
  /\ ReadBack(rows) = Ok(rec)
  /\ FromRows(rows).val.creator = StripThingBackticks(TypeString(creator))
  /\ rows.creator = creator

LEMMA ReadMakesParts ==
  ASSUME NEW id, NEW state, NEW kind, NEW text, NEW hash, NEW versions, NEW creator,
         Saved(state, text, hash, versions)
  PROVE  RowsMake(ToRows(AnyRows(id, StateLiteral[state], kind, text, versions, creator)),
                  Parts(id, state, kind, hash, versions), ParseThing(creator).val)
<1>1. PICK thing : thing = ParseThing(creator).val OBVIOUS
<1>2. PICK back : back = StripThingBackticks(TypeString(thing)) OBVIOUS
<1>3. PICK W : W = AnyRows(id, state, kind, text, versions, thing) OBVIOUS
<1>4. PICK R : R = AnyRows(id, StateLiteral[state], kind, text, versions, back) OBVIOUS
<1>5. /\ AsLiteral[StateLiteral[state]] = state /\ FromLiteral[state] = StateLiteral[state]
      /\ state \in DOMAIN FromLiteral /\ \A i \in DOMAIN versions : versions[i].id # NoUuid
  BY StateComesBack DEF Saved
<1>6. ToRows(AnyRows(id, StateLiteral[state], kind, text, versions, creator)) = W
  <2>1. ToRows(AnyRows(id, StateLiteral[state], kind, text, versions, creator))
          = AnyRows(id, AsLiteral[StateLiteral[state]], kind, text, versions,
                    ParseThing(creator).val)
    BY RowsWritten
  <2> QED BY <1>1, <1>3, <1>5, <2>1
<1>7. W.record.state = state /\ W.versions = versions /\ W.creator = thing
  BY <1>3 DEF AnyRows
<1>8. FromRows(W).ok BY <1>5, <1>7 DEF FromRows, Ok
<1>9. FromRows(W) = Ok(R)
  <2>1. FromRows(AnyRows(id, state, kind, text, versions, thing)).ok BY <1>3, <1>8
  <2>2. FromRows(AnyRows(id, state, kind, text, versions, thing))
          = Ok(AnyRows(id, FromLiteral[state], kind, text, versions,
                       StripThingBackticks(TypeString(thing))))
    BY <2>1, RowsRead
  <2> QED BY <1>2, <1>3, <1>4, <1>5, <2>2
<1>10. R.record.state = StateLiteral[state] /\ R.creator = back BY <1>4 DEF AnyRows
<1>11. TryFrom(R, state) = Ok(Parts(id, state, kind, hash, versions))
  <2>1. RowMakes(AnyRows(id, StateLiteral[state], kind, text, versions, back), state,
                 Parts(id, state, kind, hash, versions))
    BY TryFromMakesParts
  <2> QED BY <1>4, <2>1 DEF RowMakes
<1>12. FromRows(W).val = R BY <1>9 DEF Ok
<1>13. ReadBack(W) = TryFrom(R, state) BY <1>5, <1>8, <1>10, <1>12 DEF ReadBack, ToAny
<1> QED BY <1>1, <1>2, <1>6, <1>7, <1>10, <1>11, <1>12, <1>13 DEF RowsMake

(* A record value of the program, with the parts that matter here.         *)
Storable(rec) ==
  /\ rec.state \in States /\ rec.hash \in Hashes
  /\ rec.hash # NoHash <=> rec.state = "fixed"
  /\ rec.chain \in Seq(Version) /\ rec.chain # <<>>

(* Its versions come back.                                                 *)
LEMMA ChainComesBack ==
  ASSUME NEW rec, rec.chain \in Seq(Version), rec.chain # <<>>
  PROVE  LET V == VersionsToPersisted(rec) IN
         /\ V # <<>> /\ \A i \in DOMAIN V : V[i].id # NoUuid
         /\ [i \in DOMAIN V |-> [vid |-> V[i].id, body |-> BodyFromPersisted(V[i].body)]]
              = rec.chain
<1> DEFINE V == VersionsToPersisted(rec)
<1>1. /\ DOMAIN V = DOMAIN rec.chain
      /\ \A i \in DOMAIN rec.chain :
           V[i].id = rec.chain[i].vid /\ V[i].body = BodyToPersisted(rec.chain[i].body)
  BY DEF VersionsToPersisted
<1> HIDE DEF V
<1>2. PICK chain : chain = rec.chain OBVIOUS
<1>3. chain \in Seq(Version) /\ chain # <<>> BY <1>2
<1>4. /\ 1 \in DOMAIN chain /\ \A i \in DOMAIN chain : chain[i] \in Version
      /\ chain = [i \in DOMAIN chain |-> chain[i]]
  BY <1>3, FirstOfChain, LenProperties, ElementOfSeq
<1>5. \A i \in DOMAIN chain :
        /\ chain[i].vid \in Vids /\ chain[i].body \in Body
        /\ chain[i] = [vid |-> chain[i].vid, body |-> chain[i].body]
  BY <1>4 DEF Version
<1>6. \A i \in DOMAIN V : V[i].id # NoUuid
  <2>1. NoUuid \notin Vids BY NoneAssumption
  <2>2. \A i \in DOMAIN V : V[i].id = chain[i].vid /\ i \in DOMAIN chain BY <1>1, <1>2
  <2> QED BY <1>5, <2>1, <2>2
<1>7. V # <<>> BY <1>1, <1>2, <1>4
<1>8. ASSUME NEW i \in DOMAIN V
      PROVE  [vid |-> V[i].id, body |-> BodyFromPersisted(V[i].body)] = chain[i]
  <2>1. i \in DOMAIN chain /\ V[i].id = chain[i].vid /\ V[i].body = BodyToPersisted(chain[i].body)
    BY <1>1, <1>2
  <2>2. BodyFromPersisted(V[i].body) = chain[i].body BY <1>5, <2>1, BodyComesBack
  <2> QED BY <1>5, <2>1, <2>2
<1>9. [i \in DOMAIN V |-> [vid |-> V[i].id, body |-> BodyFromPersisted(V[i].body)]] = chain
  BY <1>1, <1>2, <1>4, <1>8
<1> QED BY <1>2, <1>6, <1>7, <1>9 DEF V

(* All that is asked of a row that was made of a record.                   *)
Returns(typed, row, creator) ==
  /\ RowsMake(ToRows(row), typed, ParseThing(creator).val)
  /\ RowMakes(row, typed.state, typed)
  /\ BuildRow(typed, creator) = row

(* Saved under any kind and creator, a record comes back as it was, and    *)
(* under its own state alone; the API answers with the row that was saved. *)
LEMMA RecordComesBack ==
  ASSUME NEW rec, Storable(rec), NEW raw, raw # "", NEW creator
  PROVE  LET typed == Typed(rec, ParseKind(raw).val)
         IN  Returns(typed, RecordToPersistedRow(typed, creator), creator)
<1>1. PICK kind : kind = ParseKind(raw).val OBVIOUS
<1>2. KindToString(kind) = raw /\ KindFromString(raw) = kind BY <1>1, KindComesBack
<1>3. PICK typed : typed = Typed(rec, kind) OBVIOUS
<1>4. /\ typed.state = rec.state /\ typed.id = rec.id /\ typed.kind = kind
      /\ typed.chain = rec.chain
      /\ typed.hash = IF rec.hash = NoHash THEN NoHash ELSE DigestOf[rec.hash]
      /\ typed = [state |-> typed.state, id |-> typed.id, kind |-> typed.kind,
                  hash |-> typed.hash, chain |-> typed.chain]
  BY <1>3 DEF Typed
<1>5. PICK text : text = IF typed.hash = NoHash THEN NoText ELSE Display(typed.hash) OBVIOUS
<1>6. PICK V : V = VersionsToPersisted(typed) OBVIOUS
<1>7. PICK row : row = RecordToPersistedRow(typed, creator) OBVIOUS
<1>8. row = AnyRows(typed.id, StateLiteral[typed.state], raw, text, V, creator)
  BY <1>2, <1>4, <1>5, <1>6, <1>7 DEF RecordToPersistedRow, AnyRows
<1>9. /\ typed.state \in States
      /\ typed.state = "fixed" => text # NoText /\ ParseStored(text) = Ok(typed.hash)
                                  /\ text = Display(typed.hash)
      /\ typed.state # "fixed" => text = NoText /\ typed.hash = NoHash
  <2>1. CASE rec.state = "fixed"
    <3>1. typed.hash \in Digests
      BY <1>4, <2>1, DigestAssumption DEF Storable, Hashes, Digests
    <3>2. typed.hash # NoHash BY <3>1, NoneAssumption DEF Digests
    <3> QED BY <1>4, <1>5, <2>1, <3>1, <3>2, DisplayIsSomeText, DisplayIsParsed DEF Storable
  <2>2. CASE rec.state # "fixed" BY <1>4, <1>5, <2>2 DEF Storable
  <2> QED BY <2>1, <2>2
<1>10. /\ V # <<>> /\ \A i \in DOMAIN V : V[i].id # NoUuid
       /\ [i \in DOMAIN V |-> [vid |-> V[i].id, body |-> BodyFromPersisted(V[i].body)]]
            = typed.chain
  BY <1>4, <1>6, ChainComesBack DEF Storable
<1>11. Saved(typed.state, text, typed.hash, V) BY <1>9, <1>10 DEF Saved
<1>12. Parts(typed.id, typed.state, raw, typed.hash, V) = typed
  BY <1>2, <1>4, <1>10 DEF Parts
<1>13. RowsMake(ToRows(row), typed, ParseThing(creator).val)
  <2>1. RowsMake(ToRows(AnyRows(typed.id, StateLiteral[typed.state], raw, text, V, creator)),
                 Parts(typed.id, typed.state, raw, typed.hash, V), ParseThing(creator).val)
    BY <1>11, ReadMakesParts
  <2> QED BY <1>8, <1>12, <2>1
<1>14. RowMakes(row, typed.state, typed)
  <2>1. RowMakes(AnyRows(typed.id, StateLiteral[typed.state], raw, text, V, creator),
                 typed.state, Parts(typed.id, typed.state, raw, typed.hash, V))
    BY <1>11, TryFromMakesParts
  <2> QED BY <1>8, <1>12, <2>1
<1>15. BuildRow(typed, creator) = row
  <2>1. (IF typed.state = "fixed" THEN Display(typed.hash) ELSE NoText) = text BY <1>9
  <2> QED BY <1>2, <1>4, <1>6, <1>8, <2>1 DEF BuildRow, AnyRows
<1> QED BY <1>1, <1>3, <1>7, <1>13, <1>14, <1>15 DEF Returns

-----------------------------------------------------------------------------
(* The states of the program.                                              *)

(* The two parsers and Display agree: Sha256Hash::Display and the two      *)
(* parse_sha256_hex, about every digest that the program ever holds.       *)
THEOREM DigestTextsAlwaysAgree == CoreSpec => []DigestTextsAgree
<1>1. HeldOK => DigestTextsAgree
  <2> SUFFICES ASSUME HeldOK PROVE DigestTextsAgree OBVIOUS
  <2>1. ASSUME NEW h \in Held, held[h].state = "fixed" PROVE DigestOf[held[h].hash] \in Digests
    <3>1. held[h].hash \in Bytes
      BY <2>1 DEF Held, HeldOK, CoreTypeOK, DigestExactlyWhenFixed, Record, Hashes
    <3> QED BY <3>1, DigestAssumption DEF Digests
  <2> DEFINE Agree(digest) ==
        /\ ParseStored(Display(digest)) = Ok(digest)
        /\ ParseRequested(Display(digest)) = Ok(digest)
        /\ \A text \in Near(Display(digest)) :
             /\ ParseStored(text).ok =>
                  /\ Display(ParseStored(text).val) = text
                  /\ ParseRequested(text) = ParseStored(text)
             /\ ParseRequested(text).ok =>
                  ParseStored(Display(ParseRequested(text).val)) = ParseRequested(text)
  <2>2. \A digest \in Digests : Agree(digest) BY ParsersAgreeOnDigest
  <2>3. DigestTextsAgree = \A h \in Held :
          held[h].state = "fixed" => Agree(DigestOf[held[h].hash])
    BY DEF DigestTextsAgree
  <2> HIDE DEF Agree
  <2> QED BY <2>1, <2>2, <2>3
<1>2. CoreTypeOK /\ DigestExactlyWhenFixed => HeldOK BY DEF HeldOK
<1> QED BY <1>1, <1>2, HeldRecordsAreWellFormed, PTL

(* Whatever was done to the rows of a record that the program held, what   *)
(* is read from them is a record: RecordRowDb::into_persisted, then        *)
(* persisted_row_to_any.                                                   *)
THEOREM AcceptedRowsAreAlwaysRecords == CoreSpec => []AcceptedRowsAreRecords
<1>1. HeldOK => AcceptedRowsAreRecords
  <2> SUFFICES ASSUME HeldOK, NEW h \in Held,
                      NEW rows \in Tampered(ToRows(Stored(h, <<"log", <<>>>>))),
                      ReadBack(rows).ok
               PROVE  LET back == ReadBack(rows) IN
                      /\ back.val.hash # NoHash <=> back.val.state = "fixed"
                      /\ back.val.chain # <<>>
                      /\ \A i \in DOMAIN back.val.chain : back.val.chain[i].vid \in Vids
    BY DEF AcceptedRowsAreRecords
  <2> DEFINE chain == held[h].chain
             V     == [i \in DOMAIN chain |-> [id |-> chain[i].vid, record_id |-> held[h].id,
                                               body |-> BodyToPersisted(chain[i].body)]]
  <2>1. /\ chain \in Seq(Version) /\ chain # <<>>
        /\ \A i \in DOMAIN chain : chain[i].vid \in Vids
    <3>1. chain \in Seq(Version) /\ chain # <<>>
      BY DEF Held, HeldOK, CoreTypeOK, DigestExactlyWhenFixed, Record
    <3> HIDE DEF chain
    <3>2. \A i \in DOMAIN chain : chain[i] \in Version BY <3>1, LenProperties, ElementOfSeq
    <3> QED BY <3>1, <3>2 DEF Version
  <2>2. PICK id, state, kind, hash, creator :
          ToRows(Stored(h, <<"log", <<>>>>)) = AnyRows(id, state, kind, hash, V, creator)
    <3> DEFINE rec  == Typed(held[h], ParseKind("log").val)
               who  == CreatorFromClaims(<<>>)
               lit  == StateLiteral[rec.state]
               k    == KindToString(rec.kind)
               hash == IF rec.hash = NoHash THEN NoText ELSE Display(rec.hash)
    <3>1. VersionsToPersisted(rec) = V BY DEF VersionsToPersisted, Typed
    <3>2. Stored(h, <<"log", <<>>>>) = AnyRows(rec.id, lit, k, hash, V, who)
      BY <3>1 DEF Stored, RecordToPersistedRow, AnyRows
    <3> HIDE DEF V, rec, who, lit, k, hash
    <3>3. ToRows(AnyRows(rec.id, lit, k, hash, V, who))
            = AnyRows(rec.id, AsLiteral[lit], k, hash, V, ParseThing(who).val)
      BY RowsWritten
    <3> QED BY <3>2, <3>3
  <2> HIDE DEF V
  <2>3. PICK s : \E t \in {NoText, Display(DigestOf[x]), <<"F", "0", "0", "a">>} :
                   \E v \in {<<>>, V, [V EXCEPT ![1].id = NoUuid]} :
                     rows = AnyRows(id, s, kind, t, v, creator)
    BY <2>2, RowsTampered
  <2>4. PICK t \in {NoText, Display(DigestOf[x]), <<"F", "0", "0", "a">>},
              versions \in {<<>>, V, [V EXCEPT ![1].id = NoUuid]} :
           rows = AnyRows(id, s, kind, t, versions, creator)
    BY <2>3
  <2>5. IsText(t)
    <3>1. DigestOf[x] \in Digests BY PayloadsAssumption, DigestAssumption DEF Digests
    <3>2. \E S : Display(DigestOf[x]) \in Seq(S) BY <3>1, DisplayIsText
    <3>3. <<"F", "0", "0", "a">> \in Seq({"F", "0", "a"}) OBVIOUS
    <3> QED BY <2>4, <3>2, <3>3 DEF IsText
  <2> DEFINE back == ReadBack(rows)
  <2>6. /\ back.val.hash # NoHash <=> back.val.state = "fixed"
        /\ versions # <<>> /\ \A i \in DOMAIN versions : versions[i].id # NoUuid
        /\ DOMAIN back.val.chain = DOMAIN versions
        /\ \A i \in DOMAIN versions : back.val.chain[i].vid = versions[i].id
    BY <2>4, <2>5, ReadBackMakesRecord
  <2> HIDE DEF back
  <2>7. \A i \in DOMAIN versions : versions[i].id \in Vids
    <3>1. \A i \in DOMAIN V : V[i].id \in Vids BY <2>1 DEF V
    <3>2. CASE versions = V BY <3>1, <3>2
    <3>3. CASE versions = [V EXCEPT ![1].id = NoUuid]
      <4>1. DOMAIN versions = DOMAIN V /\ \A i \in DOMAIN V : i # 1 => versions[i] = V[i]
        BY <3>3
      <4>2. 1 \in DOMAIN V => versions[1].id = NoUuid
        BY <3>3 DEF V
      <4> QED BY <2>6, <3>1, <4>1, <4>2
    <3> QED BY <2>4, <2>6, <3>2, <3>3
  <2>8. 1 \in DOMAIN versions
    <3>1. 1 \in DOMAIN V
      <4>1. 1 \in DOMAIN chain BY <2>1, LenProperties, EmptySeq
      <4> QED BY <4>1 DEF V
    <3> QED BY <2>4, <2>6, <3>1
  <2> QED BY <2>6, <2>7, <2>8 DEF back
<1>2. CoreTypeOK /\ DigestExactlyWhenFixed => HeldOK BY DEF HeldOK
<1> QED BY <1>1, <1>2, HeldRecordsAreWellFormed, PTL

(* What is written of a record is what is read: all but the text of the    *)
(* creator, which the database may quote on the way.                       *)
ComesBack(rec, raw, sub) ==
  LET typed == Typed(rec, ParseKind(raw).val)
      row   == RecordToPersistedRow(typed, CreatorFromClaims(sub))
  IN  /\ ReadBack(ToRows(row)) = Ok(typed)
      /\ \A state \in States : TryFrom(row, state).ok <=> state = rec.state
      /\ ToRows(row).creator
           = [table |-> <<"creo_user">>, id |-> IF sub = <<>> THEN <<"anonymous">> ELSE sub]
      /\ BuildRow(typed, CreatorFromClaims(sub)) = row

LEMMA HeldIsStorable == HeldOK => \A h \in Held : Storable(held[h])
BY DEF HeldOK, CoreTypeOK, DigestExactlyWhenFixed, Held, Record, States, Storable

(* convert.rs "round-trip is byte-equal": every record that the program    *)
(* ever holds comes back from the database as it was saved, for every name *)
(* of a kind and every sub that a request can give, under its own state    *)
(* and no other.                                                           *)
THEOREM RecordsComeBack ==
  ASSUME NEW raw, raw # "", NEW Chars, NEW sub \in Seq(Chars)
  PROVE  CoreSpec => [](\A h \in Held : ComesBack(held[h], raw, sub))
<1>1. HeldOK => \A h \in Held : ComesBack(held[h], raw, sub)
  <2> SUFFICES ASSUME HeldOK, NEW h \in Held PROVE ComesBack(held[h], raw, sub) OBVIOUS
  <2>1. Storable(held[h]) BY HeldIsStorable
  <2>2. PICK typed : typed = Typed(held[h], ParseKind(raw).val) OBVIOUS
  <2>3. PICK who : who = CreatorFromClaims(sub) OBVIOUS
  <2>4. PICK row : row = RecordToPersistedRow(typed, who) OBVIOUS
  <2>5. /\ ReadBack(ToRows(row)) = Ok(typed)
        /\ ToRows(row).creator = ParseThing(who).val
        /\ \A state \in States : TryFrom(row, state).ok <=> state = held[h].state
        /\ BuildRow(typed, who) = row
    <3>1. Returns(Typed(held[h], ParseKind(raw).val),
                  RecordToPersistedRow(Typed(held[h], ParseKind(raw).val), who), who)
      BY <2>1, RecordComesBack
    <3>2. typed.state = held[h].state BY <2>2 DEF Typed
    <3> QED BY <2>2, <2>4, <3>1, <3>2 DEF Returns, RowsMake, RowMakes
  <2>6. ParseThing(who).val
          = [table |-> <<"creo_user">>, id |-> IF sub = <<>> THEN <<"anonymous">> ELSE sub]
    BY <2>3, ThingOfCreator
  <2> QED BY <2>2, <2>3, <2>4, <2>5, <2>6 DEF ComesBack
<1>2. CoreTypeOK /\ DigestExactlyWhenFixed => HeldOK BY DEF HeldOK
<1> QED BY <1>1, <1>2, HeldRecordsAreWellFormed, PTL

(* Quoting, as the database does it, is undone by strip_thing_backticks.   *)
QuotingIsUndone ==
  \A request \in Requests :
    LET creator == CreatorFromClaims(request[2]) IN
    StripThingBackticks(TypeString(ParseThing(creator).val)) = creator

(* Where the quotes come off again, the creator comes back as well.        *)
THEOREM RowsAlwaysRoundTrip ==
  ASSUME QuotingIsUndone PROVE CoreSpec => []RowsRoundTrip
<1>1. HeldOK => RowsRoundTrip
  <2> SUFFICES ASSUME HeldOK, NEW h \in Held, NEW request \in Requests
               PROVE  LET row  == Stored(h, request)
                          rows == ToRows(row)
                          back == ReadBack(rows)
                      IN  /\ back.ok
                          /\ back.val = Typed(held[h], ParseKind(request[1]).val)
                          /\ \A state \in States :
                               TryFrom(row, state).ok <=> state = held[h].state
                          /\ rows.creator.table = <<"creo_user">>
                          /\ BuildRow(back.val, FromRows(rows).val.creator) = row
    BY DEF RowsRoundTrip
  <2>1. Storable(held[h]) BY HeldIsStorable
  <2>2. PICK raw : raw = request[1] OBVIOUS
  <2>3. PICK sub : sub = request[2] OBVIOUS
  <2>4. raw # "" /\ \E S : sub \in Seq(S)
    <3>1. /\ <<>> \in Seq({}) /\ <<"a", "|", "b">> \in Seq({"a", "|", "b"})
          /\ <<"a", ":", "b">> \in Seq({"a", ":", "b"})
      OBVIOUS
    <3>2. \/ raw = "log" /\ sub = <<>>
          \/ raw = "creo:memory" /\ sub = <<"a", "|", "b">>
          \/ raw = "asset" /\ sub = <<"a", ":", "b">>
      BY <2>2, <2>3 DEF Requests
    <3> QED BY <3>1, <3>2
  <2>5. PICK who : who = CreatorFromClaims(sub) OBVIOUS
  <2>6. PICK typed : typed = Typed(held[h], ParseKind(raw).val) OBVIOUS
  <2>7. PICK row : row = RecordToPersistedRow(typed, who) OBVIOUS
  <2>8. row = Stored(h, request) BY <2>2, <2>3, <2>5, <2>6, <2>7 DEF Stored
  <2>9. ParseThing(who).val.table = <<"creo_user">>
    <3>1. ParseThing(who).val
            = [table |-> <<"creo_user">>, id |-> IF sub = <<>> THEN <<"anonymous">> ELSE sub]
      BY <2>4, <2>5, ThingOfCreator
    <3> QED BY <3>1
  <2>10. StripThingBackticks(TypeString(ParseThing(who).val)) = who
    BY <2>3, <2>5 DEF QuotingIsUndone
  <2>11. /\ ReadBack(ToRows(row)) = Ok(typed)
         /\ FromRows(ToRows(row)).val.creator = who
         /\ ToRows(row).creator = ParseThing(who).val
         /\ \A state \in States : TryFrom(row, state).ok <=> state = held[h].state
         /\ BuildRow(typed, who) = row
    <3>1. Returns(Typed(held[h], ParseKind(raw).val),
                  RecordToPersistedRow(Typed(held[h], ParseKind(raw).val), who), who)
      BY <2>1, <2>4, RecordComesBack
    <3>2. typed.state = held[h].state BY <2>6 DEF Typed
    <3> QED BY <2>6, <2>7, <2>10, <3>1, <3>2 DEF Returns, RowsMake, RowMakes
  <2>12. ReadBack(ToRows(row)).ok /\ ReadBack(ToRows(row)).val = typed BY <2>11 DEF Ok
  <2> QED BY <2>2, <2>6, <2>8, <2>9, <2>11, <2>12
<1>2. CoreTypeOK /\ DigestExactlyWhenFixed => HeldOK BY DEF HeldOK
<1> QED BY <1>1, <1>2, HeldRecordsAreWellFormed, PTL
=============================================================================
