-------------------------- MODULE RecordLifecycle --------------------------
(***************************************************************************)
(* What the service promises of a record, without database, object store,  *)
(* requests or failures: it is created with one payload, grows by payloads *)
(* appended at its end while it is mutable, and is sealed once, under the  *)
(* digest of its last payload.  After that it never changes.               *)
(*                                                                         *)
(* This is the type-state table of objectrecords-core lib.rs, read as a    *)
(* contract for the stored record.                                         *)
(***************************************************************************)
EXTENDS Sequences

CONSTANTS Ids, Bytes, NoHash

VARIABLE life   \* life[i]: the record i

Unborn == [state |-> "none", hash |-> NoHash, contents |-> <<>>]

Init == life = [i \in Ids |-> Unborn]

Create(i, x) ==
  /\ life[i] = Unborn
  /\ life' = [life EXCEPT ![i] = [state |-> "mutable", hash |-> NoHash,
                                  contents |-> <<x>>]]

Grow(i, x) ==
  /\ life[i].state = "mutable"
  /\ life' = [life EXCEPT ![i].contents = Append(@, x)]

Seal(i) ==
  /\ life[i].state = "mutable"
  /\ LET contents == life[i].contents IN
     life' = [life EXCEPT ![i].state = "fixed",
                          ![i].hash = contents[Len(contents)]]

Next == \E i \in Ids : Seal(i) \/ \E x \in Bytes : Create(i, x) \/ Grow(i, x)

Spec == Init /\ [][Next]_life
=============================================================================
