---------------------------- MODULE BlobStorage ----------------------------
(***************************************************************************)
(* crate objectrecords-storage: the BlobStorage trait, one operator for    *)
(* each method.  The store is a map from keys to payloads.  Each method is *)
(* one atomic step: InMemoryStorage holds its mutex throughout, and        *)
(* S3CompatStorage sends one request, put_if_absent as If-None-Match: *.   *)
(***************************************************************************)
EXTENDS RecordCore

VARIABLE blob   \* blob[k]: the payload at key k, NoHash if there is none

Keys == {k \in Body : k.form # "inline"}

BlobInit == blob = [k \in Keys |-> NoHash]

(* get: the payload; NoHash stands for BlobStorageError::NotFound.         *)
Get(k) == blob[k]

(* put overwrites.                                                         *)
Put(k, bytes) == blob' = [blob EXCEPT ![k] = bytes]

(* delete, and its NotFound.                                               *)
Delete(k) == Get(k) # NoHash /\ blob' = [blob EXCEPT ![k] = NoHash]

(* put_if_absent: the loser is told so and leaves the winner's blob alone. *)
PutIfAbsent(k, bytes, outcome) ==
  \/ Get(k) = NoHash /\ outcome = "wrote" /\ Put(k, bytes)
  \/ Get(k) # NoHash /\ outcome = "already_exists" /\ UNCHANGED blob

BlobTypeOK == blob \in [Keys -> Hashes]
=============================================================================
