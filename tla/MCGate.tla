------------------------------- MODULE MCGate -------------------------------
(* Values for the constants of Gate that a .cfg cannot write.              *)
EXTENDS Gate, TLC

CONSTANTS alice, bob, k1, k2

Bare     == [auth |-> {}, storage |-> {}]
Whole    == [auth |-> AuthVars, storage |-> StorageVars]
HalfAuth == [auth |-> {"AUTH0_ISSUER"}, storage |-> {}]
HalfS3   == [auth |-> AuthVars, storage |-> {"S3_BUCKET"}]

MCEnvs == {Bare, Whole, HalfAuth, HalfS3}

MCKeySets == {{k1}, {k2}}

(* Alice's token is in order, for reading; Bob's is for another audience.  *)
MCTokens ==
  {[sub |-> alice, kid |-> k1, valid |-> TRUE, scope |-> {"objectrecords:read"}],
   [sub |-> bob, kid |-> k1, valid |-> FALSE, scope |-> Scopes]}

ProcessesAreAlike == Permutations(Callers) \cup Permutations(Servers)
=============================================================================
