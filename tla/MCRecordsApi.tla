--------------------------- MODULE MCRecordsApi ---------------------------
(* Values for the constants of RecordsApi that a .cfg cannot write.        *)
EXTENDS RecordsApi

CONSTANTS b1, b2

AssetsOnly  == {[form |-> "assets", of |-> x] : x \in {b1, b2}}
OneOfEach   == {[form |-> "inline", of |-> b1], [form |-> "assets", of |-> b2]}
OneUpload   == {[form |-> "upload", of |-> b1]}

ClientsAreAlike == Permutations(Procs)
=============================================================================
