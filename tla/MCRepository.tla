--------------------------- MODULE MCRepository ---------------------------
(* Values for the constants of Repository that a .cfg cannot write.        *)
EXTENDS Repository, TLC

CONSTANTS b1, b2

OneInlineOneBlob == {[form |-> "inline", of |-> b1], [form |-> "assets", of |-> b2]}
OneBlob          == {[form |-> "assets", of |-> b1]}

CallersAreAlike == Permutations(Procs)
=============================================================================
