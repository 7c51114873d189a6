--------------------------- MODULE MCAccountMove ---------------------------
(* Small instances of AccountMove for TLC. *)
EXTENDS AccountMove, TLC

\* Calls exercised by each configuration
AllCalls == {"create", "post", "reset", "cancel", "write", "unlink", "match", "lock",
             "line_create", "line_write", "line_unlink"}
NumberCalls == {"create", "post", "reset", "write"}
CancelCalls == {"create", "post", "cancel", "line_create"}

Symmetry == Permutations(Moves) \cup Permutations(Workers)
=============================================================================
