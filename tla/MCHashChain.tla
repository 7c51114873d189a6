----------------------------- MODULE MCHashChain -----------------------------
(* Small instances of HashChain for TLC. *)
EXTENDS HashChain, TLC

DocSymmetry == Permutations(Docs)
Symmetry == Permutations(Docs) \cup Permutations(Workers)
=============================================================================
