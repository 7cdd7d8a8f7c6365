--------------------------- MODULE MCAccountService ---------------------------
(* Small instances of AccountService for TLC. *)
EXTENDS AccountService, TLC

Symmetry == Permutations(Calls) \cup Permutations(Workers)
=============================================================================
