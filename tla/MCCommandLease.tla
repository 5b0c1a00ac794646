--------------------------- MODULE MCCommandLease ---------------------------
(* Small instances of CommandLease for TLC. *)
EXTENDS CommandLease, TLC

Symmetry == Permutations(Proc) \cup Permutations(Token)
=============================================================================
