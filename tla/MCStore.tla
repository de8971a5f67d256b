------------------------------ MODULE MCStore ------------------------------
(* Small instances of Store for TLC. *)
EXTENDS Store, TLC

Symmetry == Permutations(Obs)
============================================================================
