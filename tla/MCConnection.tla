---------------------------- MODULE MCConnection ----------------------------
(* Connection on small instances; the bounds are in the configurations.      *)
EXTENDS Connection, TLC

Symmetry == Permutations(Stmts)
=============================================================================
