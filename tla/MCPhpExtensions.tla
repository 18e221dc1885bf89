-------------------------- MODULE MCPhpExtensions --------------------------
(* Instances of PhpExtensions for TLC. *)
EXTENDS PhpExtensions, TLC

Symmetry == Permutations(Stmts)
=============================================================================
