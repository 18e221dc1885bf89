------------------------ MODULE MCDatabaseDirectory ------------------------
(***************************************************************************)
(* Small instances of DatabaseDirectory: the openers are interchangeable.   *)
(***************************************************************************)
EXTENDS DatabaseDirectory, TLC

Symmetry == Permutations(Openers)
=============================================================================
