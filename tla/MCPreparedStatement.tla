------------------------ MODULE MCPreparedStatement ------------------------
(***************************************************************************)
(* Small instances of PreparedStatement: heap blocks are interchangeable.   *)
(***************************************************************************)
EXTENDS PreparedStatement, TLC

Symmetry == Permutations(Buffers)
=============================================================================
