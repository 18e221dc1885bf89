------------------------- MODULE MCEmbeddedRuntime -------------------------
(***************************************************************************)
(* Small instances of EmbeddedRuntime: two threads of one process and one   *)
(* thread of another, one directory with two spellings.                     *)
(***************************************************************************)
EXTENDS EmbeddedRuntimeInv, TLC

CONSTANTS p1, p2, t1, t2, t3, a1, a2, dir

MCProcOf == t1 :> p1 @@ t2 :> p1 @@ t3 :> p2

MCDirOf == [path \in Paths |-> dir]

Symmetry == Permutations(Handles)
=============================================================================
