---------------------------- MODULE MCSqlPolicy ----------------------------
(* Instances of SqlPolicy for TLC. *)
EXTENDS SqlPolicy
=============================================================================
