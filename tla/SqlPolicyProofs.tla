-------------------------- MODULE SqlPolicyProofs ---------------------------
(***************************************************************************)
(* The theorem about the schema name of SqlPolicy, for every window of      *)
(* tokens and every statement.                                              *)
(***************************************************************************)
EXTENDS SqlPolicy, TLAPS

(***************************************************************************)
(* current_schema, which the policy completes an unqualified table with, is *)
(* the default schema of the server's session as long as every USE went     *)
(* through mylite_exec: one that the server refuses changes neither.        *)
(***************************************************************************)
THEOREM SchemaIsFollowed == Spec => []SchemaFollowsUse
<1>1. Init => SchemaFollowsUse
  BY Zenon DEF Init, SchemaFollowsUse
<1>2. SchemaFollowsUse /\ [Next]_vars => SchemaFollowsUse'
  <2> SUFFICES ASSUME SchemaFollowsUse, [Next]_vars PROVE SchemaFollowsUse'
    OBVIOUS
  <2> USE DEF SchemaFollowsUse
  <2>1. CASE UNCHANGED <<schema, current_schema, prepared_use>>
    BY <2>1, Zenon
  <2>2. ASSUME NEW call, NEW s, Submit(call, s) PROVE SchemaFollowsUse'
    BY <2>1, <2>2, Zenon DEF Submit
  <2>3. CASE ReturnRefused
    BY <2>1, <2>3, Zenon DEF ReturnRefused
  <2>4. ASSUME NEW ok \in BOOLEAN, ExecRuns(ok) PROVE SchemaFollowsUse'
    BY <2>4, Zenon DEF ExecRuns, ServerRuns, update_current_schema_after_successful_sql
  <2>5. ASSUME NEW ok \in BOOLEAN, StepRuns(ok) PROVE SchemaFollowsUse'
    BY <2>5, Zenon DEF StepRuns, ServerRuns
  <2>6. CASE UNCHANGED vars
    BY <2>6, Zenon DEF vars
  <2> QED BY <2>2, <2>3, <2>4, <2>5, <2>6, Zenon DEF Next
<1> QED BY <1>1, <1>2, PTL DEF Spec
=============================================================================
