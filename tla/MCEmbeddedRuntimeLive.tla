----------------------- MODULE MCEmbeddedRuntimeLive -----------------------
(***************************************************************************)
(* The instance of EmbeddedRuntime on which liveness is checked: every      *)
(* thread makes at most MaxOpens calls of mylite_open, so that no thread    *)
(* can starve another one on g_runtime.mutex, which std::mutex would not    *)
(* prevent.                                                                 *)
(***************************************************************************)
EXTENDS EmbeddedRuntimeInv, TLC

CONSTANTS p1, p2, t1, t2, t3, a1, dir,
  MaxOpens,  \* bound on the calls of mylite_open a thread makes
  Mortal     \* the processes that may crash

VARIABLE opens  \* calls of mylite_open each thread has made

MCProcOf == t1 :> p1 @@ t2 :> p1 @@ t3 :> p2

MCDirOf == [path \in Paths |-> dir]

CallWithin(t) ==
  \/ /\ StartOpen(t)
     /\ opens[t] < MaxOpens
     /\ opens' = [opens EXCEPT ![t] = @ + 1]
  \/ /\ Prepare(t) \/ Finalize(t) \/ CloseRefused(t) \/ Close(t)
     /\ UNCHANGED opens

LiveNext ==
  \/ \E t \in Threads : CallWithin(t) \/ (Step(t) /\ UNCHANGED opens)
  \/ \E p \in Mortal : Crash(p) /\ UNCHANGED opens

LiveSpec ==
  /\ Init /\ opens = [t \in Threads |-> 0]
  /\ [][LiveNext]_<<vars, opens>>
  /\ Fairness
=============================================================================
