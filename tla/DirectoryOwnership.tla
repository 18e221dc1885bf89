------------------------ MODULE DirectoryOwnership ------------------------
(***************************************************************************)
(* What libmylite promises about database directories, whatever its         *)
(* implementation: a process uses at most one place at a time, a place is   *)
(* used by at most one process, and a process hands out handles only while  *)
(* it uses a place and gives the place up only when no handle is left.      *)
(***************************************************************************)
CONSTANTS Procs, Places, Handles, None

VARIABLES
  using,  \* the place each process uses, or None
  open    \* the handles each process has given to its callers

vars == <<using, open>>

Init ==
  /\ using = [p \in Procs |-> None]
  /\ open = [p \in Procs |-> {}]

Start(p) ==
  /\ using[p] = None
  /\ \E x \in Places :
       /\ \A q \in Procs : using[q] # x
       /\ using' = [using EXCEPT ![p] = x]
  /\ UNCHANGED open

Open(p) ==
  /\ using[p] # None
  /\ \E h \in Handles :
       /\ \A q \in Procs : h \notin open[q]
       /\ open' = [open EXCEPT ![p] = @ \cup {h}]
  /\ UNCHANGED using

Close(p) ==
  /\ \E h \in open[p] : open' = [open EXCEPT ![p] = @ \ {h}]
  /\ UNCHANGED using

Stop(p) ==
  /\ using[p] # None
  /\ open[p] = {}
  /\ using' = [using EXCEPT ![p] = None]
  /\ UNCHANGED open

(* A process dies and takes its handles along. *)
Crash(p) ==
  /\ using' = [using EXCEPT ![p] = None]
  /\ open' = [open EXCEPT ![p] = {}]

Next == \E p \in Procs : Start(p) \/ Open(p) \/ Close(p) \/ Stop(p) \/ Crash(p)

Spec == Init /\ [][Next]_vars
=============================================================================
