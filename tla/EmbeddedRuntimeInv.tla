------------------------ MODULE EmbeddedRuntimeInv ------------------------
(***************************************************************************)
(* The inductive invariant of EmbeddedRuntime.  The safety properties are   *)
(* not inductive: they follow from Inv, which says for every point of the   *)
(* code under g_runtime.mutex exactly what the process owns there.          *)
(***************************************************************************)
EXTENDS EmbeddedRuntime

(* The points at which a thread holds g_runtime.mutex. *)
StartLabels == {"flock", "rmstale", "mkrun", "init", "initing", "undo", "undounlock"}
StopLabels  == {"end", "rmrun", "cleartmp", "unlock", "clear"}
HeldLabels  == StartLabels \cup StopLabels

(* The stage of the object a thread at a given point works on. *)
StageAt(label) ==
  IF label = "connect" THEN "ref"
  ELSE IF label = "tables" THEN "conn"
  ELSE IF label = "release" THEN "closing"
  ELSE "new"

(* A thread inside a call works on an object of its process that nobody    *)
(* else works on, and holds the mutex where the code does.                 *)
ThreadsInv ==
  \A t \in Threads :
    /\ pc[t] = "idle" => work[t] = None
    /\ pc[t] # "idle" =>
         /\ work[t] \in Handles
         /\ hproc[work[t]] = ProcOf[t]
         /\ hstate[work[t]] = StageAt(pc[t])
    /\ pc[t] \in {"flock", "rmstale"} => hpath[work[t]] # Memory
    /\ pc[t] \in HeldLabels => mutex[ProcOf[t]] = t
    /\ \A u \in Threads : work[t] = work[u] /\ work[t] # None => t = u

(* A mylite_db object is free or belongs to a process and has a path; only   *)
(* an open handle has statements.                                            *)
HandlesInv ==
  \A h \in Handles :
    /\ hproc[h] = None <=> hstate[h] = "free"
    /\ hproc[h] # None => hpath[h] \in AllPaths
    /\ active[h] > 0 => hstate[h] = "open"

(* The mutex is held across steps only while a runtime starts or stops, and  *)
(* then nothing counts on that runtime.                                      *)
MutexInv ==
  \A p \in Procs :
    mutex[p] # None =>
      /\ ProcOf[mutex[p]] = p
      /\ pc[mutex[p]] \in HeldLabels
      /\ ref_count[p] = 0

(* Where the runtime of a process is in its life. *)
Phase(p) ==
  IF mutex[p] # None THEN pc[mutex[p]]
  ELSE IF ref_count[p] > 0 THEN "up" ELSE "down"

(* The path it runs on, is being started on, or was running on. *)
Target(p) ==
  IF mutex[p] # None /\ pc[mutex[p]] \in StartLabels
  THEN hpath[work[mutex[p]]] ELSE database_path[p]

Running == {"initing", "up", "end"}
Named   == {"initing", "up", "end", "rmrun", "cleartmp", "unlock", "clear"}
HasFd   == {"up", "end", "rmrun", "cleartmp", "unlock"}
Locked  == {"rmstale", "mkrun", "init", "initing", "undo", "undounlock",
            "up", "end", "rmrun", "cleartmp", "unlock"}
HasRun  == {"init", "initing", "undo", "up", "end", "rmrun"}
HasTmp  == {"initing", "up", "end", "rmrun", "cleartmp"}

(* What a process owns is a function of the phase of its runtime. *)
FieldsOf(p) ==
  /\ server[p] <=> Phase(p) \in Running
  /\ database_path[p] # None <=> Phase(p) \in Named
  /\ Phase(p) = "initing" => database_path[p] = Target(p)
  /\ lock_fd[p] = IF Phase(p) \in HasFd /\ database_path[p] # Memory
                  THEN DirOf[database_path[p]] ELSE None

FieldsInv == \A p \in Procs : FieldsOf(p)

(* It holds the lock of exactly the directory of its target. *)
LocksOf(p) ==
  \A d \in Dirs :
    flock[d] = p <=>
      Phase(p) \in Locked /\ Target(p) # Memory /\ d = DirOf[Target(p)]

LocksInv == \A p \in Procs : LocksOf(p)

(* It has files in run/, and in tmp/, of exactly that directory. *)
RunOf(p) ==
  \A x \in Dirs \cup Procs :
    p \in run[x] <=> Phase(p) \in HasRun /\ x = Place(p, Target(p))

RunInv == \A p \in Procs : RunOf(p)

TmpOf(p) ==
  \A d \in Dirs :
    p \in tmp[d] <=>
      Phase(p) \in HasTmp /\ Target(p) # Memory /\ d = DirOf[Target(p)]

TmpInv == \A p \in Procs : TmpOf(p)

(* Every object that holds a reference was opened on the runtime's path. *)
RefsInv ==
  \A h \in Handles :
    hstate[h] \in Referenced => database_path[hproc[h]] = hpath[h]

(* The inductive invariant: at every point of mylite_open and mylite_close,  *)
(* and after any crash, the fields of g_runtime, the lock and the files of a *)
(* process are what the phase of its runtime says.                           *)
Inv ==
  /\ TypeOK /\ ThreadsInv /\ HandlesInv /\ MutexInv
  /\ FieldsInv /\ LocksInv /\ RunInv /\ TmpInv
  /\ RefsInv /\ RefCountExact
=============================================================================
