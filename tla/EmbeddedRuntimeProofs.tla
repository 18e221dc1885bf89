----------------------- MODULE EmbeddedRuntimeProofs ------------------------
(***************************************************************************)
(* The theorems about EmbeddedRuntime, for any number of processes,         *)
(* threads, paths and handles, and any timeouts: its safety properties, and *)
(* that it implements DirectoryOwnership.                                   *)
(*                                                                          *)
(* Every step keeps the conjuncts of Inv that are about threads, objects    *)
(* and the mutex.  Then what a step of a thread leaves alone: the other     *)
(* processes, the other threads and, if it is a quiet one, the phase of its *)
(* own runtime; the life of a runtime as a walk through phases: which of    *)
(* the other steps move it, from where to where; and every step keeps the   *)
(* fields of g_runtime, the file locks and the files of run/ and tmp/ in    *)
(* step with the phases.  Last, every step keeps g_runtime.ref_count equal  *)
(* to the number of objects that hold the runtime, and those objects on the *)
(* path it runs on.                                                         *)
(***************************************************************************)
EXTENDS EmbeddedRuntimeInv, FiniteSetTheorems, TLAPS

(* Leaves that name no prover are left to Zenon. *)
USE Zenon

(* The object of a thread inside a call. *)
LEMMA WorkFacts ==
  ASSUME Inv, NEW t \in Threads, pc[t] # "idle"
  PROVE  /\ work[t] \in Handles
         /\ hproc[work[t]] = ProcOf[t]
         /\ ProcOf[t] \in Procs
         /\ hpath[work[t]] \in AllPaths
         /\ hpath[work[t]] # Memory => WorkDir(t) \in Dirs
<1>1. ProcOf[t] \in Procs /\ ProcOf[t] # None
  BY ConstantAssumption
<1>2. work[t] \in Handles /\ hproc[work[t]] = ProcOf[t]
  BY DEF Inv, ThreadsInv
<1>3. hpath[work[t]] \in AllPaths
  BY <1>1, <1>2 DEF Inv, HandlesInv
<1> QED BY <1>1, <1>2, <1>3 DEF AllPaths, Dirs, WorkDir

(* Every step keeps every variable in its type. *)
LEMMA TypeStep == Inv /\ Next => TypeOK'
<1> SUFFICES ASSUME Inv, Next PROVE TypeOK'
  OBVIOUS
<1> USE DEF At, Goto, Leave, Free, Fail, FailStart, SetHandle, Usable, global,
       files, objects, local, TypeOK, Labels, HandleStates, Results
<1>0. TypeOK
  BY DEF Inv
<1>1. ASSUME NEW t \in Threads, Call(t) \/ Step(t) PROVE TypeOK'
  <2>0. ProcOf[t] \in Procs
    BY ConstantAssumption
  <2>1. CASE StartOpen(t)
    BY <1>0, <2>0, <2>1, ConstantAssumption, SMT DEF StartOpen, AllPaths
  <2>2. CASE ValidateRuntimeDatabasePath(t)
    <3>1. CASE Fail(t, "BUSY")
      BY <1>0, <2>2, <3>1 DEF ValidateRuntimeDatabasePath
    <3>2. CASE Goto(t, "prepare") /\ UNCHANGED <<work, wait, result, objects>>
      BY <1>0, <2>2, <3>2 DEF ValidateRuntimeDatabasePath
    <3> QED BY <2>2, <3>1, <3>2 DEF ValidateRuntimeDatabasePath
  <2>3. CASE PrepareDatabaseDirectory(t)
    <3>1. CASE Goto(t, "start") /\ UNCHANGED <<work, wait, result, objects>>
      BY <1>0, <2>3, <3>1 DEF PrepareDatabaseDirectory
    <3>2. CASE Fail(t, "FAIL")
      BY <1>0, <2>3, <3>2 DEF PrepareDatabaseDirectory
    <3> QED BY <2>3, <3>1, <3>2 DEF PrepareDatabaseDirectory
  <2>4. CASE StartRuntimeBusy(t)
    BY <1>0, <2>0, <2>4 DEF StartRuntimeBusy
  <2>5. CASE StartRuntimeShare(t)
    <3>1. ref_count' \in [Procs -> Nat]
      BY <1>0, <2>0, <2>5, SMT DEF StartRuntimeShare
    <3> QED
      BY <1>0, <2>0, <2>5, <3>1 DEF StartRuntimeShare
  <2>6. CASE StartRuntimeFirst(t)
    BY <1>0, <2>0, <2>6 DEF StartRuntimeFirst
  <2>7. CASE AcquireDatabaseLock(t)
    BY <1>0, <2>0, <2>7 DEF AcquireDatabaseLock, WorkDir
  <2>8. CASE PollDatabaseLock(t)
    BY <1>0, <2>0, <2>8, SMT DEF PollDatabaseLock, WorkDir
  <2>9. CASE DatabaseLockBusy(t)
    BY <1>0, <2>0, <2>9 DEF DatabaseLockBusy
  <2>10. CASE DatabaseLockError(t)
    BY <1>0, <2>0, <2>10 DEF DatabaseLockError
  <2>11. CASE RemoveStaleRun(t)
    BY <1>0, <2>0, <2>11 DEF RemoveStaleRun, RemoveCleanupDirectory, Place
  <2>12. CASE CreateRuntimeLayout(t)
    BY <1>0, <2>0, <2>12, ZenonT(30) DEF CreateRuntimeLayout, Place
  <2>13. CASE StartRuntimeThrows(t)
    <3>1. run' \in [Dirs \cup Procs -> SUBSET (Procs \cup {Stale})]
      <4>1. PICK left \in SUBSET {Stale} :
              run' = [run EXCEPT ![Place(ProcOf[t], hpath[work[t]])] = @ \cup left]
        BY <2>13 DEF StartRuntimeThrows
      <4> QED BY <1>0, <4>1
    <3>2. flock' \in [Dirs -> Procs \cup {None}]
      BY <1>0, <2>13, SMT DEF StartRuntimeThrows, ReleaseWorkLock
    <3> QED
      BY <1>0, <2>0, <2>13, <3>1, <3>2 DEF StartRuntimeThrows
  <2>14. CASE BeginServerInit(t)
    BY <1>0, <2>0, <2>14, WorkFacts, SMT DEF BeginServerInit, AllPaths, WorkDir
  <2>15. CASE ServerInitSucceeds(t)
    BY <1>0, <2>0, <2>15, WorkFacts DEF ServerInitSucceeds, AllPaths, WorkDir
  <2>16. CASE ServerInitFails(t)
    BY <1>0, <2>0, <2>16 DEF ServerInitFails, Orphan
  <2>17. CASE UndoLayout(t)
    BY <1>0, <2>0, <2>17 DEF UndoLayout, RemoveCleanupDirectory, Place
  <2>18. CASE UndoLock(t)
    BY <1>0, <2>0, <2>18 DEF UndoLock, ReleaseWorkLock, WorkDir
  <2>19. CASE ConnectRuntime(t)
    BY <1>0, <2>0, <2>19 DEF ConnectRuntime
  <2>20. CASE EnsureCoreSystemTables(t)
    BY <1>0, <2>0, <2>20 DEF EnsureCoreSystemTables
  <2>21. CASE OpenFailsAfterStart(t)
    BY <1>0, <2>0, <2>21 DEF OpenFailsAfterStart
  <2>22. CASE OpenThrowsAfterStart(t)
    BY <1>0, <2>0, <2>22 DEF OpenThrowsAfterStart
  <2>23. CASE Prepare(t)
    <3>1. active' \in [Handles -> 0..MaxStatements]
      BY <1>0, <2>23, ConstantAssumption, SMT DEF Prepare
    <3> QED
      BY <1>0, <2>23, <3>1 DEF Prepare
  <2>24. CASE Finalize(t)
    <3>1. active' \in [Handles -> 0..MaxStatements]
      BY <1>0, <2>24, ConstantAssumption, SMT DEF Finalize
    <3> QED
      BY <1>0, <2>24, <3>1 DEF Finalize
  <2>25. CASE CloseRefused(t)
    BY <1>0, <2>0, <2>25 DEF CloseRefused
  <2>26. CASE Close(t)
    BY <1>0, <2>0, <2>26, SMT DEF Close
  <2>27. CASE ReleaseRuntimeShared(t)
    <3>0. ref_count[ProcOf[t]] \in Nat
      BY <1>0, <2>0
    <3>1. ref_count' \in [Procs -> Nat]
      <4>1. (IF ref_count[ProcOf[t]] = 0 THEN 0 ELSE ref_count[ProcOf[t]] - 1) \in Nat
        BY <3>0, SMT
      <4> QED BY <1>0, <2>27, <4>1 DEF ReleaseRuntimeShared
    <3> QED
      BY <1>0, <2>0, <2>27, <3>1 DEF ReleaseRuntimeShared
  <2>28. CASE ReleaseRuntimeLast(t)
    BY <1>0, <2>0, <2>28 DEF ReleaseRuntimeLast
  <2>29. CASE ServerEnd(t)
    BY <1>0, <2>0, <2>29 DEF ServerEnd
  <2>30. CASE RemoveRun(t)
    BY <1>0, <2>0, <2>30 DEF RemoveRun, RemoveCleanupDirectory, Place
  <2>31. CASE ClearTmp(t)
    BY <1>0, <2>0, <2>31 DEF ClearTmp
  <2>32. CASE ReleaseDatabaseLock(t)
    BY <1>0, <2>0, <2>32 DEF ReleaseDatabaseLock
  <2>33. CASE ClearRuntime(t)
    BY <1>0, <2>0, <2>33 DEF ClearRuntime
  <2> QED BY <1>1, <2>1, <2>2, <2>3, <2>4, <2>5, <2>6, <2>7, <2>8, <2>9,
       <2>10, <2>11, <2>12, <2>13, <2>14, <2>15, <2>16, <2>17, <2>18, <2>19,
       <2>20, <2>21, <2>22, <2>23, <2>24, <2>25, <2>26, <2>27, <2>28, <2>29,
       <2>30, <2>31, <2>32, <2>33 DEF Call, Step
<1>2. ASSUME NEW p \in Procs, Crash(p) PROVE TypeOK'
  <2>1. /\ run' \in [Dirs \cup Procs -> SUBSET (Procs \cup {Stale})]
        /\ tmp' \in [Dirs -> SUBSET (Procs \cup {Stale})]
    BY <1>0, <1>2 DEF Crash, Orphan
  <2>2. /\ mutex' \in [Procs -> Threads \cup {None}]
        /\ ref_count' \in [Procs -> Nat]
        /\ database_path' \in [Procs -> AllPaths \cup {None}]
        /\ lock_fd' \in [Procs -> Dirs \cup {None}]
        /\ server' \in [Procs -> BOOLEAN]
        /\ flock' \in [Dirs -> Procs \cup {None}]
    BY <1>0, <1>2 DEF Crash
  <2>3. /\ hstate' \in [Handles -> HandleStates]
        /\ hproc' \in [Handles -> Procs \cup {None}]
        /\ hpath' \in [Handles -> AllPaths \cup {None}]
        /\ active' \in [Handles -> 0..MaxStatements]
    BY <1>0, <1>2, ConstantAssumption, SMT DEF Crash
  <2>4. /\ pc' \in [Threads -> Labels]
        /\ work' \in [Threads -> Handles \cup {None}]
        /\ wait' \in [Threads -> Nat]
        /\ result' \in [Threads -> Results]
    BY <1>0, <1>2 DEF Crash
  <2> QED BY <2>1, <2>2, <2>3, <2>4
<1> QED BY <1>1, <1>2 DEF Next

(* Every step keeps each thread inside a call alone with its object. *)
LEMMA ThreadsStep == Inv /\ Next => ThreadsInv'
<1> SUFFICES ASSUME Inv, Next PROVE ThreadsInv'
  OBVIOUS
<1> USE DEF At, Goto, Leave, Free, Fail, FailStart, SetHandle, Usable, global,
       files, objects, local, ThreadsInv, StageAt, HeldLabels, StartLabels,
       StopLabels
<1>0. /\ mutex \in [Procs -> Threads \cup {None}] /\ pc \in [Threads -> Labels]
      /\ work \in [Threads -> Handles \cup {None}]
      /\ hstate \in [Handles -> HandleStates]
      /\ hproc \in [Handles -> Procs \cup {None}]
      /\ hpath \in [Handles -> AllPaths \cup {None}]
      /\ ThreadsInv
  BY DEF Inv, TypeOK
<1>1. ASSUME NEW t \in Threads, Call(t) \/ Step(t) PROVE ThreadsInv'
  <2>0. ProcOf[t] \in Procs
    BY ConstantAssumption
  <2>1. CASE StartOpen(t)
    BY <1>0, <2>0, ConstantAssumption, <2>1, SMT DEF StartOpen
  <2>2. CASE ValidateRuntimeDatabasePath(t)
    <3>1. CASE Fail(t, "BUSY")
      BY <1>0, <2>0, <2>2, <3>1, ConstantAssumption, SMT DEF ValidateRuntimeDatabasePath
    <3>2. CASE Goto(t, "prepare") /\ UNCHANGED <<work, wait, result, objects>>
      BY <1>0, <2>0, <2>2, <3>2, ConstantAssumption, SMT DEF ValidateRuntimeDatabasePath
    <3> QED BY <2>2, <3>1, <3>2 DEF ValidateRuntimeDatabasePath
  <2>3. CASE PrepareDatabaseDirectory(t)
    BY <1>0, <2>0, ConstantAssumption, <2>3, SMT DEF PrepareDatabaseDirectory
  <2>4. CASE StartRuntimeBusy(t)
    BY <1>0, <2>0, ConstantAssumption, <2>4, SMT DEF StartRuntimeBusy
  <2>5. CASE StartRuntimeShare(t)
    BY <1>0, <2>0, ConstantAssumption, <2>5, SMT DEF StartRuntimeShare
  <2>6. CASE StartRuntimeFirst(t)
    BY <1>0, <2>0, ConstantAssumption, <2>6, SMT DEF StartRuntimeFirst
  <2>7. CASE AcquireDatabaseLock(t)
    BY <1>0, <2>0, ConstantAssumption, <2>7, SMT DEF AcquireDatabaseLock,
       WorkDir
  <2>8. CASE PollDatabaseLock(t)
    BY <1>0, <2>0, ConstantAssumption, <2>8, SMT DEF PollDatabaseLock, WorkDir
  <2>9. CASE DatabaseLockBusy(t)
    BY <1>0, <2>0, ConstantAssumption, <2>9, SMT DEF DatabaseLockBusy
  <2>10. CASE DatabaseLockError(t)
    BY <1>0, <2>0, ConstantAssumption, <2>10, SMT DEF DatabaseLockError
  <2>11. CASE RemoveStaleRun(t)
    BY <1>0, <2>0, ConstantAssumption, <2>11, SMT DEF RemoveStaleRun,
       RemoveCleanupDirectory, Place
  <2>12. CASE CreateRuntimeLayout(t)
    BY <1>0, <2>0, ConstantAssumption, <2>12, SMT DEF CreateRuntimeLayout,
       Place
  <2>13. CASE StartRuntimeThrows(t)
    BY <1>0, <2>0, ConstantAssumption, <2>13, SMT DEF StartRuntimeThrows,
       ReleaseWorkLock, WorkDir, Place
  <2>14. CASE BeginServerInit(t)
    BY <1>0, <2>0, ConstantAssumption, <2>14, SMT DEF BeginServerInit
  <2>15. CASE ServerInitSucceeds(t)
    BY <1>0, <2>0, ConstantAssumption, <2>15, SMT DEF ServerInitSucceeds
  <2>16. CASE ServerInitFails(t)
    BY <1>0, <2>0, ConstantAssumption, <2>16, SMT DEF ServerInitFails, Orphan
  <2>17. CASE UndoLayout(t)
    BY <1>0, <2>0, ConstantAssumption, <2>17, SMT DEF UndoLayout,
       RemoveCleanupDirectory, Place
  <2>18. CASE UndoLock(t)
    BY <1>0, <2>0, ConstantAssumption, <2>18, SMT DEF UndoLock,
       ReleaseWorkLock, WorkDir
  <2>19. CASE ConnectRuntime(t)
    BY <1>0, <2>0, ConstantAssumption, <2>19, SMT DEF ConnectRuntime
  <2>20. CASE EnsureCoreSystemTables(t)
    BY <1>0, <2>0, ConstantAssumption, <2>20, SMT DEF EnsureCoreSystemTables
  <2>21. CASE OpenFailsAfterStart(t)
    BY <1>0, <2>0, ConstantAssumption, <2>21, SMT DEF OpenFailsAfterStart
  <2>22. CASE OpenThrowsAfterStart(t)
    BY <1>0, <2>0, ConstantAssumption, <2>22, SMT DEF OpenThrowsAfterStart
  <2>23. CASE Prepare(t)
    BY <1>0, <2>0, ConstantAssumption, <2>23, SMT DEF Prepare
  <2>24. CASE Finalize(t)
    BY <1>0, <2>0, ConstantAssumption, <2>24, SMT DEF Finalize
  <2>25. CASE CloseRefused(t)
    BY <1>0, <2>0, ConstantAssumption, <2>25, SMT DEF CloseRefused
  <2>26. CASE Close(t)
    <3>1. PICK h \in Handles :
            /\ Usable(t, h) /\ SetHandle(h, "closing")
            /\ work' = [work EXCEPT ![t] = h]
      BY <2>26, ZenonT(30) DEF Close
    <3>2. \A u \in Threads : work[u] # h
      <4> SUFFICES ASSUME NEW u \in Threads, work[u] = h PROVE FALSE
        OBVIOUS
      <4>1. pc[u] # "idle"
        BY <1>0, ConstantAssumption
      <4>2. hstate[h] = StageAt(pc[u])
        BY <1>0, <4>1
      <4> QED BY <3>1, <4>2
    <3> QED
      BY <1>0, <2>26, <3>1, <3>2, ConstantAssumption, SMT DEF Close
  <2>27. CASE ReleaseRuntimeShared(t)
    BY <1>0, <2>0, ConstantAssumption, <2>27, SMT DEF ReleaseRuntimeShared
  <2>28. CASE ReleaseRuntimeLast(t)
    BY <1>0, <2>0, ConstantAssumption, <2>28, SMT DEF ReleaseRuntimeLast
  <2>29. CASE ServerEnd(t)
    BY <1>0, <2>0, ConstantAssumption, <2>29, SMT DEF ServerEnd
  <2>30. CASE RemoveRun(t)
    BY <1>0, <2>0, ConstantAssumption, <2>30, SMT DEF RemoveRun,
       RemoveCleanupDirectory, Place
  <2>31. CASE ClearTmp(t)
    BY <1>0, <2>0, ConstantAssumption, <2>31, SMT DEF ClearTmp
  <2>32. CASE ReleaseDatabaseLock(t)
    BY <1>0, <2>0, ConstantAssumption, <2>32, SMT DEF ReleaseDatabaseLock
  <2>33. CASE ClearRuntime(t)
    BY <1>0, <2>0, ConstantAssumption, <2>33, SMT DEF ClearRuntime
  <2> QED BY <1>1, <2>1, <2>2, <2>3, <2>4, <2>5, <2>6, <2>7, <2>8, <2>9, <2>10,
        <2>11, <2>12, <2>13, <2>14, <2>15, <2>16, <2>17, <2>18, <2>19, <2>20,
        <2>21, <2>22, <2>23, <2>24, <2>25, <2>26, <2>27, <2>28, <2>29, <2>30,
        <2>31, <2>32, <2>33, ZenonT(30) DEF Call, Step
<1>2. ASSUME NEW p \in Procs, Crash(p) PROVE ThreadsInv'
    BY <1>0, <1>2, ConstantAssumption, SMT DEF Crash
<1> QED BY <1>1, <1>2 DEF Next

(* The steps that change ref_count, and those that change database_path. *)
Counts(t) == StartRuntimeShare(t) \/ ServerInitSucceeds(t)
             \/ ReleaseRuntimeShared(t) \/ ReleaseRuntimeLast(t)
Renames(t) == StartRuntimeThrows(t) \/ BeginServerInit(t) \/ ServerInitFails(t)
              \/ ClearRuntime(t)

(* An open that has no reference ends; one that has a reference goes on. *)
Gone(t)  == pc[t] \notin {"idle", "connect", "tables", "release"} /\ Free(work[t])
Moved(t) == /\ pc[t] \in {"connect", "tables"}
            /\ \E s \in Referenced : SetHandle(work[t], s)

(* What a step does to the objects when it does not count or discount one.  *)
LEMMA ObjectEffect ==
  ASSUME NEW t \in Threads, Call(t) \/ Step(t)
  PROVE  /\ ~Counts(t) => UNCHANGED ref_count
         /\ ~Renames(t) => UNCHANGED database_path
         /\ \/ Counts(t) \/ UNCHANGED objects \/ Gone(t) \/ Moved(t)
            \/ StartOpen(t) \/ Prepare(t) \/ Finalize(t) \/ Close(t)
<1> USE DEF At
<1>1. StartOpen(t) => UNCHANGED <<ref_count, database_path>>
  BY DEF StartOpen, global
<1>2. ValidateRuntimeDatabasePath(t) =>
        UNCHANGED <<ref_count, database_path>> /\ (UNCHANGED objects \/ Gone(t))
  BY DEF ValidateRuntimeDatabasePath, Fail, Gone, global, objects
<1>3. PrepareDatabaseDirectory(t) =>
        UNCHANGED <<ref_count, database_path>> /\ (UNCHANGED objects \/ Gone(t))
  BY DEF PrepareDatabaseDirectory, Fail, Gone, global, objects
<1>4. StartRuntimeBusy(t) => UNCHANGED <<ref_count, database_path>> /\ Gone(t)
  BY DEF StartRuntimeBusy, Gone, Fail, global
<1>5. StartRuntimeShare(t) => UNCHANGED database_path
  BY DEF StartRuntimeShare
<1>6. StartRuntimeFirst(t) =>
        UNCHANGED <<ref_count, database_path>> /\ UNCHANGED objects
  BY DEF StartRuntimeFirst
<1>7. AcquireDatabaseLock(t) =>
        UNCHANGED <<ref_count, database_path>> /\ UNCHANGED objects
  BY DEF AcquireDatabaseLock, global
<1>8. PollDatabaseLock(t) =>
        UNCHANGED <<ref_count, database_path>> /\ UNCHANGED objects
  BY DEF PollDatabaseLock, global
<1>9. DatabaseLockBusy(t) => UNCHANGED <<ref_count, database_path>> /\ Gone(t)
  BY DEF DatabaseLockBusy, Gone, Fail, FailStart
<1>10. DatabaseLockError(t) => UNCHANGED <<ref_count, database_path>> /\ Gone(t)
  BY DEF DatabaseLockError, Gone, Fail, FailStart
<1>11. RemoveStaleRun(t) =>
        UNCHANGED <<ref_count, database_path>> /\ UNCHANGED objects
  BY DEF RemoveStaleRun, global
<1>12. CreateRuntimeLayout(t) =>
        UNCHANGED <<ref_count, database_path>> /\ UNCHANGED objects
  BY DEF CreateRuntimeLayout, global
<1>13. StartRuntimeThrows(t) => UNCHANGED ref_count /\ Gone(t)
  BY DEF StartRuntimeThrows, Gone, Fail, FailStart
<1>14. BeginServerInit(t) => UNCHANGED ref_count /\ UNCHANGED objects
  BY DEF BeginServerInit
<1>15. ServerInitSucceeds(t) => UNCHANGED database_path
  BY DEF ServerInitSucceeds
<1>16. ServerInitFails(t) => UNCHANGED ref_count /\ UNCHANGED objects
  BY DEF ServerInitFails
<1>17. UndoLayout(t) =>
        UNCHANGED <<ref_count, database_path>> /\ UNCHANGED objects
  BY DEF UndoLayout, global
<1>18. UndoLock(t) => UNCHANGED <<ref_count, database_path>> /\ Gone(t)
  BY DEF UndoLock, Gone, Fail, FailStart
<1>19. ConnectRuntime(t) => UNCHANGED <<ref_count, database_path>> /\ Moved(t)
  BY DEF ConnectRuntime, Moved, Referenced, global
<1>20. EnsureCoreSystemTables(t) =>
        UNCHANGED <<ref_count, database_path>> /\ Moved(t)
  BY DEF EnsureCoreSystemTables, Moved, Referenced, global
<1>21. OpenFailsAfterStart(t) =>
        UNCHANGED <<ref_count, database_path>> /\ Moved(t)
  BY DEF OpenFailsAfterStart, Moved, Referenced, global
<1>22. OpenThrowsAfterStart(t) =>
        UNCHANGED <<ref_count, database_path>> /\ Moved(t)
  BY DEF OpenThrowsAfterStart, Moved, Referenced, global
<1>23. Prepare(t) => UNCHANGED <<ref_count, database_path>>
  BY DEF Prepare, global
<1>24. Finalize(t) => UNCHANGED <<ref_count, database_path>>
  BY DEF Finalize, global
<1>25. CloseRefused(t) =>
        UNCHANGED <<ref_count, database_path>> /\ UNCHANGED objects
  BY DEF CloseRefused, global
<1>26. Close(t) => UNCHANGED <<ref_count, database_path>>
  BY DEF Close, global
<1>27. ReleaseRuntimeShared(t) => UNCHANGED database_path
  BY DEF ReleaseRuntimeShared
<1>28. ReleaseRuntimeLast(t) => UNCHANGED database_path
  BY DEF ReleaseRuntimeLast
<1>29. ServerEnd(t) =>
        UNCHANGED <<ref_count, database_path>> /\ UNCHANGED objects
  BY DEF ServerEnd
<1>30. RemoveRun(t) =>
        UNCHANGED <<ref_count, database_path>> /\ UNCHANGED objects
  BY DEF RemoveRun, global
<1>31. ClearTmp(t) => UNCHANGED <<ref_count, database_path>> /\ UNCHANGED objects
  BY DEF ClearTmp, global
<1>32. ReleaseDatabaseLock(t) =>
        UNCHANGED <<ref_count, database_path>> /\ UNCHANGED objects
  BY DEF ReleaseDatabaseLock
<1>33. ClearRuntime(t) => UNCHANGED ref_count /\ Gone(t)
  BY DEF ClearRuntime, Gone
<1>34. ~Counts(t) => UNCHANGED ref_count
  BY <1>1, <1>2, <1>3, <1>4, <1>5, <1>6, <1>7, <1>8, <1>9, <1>10, <1>11, <1>12,
     <1>13, <1>14, <1>15, <1>16, <1>17, <1>18, <1>19, <1>20, <1>21, <1>22,
     <1>23, <1>24, <1>25, <1>26, <1>27, <1>28, <1>29, <1>30, <1>31, <1>32,
     <1>33 DEF Call, Step, Counts
<1>35. ~Renames(t) => UNCHANGED database_path
  BY <1>1, <1>2, <1>3, <1>4, <1>5, <1>6, <1>7, <1>8, <1>9, <1>10, <1>11, <1>12,
     <1>13, <1>14, <1>15, <1>16, <1>17, <1>18, <1>19, <1>20, <1>21, <1>22,
     <1>23, <1>24, <1>25, <1>26, <1>27, <1>28, <1>29, <1>30, <1>31, <1>32,
     <1>33 DEF Call, Step, Renames
<1>36. \/ Counts(t) \/ UNCHANGED objects \/ Gone(t) \/ Moved(t)
       \/ StartOpen(t) \/ Prepare(t) \/ Finalize(t) \/ Close(t)
  BY <1>1, <1>2, <1>3, <1>4, <1>5, <1>6, <1>7, <1>8, <1>9, <1>10, <1>11, <1>12,
     <1>13, <1>14, <1>15, <1>16, <1>17, <1>18, <1>19, <1>20, <1>21, <1>22,
     <1>23, <1>24, <1>25, <1>26, <1>27, <1>28, <1>29, <1>30, <1>31, <1>32,
     <1>33 DEF Call, Step, Counts
<1> QED BY <1>34, <1>35, <1>36

(* Every step keeps a free object bare and the statements of one that is    *)
(* not open at zero.                                                        *)
LEMMA HandlesStep == Inv /\ Next => HandlesInv'
<1> SUFFICES ASSUME Inv, Next PROVE HandlesInv'
  OBVIOUS
<1> USE DEF HandlesInv
<1>0. /\ HandlesInv
      /\ hstate \in [Handles -> HandleStates]
      /\ hproc \in [Handles -> Procs \cup {None}]
      /\ hpath \in [Handles -> AllPaths \cup {None}]
      /\ active \in [Handles -> 0..MaxStatements]
  BY DEF Inv, TypeOK
<1>1. ASSUME NEW t \in Threads, Call(t) \/ Step(t) PROVE HandlesInv'
  <2>0. ProcOf[t] \in Procs /\ ProcOf[t] # None
    BY ConstantAssumption
  <2>1. pc[t] # "idle" =>
           work[t] \in Handles /\ hproc[work[t]] # None /\ ~(active[work[t]] > 0)
    BY <2>0 DEF Inv, ThreadsInv, StageAt
  <2>2. CASE UNCHANGED objects
    BY <1>0, <2>2 DEF objects
  <2>3. ASSUME pc[t] # "idle", Free(work[t]) PROVE HandlesInv'
    BY <1>0, <2>1, <2>3 DEF Free
  <2>4. ASSUME pc[t] # "idle", NEW s \in Referenced \cup {"new"}, SetHandle(work[t], s)
        PROVE  HandlesInv'
    BY <1>0, <2>1, <2>4 DEF SetHandle, Referenced
  <2>5. CASE StartOpen(t)
    <3>1. PICK h \in Handles, path \in AllPaths :
            /\ hstate[h] = "free" /\ hstate' = [hstate EXCEPT ![h] = "new"]
            /\ hproc' = [hproc EXCEPT ![h] = ProcOf[t]]
            /\ hpath' = [hpath EXCEPT ![h] = path] /\ UNCHANGED active
      BY <2>5, ZenonT(30) DEF StartOpen
    <3> QED BY <1>0, <2>0, <3>1
  <2>6. CASE Prepare(t) \/ Finalize(t)
    <3>1. PICK h \in Handles :
            /\ hstate[h] = "open" /\ UNCHANGED <<hstate, hproc, hpath>>
            /\ \E n : active' = [active EXCEPT ![h] = n]
      BY <1>0, <2>6 DEF Prepare, Finalize, Usable
    <3> QED BY <1>0, <3>1
  <2>7. CASE Close(t)
    <3>1. PICK h \in Handles :
            hstate[h] = "open" /\ active[h] = 0 /\ SetHandle(h, "closing")
      BY <2>7 DEF Close, Usable
    <3> QED BY <1>0, <3>1, SMT DEF SetHandle
  <2>8. CASE Counts(t)
    <3>1. pc[t] # "idle"
      BY <2>8 DEF Counts, StartRuntimeShare, ServerInitSucceeds,
         ReleaseRuntimeShared, ReleaseRuntimeLast, At
    <3>2. \/ Free(work[t]) \/ SetHandle(work[t], "ref") \/ SetHandle(work[t], "new")
      BY <2>8 DEF Counts, StartRuntimeShare, ServerInitSucceeds,
         ReleaseRuntimeShared, ReleaseRuntimeLast
    <3> QED BY <2>3, <2>4, <3>1, <3>2 DEF Referenced
  <2>9. CASE Gone(t)
    BY <2>3, <2>9 DEF Gone
  <2>10. CASE Moved(t)
    BY <2>4, <2>10 DEF Moved
  <2> QED BY <1>1, <2>2, <2>5, <2>6, <2>7, <2>8, <2>9, <2>10, ObjectEffect
<1>2. ASSUME NEW p \in Procs, Crash(p) PROVE HandlesInv'
  BY <1>0, <1>2, ConstantAssumption, SMT DEF Crash
<1> QED BY <1>1, <1>2 DEF Next

(* How a step is placed with respect to the section the mutex protects. *)
MovesPc(t, S) == \E l \in S : pc' = [pc EXCEPT ![t] = l]
Recounts(t)   == \E n : ref_count' = [ref_count EXCEPT ![ProcOf[t]] = n]
Outside(t) == /\ pc[t] \notin HeldLabels /\ UNCHANGED mutex
              /\ UNCHANGED pc \/ MovesPc(t, Labels)
              /\ UNCHANGED ref_count \/ (mutex[ProcOf[t]] = None /\ Recounts(t))
Inside(t)  == /\ pc[t] \in HeldLabels /\ UNCHANGED <<mutex, ref_count>>
              /\ UNCHANGED pc \/ MovesPc(t, HeldLabels)
Exits(t)   == /\ mutex' = [mutex EXCEPT ![ProcOf[t]] = None]
              /\ pc[t] \in HeldLabels /\ MovesPc(t, Labels)
              /\ UNCHANGED ref_count \/ Recounts(t)

(* Every step stays outside the section, enters it, stays inside or exits.  *)
LEMMA SectionEffect ==
  ASSUME NEW t \in Threads, Call(t) \/ Step(t)
  PROVE  \/ Outside(t) \/ Inside(t) \/ Exits(t)
         \/ StartRuntimeFirst(t) \/ ReleaseRuntimeLast(t)
<1> USE DEF At, Goto, Leave, Fail, FailStart, MovesPc, Labels, HeldLabels,
       StartLabels, StopLabels, global
<1>1. StartOpen(t) => Outside(t)
  BY DEF StartOpen, Outside
<1>2. ValidateRuntimeDatabasePath(t) => Outside(t)
  BY DEF ValidateRuntimeDatabasePath, Outside
<1>3. PrepareDatabaseDirectory(t) => Outside(t)
  BY DEF PrepareDatabaseDirectory, Outside
<1>4. StartRuntimeBusy(t) => Outside(t)
  BY DEF StartRuntimeBusy, Outside
<1>5. StartRuntimeShare(t) => Outside(t)
  BY DEF StartRuntimeShare, Outside, Recounts
<1>6. ConnectRuntime(t) => Outside(t)
  BY DEF ConnectRuntime, Outside
<1>7. EnsureCoreSystemTables(t) => Outside(t)
  BY DEF EnsureCoreSystemTables, Outside
<1>8. OpenFailsAfterStart(t) => Outside(t)
  BY DEF OpenFailsAfterStart, Outside
<1>9. OpenThrowsAfterStart(t) => Outside(t)
  BY DEF OpenThrowsAfterStart, Outside
<1>10. Prepare(t) => Outside(t)
  BY DEF Prepare, Outside, Usable, local
<1>11. Finalize(t) => Outside(t)
  BY DEF Finalize, Outside, Usable, local
<1>12. CloseRefused(t) => Outside(t)
  BY DEF CloseRefused, Outside, Usable
<1>13. Close(t) => Outside(t)
  BY DEF Close, Outside, Usable
<1>14. ReleaseRuntimeShared(t) => Outside(t)
  BY DEF ReleaseRuntimeShared, Outside, Recounts
<1>15. AcquireDatabaseLock(t) => Inside(t)
  BY DEF AcquireDatabaseLock, Inside
<1>16. PollDatabaseLock(t) => Inside(t)
  BY DEF PollDatabaseLock, Inside
<1>17. RemoveStaleRun(t) => Inside(t)
  BY DEF RemoveStaleRun, Inside
<1>18. CreateRuntimeLayout(t) => Inside(t)
  BY DEF CreateRuntimeLayout, Inside
<1>19. BeginServerInit(t) => Inside(t)
  BY DEF BeginServerInit, Inside
<1>20. ServerInitFails(t) => Inside(t)
  BY DEF ServerInitFails, Inside
<1>21. UndoLayout(t) => Inside(t)
  BY DEF UndoLayout, Inside
<1>22. ServerEnd(t) => Inside(t)
  BY DEF ServerEnd, Inside
<1>23. RemoveRun(t) => Inside(t)
  BY DEF RemoveRun, Inside
<1>24. ClearTmp(t) => Inside(t)
  BY DEF ClearTmp, Inside
<1>25. ReleaseDatabaseLock(t) => Inside(t)
  BY DEF ReleaseDatabaseLock, Inside
<1>26. DatabaseLockBusy(t) => Exits(t)
  BY DEF DatabaseLockBusy, Exits
<1>27. DatabaseLockError(t) => Exits(t)
  BY DEF DatabaseLockError, Exits
<1>28. StartRuntimeThrows(t) => Exits(t)
  BY DEF StartRuntimeThrows, Exits
<1>29. ServerInitSucceeds(t) => Exits(t)
  BY DEF ServerInitSucceeds, Exits, Recounts
<1>30. UndoLock(t) => Exits(t)
  BY DEF UndoLock, Exits
<1>31. ClearRuntime(t) => Exits(t)
  BY DEF ClearRuntime, Exits
<1> QED BY <1>1, <1>2, <1>3, <1>4, <1>5, <1>6, <1>7, <1>8, <1>9, <1>10, <1>11,
      <1>12, <1>13, <1>14, <1>15, <1>16, <1>17, <1>18, <1>19, <1>20, <1>21,
      <1>22, <1>23, <1>24, <1>25, <1>26, <1>27, <1>28, <1>29, <1>30, <1>31,
      ZenonT(30) DEF Call, Step

(* Every step leaves the mutex with a thread that is inside the section it  *)
(* protects, and the runtime it starts or stops uncounted.                  *)
LEMMA MutexStep == Inv /\ Next => MutexInv'
<1> SUFFICES ASSUME Inv, Next, NEW q \in Procs, mutex'[q] # None
             PROVE  /\ ProcOf[mutex'[q]] = q
                    /\ pc'[mutex'[q]] \in HeldLabels
                    /\ ref_count'[q] = 0
  BY SMTT(20) DEF MutexInv
<1>0. /\ mutex \in [Procs -> Threads \cup {None}] /\ pc \in [Threads -> Labels]
      /\ ref_count \in [Procs -> Nat]
      /\ mutex[q] # None =>
           ProcOf[mutex[q]] = q /\ pc[mutex[q]] \in HeldLabels /\ ref_count[q] = 0
  BY DEF Inv, TypeOK, MutexInv
<1>1. ASSUME NEW t \in Threads, Call(t) \/ Step(t)
      PROVE  /\ ProcOf[mutex'[q]] = q
             /\ pc'[mutex'[q]] \in HeldLabels
             /\ ref_count'[q] = 0
  <2>0. ProcOf[t] \in Procs /\ t # None
    BY ConstantAssumption
  <2>1. CASE Outside(t)
    <3>1. mutex'[q] = mutex[q] /\ mutex[q] # t
      BY <1>0, <2>1 DEF Outside
    <3>2. pc'[mutex[q]] = pc[mutex[q]]
      BY <1>0, <2>1, <3>1 DEF Outside, MovesPc
    <3>3. ref_count'[q] = ref_count[q]
      BY <1>0, <2>1, <3>1 DEF Outside, Recounts
    <3> QED BY <1>0, <3>1, <3>2, <3>3
  <2>2. CASE Inside(t)
    <3>1. mutex'[q] = mutex[q] /\ ref_count'[q] = ref_count[q]
      BY <2>2 DEF Inside
    <3>2. pc'[mutex[q]] = pc[mutex[q]] \/ pc'[mutex[q]] \in HeldLabels
      BY <1>0, <2>2, <3>1 DEF Inside, MovesPc
    <3> QED BY <1>0, <3>1, <3>2
  <2>3. CASE Exits(t)
    <3>1. q # ProcOf[t] /\ mutex'[q] = mutex[q]
      BY <1>0, <2>3 DEF Exits
    <3>2. mutex[q] # t
      BY <1>0, <3>1
    <3>3. pc'[mutex[q]] = pc[mutex[q]]
      BY <1>0, <2>3, <3>1, <3>2 DEF Exits, MovesPc
    <3>4. ref_count'[q] = ref_count[q]
      BY <1>0, <2>3, <3>1 DEF Exits, Recounts
    <3> QED BY <1>0, <3>1, <3>3, <3>4
  <2>4. CASE StartRuntimeFirst(t) \/ ReleaseRuntimeLast(t)
    <3>1. /\ mutex' = [mutex EXCEPT ![ProcOf[t]] = t] /\ pc[t] \notin HeldLabels
          /\ MovesPc(t, HeldLabels)
      BY <2>4 DEF StartRuntimeFirst, ReleaseRuntimeLast, At, Goto, MovesPc,
         HeldLabels, StartLabels, StopLabels
    <3>2. /\ ref_count'[ProcOf[t]] = 0
          /\ \A p \in Procs \ {ProcOf[t]} : ref_count'[p] = ref_count[p]
      BY <1>0, <2>0, <2>4 DEF StartRuntimeFirst, ReleaseRuntimeLast
    <3>3. CASE q = ProcOf[t]
      BY <1>0, <3>1, <3>2, <3>3 DEF MovesPc
    <3>4. CASE q # ProcOf[t]
      BY <1>0, <3>1, <3>2, <3>4 DEF MovesPc
    <3> QED BY <3>3, <3>4
  <2> QED BY <1>1, <2>1, <2>2, <2>3, <2>4, SectionEffect
<1>2. ASSUME NEW p \in Procs, Crash(p)
      PROVE  /\ ProcOf[mutex'[q]] = q
             /\ pc'[mutex'[q]] \in HeldLabels
             /\ ref_count'[q] = 0
  BY <1>0, <1>2, ConstantAssumption DEF Crash
<1> QED BY <1>1, <1>2 DEF Next
-----------------------------------------------------------------------------
(* The steps that leave the phase of the thread's process as it is. *)
Quiet(t) ==
  \/ StartOpen(t) \/ ValidateRuntimeDatabasePath(t) \/ PrepareDatabaseDirectory(t)
  \/ StartRuntimeBusy(t) \/ StartRuntimeShare(t) \/ PollDatabaseLock(t)
  \/ ConnectRuntime(t) \/ EnsureCoreSystemTables(t)
  \/ OpenFailsAfterStart(t) \/ OpenThrowsAfterStart(t)
  \/ Prepare(t) \/ Finalize(t) \/ CloseRefused(t) \/ Close(t)
  \/ ReleaseRuntimeShared(t)

(* The runtime of p goes from one phase to the next, on the same path. *)
Moves(p, from, to) ==
  /\ Phase(p) = from /\ Phase(p)' = to
  /\ from # "down" /\ to # "down" => Target(p)' = Target(p)

(* The thread that holds the mutex of a process is one of its threads, and *)
(* inside a call.                                                          *)
LEMMA MutexHolder ==
  ASSUME Inv, NEW p \in Procs, mutex[p] # None
  PROVE  mutex[p] \in Threads /\ ProcOf[mutex[p]] = p /\ pc[mutex[p]] # "idle"
<1>1. mutex \in [Procs -> Threads \cup {None}]
  BY DEF Inv, TypeOK
<1>2. ProcOf[mutex[p]] = p /\ pc[mutex[p]] \in HeldLabels
  BY DEF Inv, MutexInv
<1>3. pc[mutex[p]] # "idle"
  BY <1>2 DEF HeldLabels, StartLabels, StopLabels
<1> QED BY <1>1, <1>2, <1>3

(* A step of a thread changes neither g_runtime of another process nor what *)
(* another thread is doing.                                                 *)
LEMMA StepIsLocal ==
  ASSUME Inv, NEW t \in Threads, Call(t) \/ Step(t)
  PROVE  /\ \A q \in Procs \ {ProcOf[t]} :
              /\ mutex'[q] = mutex[q] /\ ref_count'[q] = ref_count[q]
              /\ database_path'[q] = database_path[q]
              /\ lock_fd'[q] = lock_fd[q] /\ server'[q] = server[q]
         /\ \A u \in Threads \ {t} :
              /\ pc'[u] = pc[u] /\ work'[u] = work[u]
              /\ work[u] # None => hpath'[work[u]] = hpath[work[u]]
<1> DEFINE Goal == /\ \A q \in Procs \ {ProcOf[t]} :
                        /\ mutex'[q] = mutex[q] /\ ref_count'[q] = ref_count[q]
                        /\ database_path'[q] = database_path[q]
                        /\ lock_fd'[q] = lock_fd[q] /\ server'[q] = server[q]
                   /\ \A u \in Threads \ {t} :
                        /\ pc'[u] = pc[u] /\ work'[u] = work[u]
                        /\ work[u] # None => hpath'[work[u]] = hpath[work[u]]
<1>0. /\ TypeOK
      /\ \A u \in Threads \ {t} : work[u] # None => work[u] # work[t]
      /\ \A h \in Handles : hstate[h] = "free" => \A u \in Threads : work[u] # h
  <2>1. TypeOK /\ ThreadsInv
    BY DEF Inv
  <2>2. \A u \in Threads \ {t} : work[u] # None => work[u] # work[t]
    BY <2>1 DEF ThreadsInv
  <2>3. ASSUME NEW h \in Handles, hstate[h] = "free", NEW u \in Threads
        PROVE  work[u] # h
    <3>1. CASE pc[u] = "idle"
      BY <2>1, <3>1, ConstantAssumption DEF ThreadsInv
    <3>2. CASE pc[u] # "idle"
      BY <2>1, <2>3, <3>2 DEF ThreadsInv, StageAt
    <3> QED BY <3>1, <3>2
  <2> QED BY <2>1, <2>2, <2>3
<1> USE DEF At, Goto, Leave, Free, Fail, FailStart, SetHandle, Usable, global,
       files, objects, local, TypeOK
<1>1. Goal
  <2>1. CASE StartOpen(t)
    BY <1>0, <2>1, SMT DEF StartOpen
  <2>2. CASE ValidateRuntimeDatabasePath(t)
    BY <1>0, <2>2, SMT DEF ValidateRuntimeDatabasePath
  <2>3. CASE PrepareDatabaseDirectory(t)
    BY <1>0, <2>3 DEF PrepareDatabaseDirectory
  <2>4. CASE StartRuntimeBusy(t)
    BY <1>0, <2>4 DEF StartRuntimeBusy
  <2>5. CASE StartRuntimeShare(t)
    BY <1>0, <2>5 DEF StartRuntimeShare
  <2>6. CASE StartRuntimeFirst(t)
    BY <1>0, <2>6 DEF StartRuntimeFirst
  <2>7. CASE AcquireDatabaseLock(t)
    BY <1>0, <2>7 DEF AcquireDatabaseLock, WorkDir
  <2>8. CASE PollDatabaseLock(t)
    BY <1>0, <2>8 DEF PollDatabaseLock, WorkDir
  <2>9. CASE DatabaseLockBusy(t)
    BY <1>0, <2>9 DEF DatabaseLockBusy
  <2>10. CASE DatabaseLockError(t)
    BY <1>0, <2>10 DEF DatabaseLockError
  <2>11. CASE RemoveStaleRun(t)
    BY <1>0, <2>11 DEF RemoveStaleRun, RemoveCleanupDirectory, Place
  <2>12. CASE CreateRuntimeLayout(t)
    BY <1>0, <2>12 DEF CreateRuntimeLayout, Place
  <2>13. CASE StartRuntimeThrows(t)
    BY <1>0, <2>13 DEF StartRuntimeThrows, ReleaseWorkLock, WorkDir, Place
  <2>14. CASE BeginServerInit(t)
    BY <1>0, <2>14 DEF BeginServerInit
  <2>15. CASE ServerInitSucceeds(t)
    BY <1>0, <2>15 DEF ServerInitSucceeds
  <2>16. CASE ServerInitFails(t)
    BY <1>0, <2>16 DEF ServerInitFails, Orphan
  <2>17. CASE UndoLayout(t)
    BY <1>0, <2>17 DEF UndoLayout, RemoveCleanupDirectory, Place
  <2>18. CASE UndoLock(t)
    BY <1>0, <2>18 DEF UndoLock, ReleaseWorkLock, WorkDir
  <2>19. CASE ConnectRuntime(t)
    BY <1>0, <2>19 DEF ConnectRuntime
  <2>20. CASE EnsureCoreSystemTables(t)
    BY <1>0, <2>20 DEF EnsureCoreSystemTables
  <2>21. CASE OpenFailsAfterStart(t)
    BY <1>0, <2>21 DEF OpenFailsAfterStart
  <2>22. CASE OpenThrowsAfterStart(t)
    BY <1>0, <2>22 DEF OpenThrowsAfterStart
  <2>23. CASE Prepare(t)
    BY <1>0, <2>23 DEF Prepare
  <2>24. CASE Finalize(t)
    BY <1>0, <2>24 DEF Finalize
  <2>25. CASE CloseRefused(t)
    BY <1>0, <2>25 DEF CloseRefused
  <2>26. CASE Close(t)
    BY <1>0, <2>26 DEF Close
  <2>27. CASE ReleaseRuntimeShared(t)
    BY <1>0, <2>27 DEF ReleaseRuntimeShared
  <2>28. CASE ReleaseRuntimeLast(t)
    BY <1>0, <2>28 DEF ReleaseRuntimeLast
  <2>29. CASE ServerEnd(t)
    BY <1>0, <2>29 DEF ServerEnd
  <2>30. CASE RemoveRun(t)
    BY <1>0, <2>30 DEF RemoveRun, RemoveCleanupDirectory, Place
  <2>31. CASE ClearTmp(t)
    BY <1>0, <2>31 DEF ClearTmp
  <2>32. CASE ReleaseDatabaseLock(t)
    BY <1>0, <2>32 DEF ReleaseDatabaseLock
  <2>33. CASE ClearRuntime(t)
    BY <1>0, <2>33 DEF ClearRuntime
  <2> QED BY <2>1, <2>2, <2>3, <2>4, <2>5, <2>6, <2>7, <2>8, <2>9,
       <2>10, <2>11, <2>12, <2>13, <2>14, <2>15, <2>16, <2>17, <2>18, <2>19,
       <2>20, <2>21, <2>22, <2>23, <2>24, <2>25, <2>26, <2>27, <2>28, <2>29,
       <2>30, <2>31, <2>32, <2>33 DEF Call, Step
<1> QED BY <1>1

(* A step of a thread leaves the phase of every other process as it is. *)
LEMMA OtherPhase ==
  ASSUME Inv, NEW t \in Threads, Call(t) \/ Step(t), NEW q \in Procs, q # ProcOf[t]
  PROVE  Phase(q)' = Phase(q) /\ Target(q)' = Target(q)
<1>1. CASE mutex[q] = None
  BY <1>1, StepIsLocal, SMT DEF Phase, Target
<1>2. CASE mutex[q] # None
  <2>1. mutex[q] \in Threads \ {t} /\ pc[mutex[q]] # "idle"
    BY <1>2, SMT DEF Inv, TypeOK, MutexInv, HeldLabels, StartLabels, StopLabels
  <2>2. work[mutex[q]] # None
    BY <2>1, ConstantAssumption DEF Inv, ThreadsInv
  <2> QED BY <1>2, <2>1, <2>2, StepIsLocal, SMT DEF Phase, Target
<1> QED BY <1>1, <1>2

(* While a thread holds the mutex, it is where the runtime is. *)
LEMMA HeldPhase ==
  ASSUME Inv, NEW t \in Threads, pc[t] \in HeldLabels
  PROVE  /\ mutex[ProcOf[t]] = t /\ ref_count[ProcOf[t]] = 0
         /\ Phase(ProcOf[t]) = pc[t]
         /\ Target(ProcOf[t]) = IF pc[t] \in StartLabels
                                THEN hpath[work[t]] ELSE database_path[ProcOf[t]]
<1>1. ProcOf[t] \in Procs /\ t # None
  BY ConstantAssumption
<1>2. mutex[ProcOf[t]] = t
  BY DEF Inv, ThreadsInv
<1>3. ref_count[ProcOf[t]] = 0
  BY <1>1, <1>2 DEF Inv, MutexInv
<1> QED BY <1>1, <1>2, <1>3 DEF Phase, Target

(* A quiet step keeps the phase, and changes nothing the phase speaks of.   *)
LEMMA QuietPhase ==
  ASSUME Inv, NEW t \in Threads, Quiet(t)
  PROVE  /\ Phase(ProcOf[t])' = Phase(ProcOf[t])
         /\ Target(ProcOf[t])' = Target(ProcOf[t])
         /\ UNCHANGED <<mutex, database_path, lock_fd, server, files>>
<1> DEFINE p == ProcOf[t]
<1> USE DEF At, Goto, Leave, Free, Fail, SetHandle, Usable, global, files,
       objects, local, HeldLabels, StartLabels, StopLabels, TypeOK
<1>0. TypeOK /\ p \in Procs /\ t # None
  BY ConstantAssumption DEF Inv
<1>1. /\ UNCHANGED <<mutex, database_path, lock_fd, server, files>>
      /\ ref_count'[p] > 0 <=> ref_count[p] > 0
      /\ mutex[p] = t => pc'[t] = pc[t] /\ work'[t] = work[t] /\ hpath' = hpath
  <2>0. mutex[p] = t => pc[t] \in HeldLabels
    BY <1>0 DEF Inv, MutexInv
  <2>0a. ref_count[p] \in Nat
    BY <1>0
  <2>1. CASE StartOpen(t)
    BY <1>0, <2>0, <2>0a, <2>1 DEF StartOpen
  <2>2. CASE ValidateRuntimeDatabasePath(t)
    BY <1>0, <2>0, <2>0a, <2>2 DEF ValidateRuntimeDatabasePath
  <2>3. CASE PrepareDatabaseDirectory(t)
    BY <1>0, <2>0, <2>0a, <2>3 DEF PrepareDatabaseDirectory
  <2>4. CASE StartRuntimeBusy(t)
    BY <1>0, <2>0, <2>0a, <2>4 DEF StartRuntimeBusy
  <2>5. CASE StartRuntimeShare(t)
    BY <1>0, <2>0, <2>0a, <2>5, SMT DEF StartRuntimeShare
  <2>6. CASE PollDatabaseLock(t)
    BY <1>0, <2>0, <2>0a, <2>6 DEF PollDatabaseLock, WorkDir
  <2>7. CASE ConnectRuntime(t)
    BY <1>0, <2>0, <2>0a, <2>7 DEF ConnectRuntime
  <2>8. CASE EnsureCoreSystemTables(t)
    BY <1>0, <2>0, <2>0a, <2>8 DEF EnsureCoreSystemTables
  <2>9. CASE OpenFailsAfterStart(t)
    BY <1>0, <2>0, <2>0a, <2>9 DEF OpenFailsAfterStart
  <2>10. CASE OpenThrowsAfterStart(t)
    BY <1>0, <2>0, <2>0a, <2>10 DEF OpenThrowsAfterStart
  <2>11. CASE Prepare(t)
    BY <1>0, <2>0, <2>0a, <2>11 DEF Prepare
  <2>12. CASE Finalize(t)
    BY <1>0, <2>0, <2>0a, <2>12 DEF Finalize
  <2>13. CASE CloseRefused(t)
    BY <1>0, <2>0, <2>0a, <2>13 DEF CloseRefused
  <2>14. CASE Close(t)
    BY <1>0, <2>0, <2>0a, <2>14 DEF Close
  <2>15. CASE ReleaseRuntimeShared(t)
    BY <1>0, <2>0, <2>0a, <2>15, SMT DEF ReleaseRuntimeShared
  <2> QED BY <2>1, <2>2, <2>3, <2>4, <2>5, <2>6, <2>7, <2>8, <2>9, <2>10,
       <2>11, <2>12, <2>13, <2>14, <2>15 DEF Quiet
<1>2. Call(t) \/ Step(t)
  BY DEF Quiet, Call, Step
<1>3. CASE mutex[p] = None
  BY <1>1, <1>3 DEF Phase, Target
<1>4. CASE mutex[p] = t
  BY <1>1, <1>4 DEF Phase, Target
<1>5. CASE mutex[p] # None /\ mutex[p] # t
  <2>1. mutex[p] \in Threads \ {t} /\ pc[mutex[p]] # "idle"
    BY <1>0, <1>5, MutexHolder
  <2>2. work[mutex[p]] # None
    BY <2>1, ConstantAssumption, SMT DEF Inv, ThreadsInv
  <2> QED BY <1>1, <1>2, <1>5, <2>1, <2>2, StepIsLocal, SMT DEF Phase, Target
<1> QED BY <1>1, <1>3, <1>4, <1>5

(* The life of a runtime: where each of the other steps takes it. *)
LEMMA PhaseMoves ==
  ASSUME Inv, NEW t \in Threads
  PROVE  /\ StartRuntimeFirst(t) =>
              /\ Phase(ProcOf[t]) = "down" /\ Target(ProcOf[t])' = hpath[work[t]]
              /\ Phase(ProcOf[t])' = IF hpath[work[t]] = Memory THEN "mkrun" ELSE "flock"
         /\ ReleaseRuntimeLast(t) => Moves(ProcOf[t], "up", "end")
         /\ AcquireDatabaseLock(t) => Moves(ProcOf[t], "flock", "rmstale")
         /\ DatabaseLockBusy(t) => Moves(ProcOf[t], "flock", "down")
         /\ DatabaseLockError(t) => Moves(ProcOf[t], "flock", "down")
         /\ RemoveStaleRun(t) => Moves(ProcOf[t], "rmstale", "mkrun")
         /\ CreateRuntimeLayout(t) => Moves(ProcOf[t], "mkrun", "init")
         /\ StartRuntimeThrows(t) => Moves(ProcOf[t], "mkrun", "down")
         /\ BeginServerInit(t) => Moves(ProcOf[t], "init", "initing")
         /\ ServerInitSucceeds(t) => Moves(ProcOf[t], "initing", "up")
         /\ ServerInitFails(t) => Moves(ProcOf[t], "initing", "undo")
         /\ UndoLayout(t) => Moves(ProcOf[t], "undo", "undounlock")
         /\ UndoLock(t) => Moves(ProcOf[t], "undounlock", "down")
         /\ ServerEnd(t) => Moves(ProcOf[t], "end", "rmrun")
         /\ RemoveRun(t) => Moves(ProcOf[t], "rmrun", "cleartmp")
         /\ ClearTmp(t) => Moves(ProcOf[t], "cleartmp", "unlock")
         /\ ReleaseDatabaseLock(t) => Moves(ProcOf[t], "unlock", "clear")
         /\ ClearRuntime(t) => Moves(ProcOf[t], "clear", "down")
<1> DEFINE p == ProcOf[t]
<1>0. p \in Procs /\ t # None
  BY ConstantAssumption
<1>1. /\ mutex \in [Procs -> Threads \cup {None}] /\ ref_count \in [Procs -> Nat]
      /\ database_path \in [Procs -> AllPaths \cup {None}] /\ pc \in [Threads -> Labels]
  BY DEF Inv, TypeOK
<1>2. pc[t] \in HeldLabels => mutex[p] = t /\ ref_count[p] = 0
  BY HeldPhase
<1>3. ASSUME StartRuntimeFirst(t)
      PROVE  /\ Phase(p) = "down" /\ Target(p)' = hpath[work[t]]
             /\ Phase(p)' = IF hpath[work[t]] = Memory THEN "mkrun" ELSE "flock"
  BY <1>0, <1>1, <1>3, SMT DEF StartRuntimeFirst, Goto, Phase, Target, StartLabels, objects
<1>4. ASSUME ReleaseRuntimeLast(t)
      PROVE  Moves(p, "up", "end")
  BY <1>0, <1>1, <1>4, SMT DEF ReleaseRuntimeLast, Goto, Phase, Target, Moves, StartLabels
<1>4a. ASSUME pc[t] \in HeldLabels, mutex'[p] = None, ref_count'[p] = 0
       PROVE  Moves(p, pc[t], "down")
  BY <1>0, <1>2, <1>4a, SMT DEF Phase, Moves
<1>6. ASSUME DatabaseLockBusy(t)
      PROVE  Moves(p, "flock", "down")
  <2>1. pc[t] = "flock" /\ pc[t] \in HeldLabels
    BY <1>6 DEF DatabaseLockBusy, At, HeldLabels, StartLabels, StopLabels
  <2>2. mutex'[p] = None /\ ref_count'[p] = 0
    BY <1>0, <1>1, <1>2, <1>6, <2>1 DEF DatabaseLockBusy, FailStart
  <2> QED BY <1>4a, <2>1, <2>2
<1>7. ASSUME DatabaseLockError(t)
      PROVE  Moves(p, "flock", "down")
  <2>1. pc[t] = "flock" /\ pc[t] \in HeldLabels
    BY <1>7 DEF DatabaseLockError, At, HeldLabels, StartLabels, StopLabels
  <2>2. mutex'[p] = None /\ ref_count'[p] = 0
    BY <1>0, <1>1, <1>2, <1>7, <2>1 DEF DatabaseLockError, FailStart
  <2> QED BY <1>4a, <2>1, <2>2
<1>10. ASSUME StartRuntimeThrows(t)
      PROVE  Moves(p, "mkrun", "down")
  <2>1. pc[t] = "mkrun" /\ pc[t] \in HeldLabels
    BY <1>10 DEF StartRuntimeThrows, At, HeldLabels, StartLabels, StopLabels
  <2>2. mutex'[p] = None /\ ref_count'[p] = 0
    BY <1>0, <1>1, <1>2, <1>10, <2>1 DEF StartRuntimeThrows, FailStart
  <2> QED BY <1>4a, <2>1, <2>2
<1>15. ASSUME UndoLock(t)
      PROVE  Moves(p, "undounlock", "down")
  <2>1. pc[t] = "undounlock" /\ pc[t] \in HeldLabels
    BY <1>15 DEF UndoLock, At, HeldLabels, StartLabels, StopLabels
  <2>2. mutex'[p] = None /\ ref_count'[p] = 0
    BY <1>0, <1>1, <1>2, <1>15, <2>1 DEF UndoLock, FailStart
  <2> QED BY <1>4a, <2>1, <2>2
<1>20. ASSUME ClearRuntime(t)
      PROVE  Moves(p, "clear", "down")
  <2>1. pc[t] = "clear" /\ pc[t] \in HeldLabels
    BY <1>20 DEF ClearRuntime, At, HeldLabels, StartLabels, StopLabels
  <2>2. mutex'[p] = None /\ ref_count'[p] = 0
    BY <1>0, <1>1, <1>2, <1>20, <2>1 DEF ClearRuntime
  <2> QED BY <1>4a, <2>1, <2>2
<1>12. ASSUME ServerInitSucceeds(t)
       PROVE  Moves(p, "initing", "up")
  <2>1. mutex[p] = t /\ pc[t] = "initing"
    BY <1>2, <1>12 DEF ServerInitSucceeds, At, HeldLabels, StartLabels
  <2>2. FieldsOf(p) /\ Phase(p) = "initing"
    BY <1>0, <2>1 DEF Inv, FieldsInv, Phase
  <2>3. database_path[p] = Target(p)
    BY <2>2 DEF FieldsOf
  <2>4. mutex'[p] = None /\ ref_count'[p] = 1 /\ database_path'[p] = database_path[p]
    BY <1>0, <1>1, <1>12 DEF ServerInitSucceeds
  <2>5. Phase(p)' = "up"
    BY <2>4, SMT DEF Phase
  <2>6. Target(p)' = database_path'[p]
    BY <2>4 DEF Target
  <2> QED BY <2>2, <2>3, <2>4, <2>5, <2>6 DEF Moves
<1> USE DEF At, Goto, Phase, Target, Moves, HeldLabels, StartLabels, StopLabels,
       global, objects
<1>5. ASSUME AcquireDatabaseLock(t)
      PROVE  Moves(p, "flock", "rmstale")
  BY <1>0, <1>1, <1>2, <1>5 DEF AcquireDatabaseLock
<1>8. ASSUME RemoveStaleRun(t)
      PROVE  Moves(p, "rmstale", "mkrun")
  BY <1>0, <1>1, <1>2, <1>8, ZenonT(30) DEF RemoveStaleRun
<1>9. ASSUME CreateRuntimeLayout(t)
      PROVE  Moves(p, "mkrun", "init")
  BY <1>0, <1>1, <1>2, <1>9, ZenonT(30) DEF CreateRuntimeLayout
<1>11. ASSUME BeginServerInit(t)
      PROVE  Moves(p, "init", "initing")
  BY <1>0, <1>1, <1>2, <1>11, ZenonT(30) DEF BeginServerInit
<1>13. ASSUME ServerInitFails(t)
      PROVE  Moves(p, "initing", "undo")
  BY <1>0, <1>1, <1>2, <1>13, ZenonT(30) DEF ServerInitFails
<1>14. ASSUME UndoLayout(t)
      PROVE  Moves(p, "undo", "undounlock")
  BY <1>0, <1>1, <1>2, <1>14, ZenonT(30) DEF UndoLayout
<1>16. ASSUME ServerEnd(t)
      PROVE  Moves(p, "end", "rmrun")
  BY <1>0, <1>1, <1>2, <1>16 DEF ServerEnd
<1>17. ASSUME RemoveRun(t)
      PROVE  Moves(p, "rmrun", "cleartmp")
  BY <1>0, <1>1, <1>2, <1>17 DEF RemoveRun
<1>18. ASSUME ClearTmp(t)
      PROVE  Moves(p, "cleartmp", "unlock")
  BY <1>0, <1>1, <1>2, <1>18 DEF ClearTmp
<1>19. ASSUME ReleaseDatabaseLock(t)
      PROVE  Moves(p, "unlock", "clear")
  BY <1>0, <1>1, <1>2, <1>19 DEF ReleaseDatabaseLock
<1> HIDE DEF Moves
<1> QED BY <1>3, <1>4, <1>5, <1>6, <1>7, <1>8, <1>9, <1>10, <1>11, <1>12, <1>13,
       <1>14, <1>15, <1>16, <1>17, <1>18, <1>19, <1>20

(* A crash resets the process that crashes and no other. *)
LEMMA CrashPhase ==
  ASSUME Inv, NEW p \in Procs, Crash(p)
  PROVE  /\ Phase(p)' = "down"
         /\ mutex'[p] = None /\ ref_count'[p] = 0 /\ database_path'[p] = None
         /\ lock_fd'[p] = None /\ server'[p] = FALSE
         /\ \A q \in Procs \ {p} :
              /\ Phase(q)' = Phase(q) /\ Target(q)' = Target(q)
              /\ mutex'[q] = mutex[q] /\ ref_count'[q] = ref_count[q]
              /\ database_path'[q] = database_path[q]
              /\ lock_fd'[q] = lock_fd[q] /\ server'[q] = server[q]
<1>1. /\ mutex'[p] = None /\ ref_count'[p] = 0 /\ database_path'[p] = None
      /\ lock_fd'[p] = None /\ server'[p] = FALSE
  BY DEF Inv, TypeOK, Crash
<1>2. Phase(p)' = "down"
  BY <1>1, SMT DEF Phase
<1>3. ASSUME NEW q \in Procs \ {p}
      PROVE  /\ mutex'[q] = mutex[q] /\ ref_count'[q] = ref_count[q]
             /\ database_path'[q] = database_path[q]
             /\ lock_fd'[q] = lock_fd[q] /\ server'[q] = server[q]
  BY DEF Inv, TypeOK, Crash
<1>4. ASSUME NEW q \in Procs \ {p}
      PROVE  Phase(q)' = Phase(q) /\ Target(q)' = Target(q)
  <2>1. CASE mutex[q] = None
    BY <1>3, <2>1 DEF Phase, Target
  <2>2. CASE mutex[q] # None
    <3> DEFINE u == mutex[q]
    <3>1. u \in Threads /\ ProcOf[u] = q /\ pc[u] # "idle"
      BY <2>2, MutexHolder
    <3>2. work[u] \in Handles /\ hproc[work[u]] = q
      BY <3>1 DEF Inv, ThreadsInv
    <3>3. pc'[u] = pc[u] /\ work'[u] = work[u] /\ hpath'[work[u]] = hpath[work[u]]
      BY <3>1, <3>2 DEF Inv, TypeOK, Crash
    <3> QED BY <1>3, <3>3 DEF Phase, Target
  <2> QED BY <2>1, <2>2
<1> QED BY <1>1, <1>2, <1>3, <1>4
-----------------------------------------------------------------------------
(* Every step keeps the fields of g_runtime in step with the phase: the     *)
(* quiet steps change neither, each of the others moves both.               *)
LEMMA FieldsStep == Inv /\ Next => FieldsInv'
<1> SUFFICES ASSUME Inv, Next PROVE FieldsInv'
  OBVIOUS
<1> USE DEF FieldsOf, Running, Named, HasFd
<1>1. ASSUME NEW t \in Threads, Call(t) \/ Step(t), NEW q \in Procs
      PROVE  FieldsOf(q)'
  <2> DEFINE p == ProcOf[t]  path == hpath[work[t]]
  <2>1. p \in Procs /\ FieldsOf(p) /\ FieldsOf(q) /\ None # Memory
    BY ConstantAssumption DEF Inv, FieldsInv
  <2>2. /\ database_path \in [Procs -> AllPaths \cup {None}]
        /\ server \in [Procs -> BOOLEAN] /\ lock_fd \in [Procs -> Dirs \cup {None}]
    BY DEF Inv, TypeOK
  <2>3. pc[t] \in HeldLabels =>
           /\ path # None
           /\ Target(p) = IF pc[t] \in StartLabels THEN path ELSE database_path[p]
    <3>1. pc[t] \in HeldLabels => work[t] \in Handles /\ hproc[work[t]] # None
      BY ConstantAssumption, SMT DEF Inv, ThreadsInv, HeldLabels, StartLabels, StopLabels
    <3> QED BY <3>1, HeldPhase, ConstantAssumption, SMT DEF Inv, HandlesInv, AllPaths
  <2>4. CASE q # p
    <3>1. Phase(q)' = Phase(q) /\ Target(q)' = Target(q)
      BY <1>1, <2>4, OtherPhase
    <3>2. /\ database_path'[q] = database_path[q] /\ lock_fd'[q] = lock_fd[q]
          /\ server'[q] = server[q]
      BY <1>1, <2>4, StepIsLocal, SMT
    <3> QED BY <2>1, <3>1, <3>2
  <2>5. CASE q = p /\ Quiet(t)
    <3>1. /\ Phase(p)' = Phase(p) /\ Target(p)' = Target(p)
          /\ UNCHANGED <<database_path, lock_fd, server>>
      BY <2>5, QuietPhase
    <3> QED BY <2>1, <2>5, <3>1
  <2>6. CASE q = p /\ ~Quiet(t)
    <3>1. ASSUME StartRuntimeFirst(t) PROVE FieldsOf(p)'
      <4>1. Phase(p) = "down" /\ Phase(p)' \in {"mkrun", "flock"}
        BY <3>1, PhaseMoves, ZenonT(30)
      <4>2. UNCHANGED <<database_path, lock_fd, server>>
        BY <3>1 DEF StartRuntimeFirst
      <4> QED BY <2>1, <4>1, <4>2
    <3>2. ASSUME AcquireDatabaseLock(t) PROVE FieldsOf(p)'
      <4>1. Moves(p, "flock", "rmstale")
        BY <3>2, PhaseMoves
      <4>2. UNCHANGED <<database_path, lock_fd, server>>
        BY <3>2 DEF AcquireDatabaseLock, global
      <4> QED BY <2>1, <2>2, <4>1, <4>2 DEF Moves
    <3>3. ASSUME DatabaseLockBusy(t) PROVE FieldsOf(p)'
      <4>1. Moves(p, "flock", "down")
        BY <3>3, PhaseMoves
      <4>2. UNCHANGED <<database_path, lock_fd, server>>
        BY <3>3 DEF DatabaseLockBusy, FailStart
      <4> QED BY <2>1, <2>2, <4>1, <4>2 DEF Moves
    <3>4. ASSUME DatabaseLockError(t) PROVE FieldsOf(p)'
      <4>1. Moves(p, "flock", "down")
        BY <3>4, PhaseMoves
      <4>2. UNCHANGED <<database_path, lock_fd, server>>
        BY <3>4 DEF DatabaseLockError, FailStart
      <4> QED BY <2>1, <2>2, <4>1, <4>2 DEF Moves
    <3>5. ASSUME RemoveStaleRun(t) PROVE FieldsOf(p)'
      <4>1. Moves(p, "rmstale", "mkrun")
        BY <3>5, PhaseMoves
      <4>2. UNCHANGED <<database_path, lock_fd, server>>
        BY <3>5 DEF RemoveStaleRun, global
      <4> QED BY <2>1, <2>2, <4>1, <4>2 DEF Moves
    <3>6. ASSUME CreateRuntimeLayout(t) PROVE FieldsOf(p)'
      <4>1. Moves(p, "mkrun", "init")
        BY <3>6, PhaseMoves, ZenonT(30)
      <4>2. UNCHANGED <<database_path, lock_fd, server>>
        BY <3>6 DEF CreateRuntimeLayout, global
      <4> QED BY <2>1, <2>2, <4>1, <4>2 DEF Moves
    <3>7. ASSUME UndoLayout(t) PROVE FieldsOf(p)'
      <4>1. Moves(p, "undo", "undounlock")
        BY <3>7, PhaseMoves
      <4>2. UNCHANGED <<database_path, lock_fd, server>>
        BY <3>7 DEF UndoLayout, global
      <4> QED BY <2>1, <2>2, <4>1, <4>2 DEF Moves
    <3>8. ASSUME UndoLock(t) PROVE FieldsOf(p)'
      <4>1. Moves(p, "undounlock", "down")
        BY <3>8, PhaseMoves
      <4>2. UNCHANGED <<database_path, lock_fd, server>>
        BY <3>8 DEF UndoLock, FailStart
      <4> QED BY <2>1, <2>2, <4>1, <4>2 DEF Moves
    <3>9. ASSUME ReleaseRuntimeLast(t) PROVE FieldsOf(p)'
      <4>1. Moves(p, "up", "end")
        BY <3>9, PhaseMoves
      <4>2. UNCHANGED <<database_path, lock_fd, server>>
        BY <3>9 DEF ReleaseRuntimeLast
      <4> QED BY <2>1, <2>2, <4>1, <4>2 DEF Moves
    <3>10. ASSUME RemoveRun(t) PROVE FieldsOf(p)'
      <4>1. Moves(p, "rmrun", "cleartmp")
        BY <3>10, PhaseMoves, ZenonT(30)
      <4>2. UNCHANGED <<database_path, lock_fd, server>>
        BY <3>10 DEF RemoveRun, global
      <4> QED BY <2>1, <2>2, <4>1, <4>2 DEF Moves
    <3>11. ASSUME ClearTmp(t) PROVE FieldsOf(p)'
      <4>1. Moves(p, "cleartmp", "unlock")
        BY <3>11, PhaseMoves
      <4>2. UNCHANGED <<database_path, lock_fd, server>>
        BY <3>11 DEF ClearTmp, global
      <4> QED BY <2>1, <2>2, <4>1, <4>2 DEF Moves
    <3>12. ASSUME StartRuntimeThrows(t) PROVE FieldsOf(p)'
      <4>1. Moves(p, "mkrun", "down")
        BY <3>12, PhaseMoves, ZenonT(30)
      <4>2. database_path'[p] = None /\ UNCHANGED <<lock_fd, server>>
        BY <3>12, <2>1, <2>2 DEF StartRuntimeThrows, FailStart
      <4> QED BY <2>1, <2>2, <4>1, <4>2 DEF Moves
    <3>13. ASSUME BeginServerInit(t) PROVE FieldsOf(p)'
      <4>1. Moves(p, "init", "initing")
        BY <3>13, PhaseMoves
      <4>2. /\ database_path'[p] = path /\ server'[p] /\ UNCHANGED lock_fd
            /\ path # None /\ Target(p) = path
        BY <3>13, <2>1, <2>2, <2>3, ZenonT(30) DEF BeginServerInit, At,
           HeldLabels, StartLabels
      <4> QED BY <2>1, <2>2, <4>1, <4>2 DEF Moves
    <3>14. ASSUME ServerInitSucceeds(t) PROVE FieldsOf(p)'
      <4>1. Moves(p, "initing", "up")
        BY <3>14, PhaseMoves
      <4>2. /\ UNCHANGED <<database_path, server>> /\ Target(p) = path
            /\ lock_fd'[p] = IF path = Memory THEN None ELSE DirOf[path]
        BY <3>14, <2>1, <2>2, <2>3, ZenonT(30) DEF ServerInitSucceeds, At,
           HeldLabels, StartLabels
      <4> QED BY <2>1, <2>2, <4>1, <4>2 DEF Moves
    <3>15. ASSUME ServerInitFails(t) PROVE FieldsOf(p)'
      <4>1. Moves(p, "initing", "undo")
        BY <3>15, PhaseMoves
      <4>2. database_path'[p] = None /\ server'[p] = FALSE /\ UNCHANGED lock_fd
        BY <3>15, <2>1, <2>2 DEF ServerInitFails
      <4> QED BY <2>1, <2>2, <4>1, <4>2 DEF Moves
    <3>16. ASSUME ServerEnd(t) PROVE FieldsOf(p)'
      <4>1. Moves(p, "end", "rmrun")
        BY <3>16, PhaseMoves, ZenonT(30)
      <4>2. server'[p] = FALSE /\ UNCHANGED <<database_path, lock_fd>>
        BY <3>16, <2>1, <2>2 DEF ServerEnd
      <4> QED BY <2>1, <2>2, <4>1, <4>2 DEF Moves
    <3>17. ASSUME ReleaseDatabaseLock(t) PROVE FieldsOf(p)'
      <4>1. Moves(p, "unlock", "clear")
        BY <3>17, PhaseMoves, ZenonT(30)
      <4>2. lock_fd'[p] = None /\ UNCHANGED <<database_path, server>>
        BY <3>17, <2>1, <2>2, ZenonT(30) DEF ReleaseDatabaseLock
      <4> QED BY <2>1, <2>2, <4>1, <4>2 DEF Moves
    <3>18. ASSUME ClearRuntime(t) PROVE FieldsOf(p)'
      <4>1. Moves(p, "clear", "down")
        BY <3>18, PhaseMoves
      <4>2. database_path'[p] = None /\ UNCHANGED <<lock_fd, server>>
        BY <3>18, <2>1, <2>2 DEF ClearRuntime
      <4> QED BY <2>1, <2>2, <4>1, <4>2 DEF Moves
    <3> QED BY <1>1, <2>6, <3>1, <3>2, <3>3, <3>4, <3>5, <3>6, <3>7, <3>8, <3>9,
          <3>10, <3>11, <3>12, <3>13, <3>14, <3>15, <3>16, <3>17, <3>18,
          ZenonT(30) DEF Call, Step, Quiet
  <2> QED BY <2>4, <2>5, <2>6
<1>2. ASSUME NEW p \in Procs, Crash(p), NEW q \in Procs
      PROVE  FieldsOf(q)'
  <2>1. FieldsOf(q)
    BY DEF Inv, FieldsInv
  <2>2. CASE q = p
    <3>1. /\ Phase(p)' = "down" /\ server'[p] = FALSE
          /\ database_path'[p] = None /\ lock_fd'[p] = None
      BY <1>2, CrashPhase
    <3> QED BY <2>2, <3>1
  <2>3. CASE q # p
    <3>1. /\ Phase(q)' = Phase(q) /\ Target(q)' = Target(q)
          /\ database_path'[q] = database_path[q]
          /\ lock_fd'[q] = lock_fd[q] /\ server'[q] = server[q]
      BY <1>2, <2>3, CrashPhase
    <3> QED BY <2>1, <3>1
  <2> QED BY <2>2, <2>3
<1> QED BY <1>1, <1>2 DEF Next, FieldsInv

(* The steps that take or free a file lock, and those that write run/ and   *)
(* tmp/.                                                                    *)
WritesFlock(t) == AcquireDatabaseLock(t) \/ StartRuntimeThrows(t) \/ UndoLock(t)
                  \/ ReleaseDatabaseLock(t)
WritesRun(t) == RemoveStaleRun(t) \/ CreateRuntimeLayout(t) \/ StartRuntimeThrows(t)
                \/ UndoLayout(t) \/ RemoveRun(t)
WritesTmp(t) == BeginServerInit(t) \/ ServerInitFails(t) \/ ClearTmp(t)

(* The runtime of p stays on its path in the phases S, or stays out of S. *)
Stays(p, S) ==
  /\ Phase(p)' \in S <=> Phase(p) \in S
  /\ Phase(p) \in S => Target(p)' = Target(p)

(* The same of the phases in which a durable runtime has its lock. *)
StaysLocked(p) ==
  LET locked == Phase(p) \in Locked /\ Target(p) # Memory IN
  /\ locked' <=> locked
  /\ locked => Target(p)' = Target(p)

(* Every other step leaves the files alone and the runtime where it has     *)
(* them.                                                                    *)
LEMMA Frames ==
  ASSUME Inv, NEW t \in Threads, Call(t) \/ Step(t)
  PROVE  /\ ~WritesFlock(t) => UNCHANGED flock /\ StaysLocked(ProcOf[t])
         /\ ~WritesRun(t) => UNCHANGED run /\ Stays(ProcOf[t], HasRun)
         /\ ~WritesTmp(t) => UNCHANGED tmp /\ Stays(ProcOf[t], HasTmp)
<1> DEFINE p == ProcOf[t]
<1> USE DEF Stays, StaysLocked, Locked, HasRun, HasTmp
<1>1. CASE Quiet(t)
  <2>1. /\ Phase(p)' = Phase(p) /\ Target(p)' = Target(p)
        /\ UNCHANGED <<flock, run, tmp>>
    BY <1>1, QuietPhase DEF files
  <2> QED BY <2>1
<1>2. CASE StartRuntimeFirst(t)
  <2>1. /\ Phase(p) = "down" /\ Target(p)' = hpath[work[t]]
        /\ Phase(p)' = IF hpath[work[t]] = Memory THEN "mkrun" ELSE "flock"
    BY <1>2, PhaseMoves
  <2>2. UNCHANGED <<flock, run, tmp>>
    BY <1>2 DEF StartRuntimeFirst, files
  <2> QED BY <2>1, <2>2
<1>3. CASE ReleaseRuntimeLast(t)
  <2>1. Moves(p, "up", "end")
    BY <1>3, PhaseMoves
  <2>2. UNCHANGED <<flock, run, tmp>>
    BY <1>3 DEF ReleaseRuntimeLast, files
  <2> QED BY <2>1, <2>2 DEF Moves
<1>4. CASE AcquireDatabaseLock(t)
  <2>1. Moves(p, "flock", "rmstale")
    BY <1>4, PhaseMoves
  <2>2. UNCHANGED <<run, tmp>>
    BY <1>4 DEF AcquireDatabaseLock
  <2>3. WritesFlock(t)
    BY <1>4 DEF WritesFlock
  <2> QED BY <2>1, <2>2, <2>3 DEF Moves
<1>5. CASE DatabaseLockBusy(t)
  <2>1. Moves(p, "flock", "down")
    BY <1>5, PhaseMoves
  <2>2. UNCHANGED <<flock, run, tmp>>
    BY <1>5 DEF DatabaseLockBusy, FailStart, files
  <2> QED BY <2>1, <2>2 DEF Moves
<1>6. CASE DatabaseLockError(t)
  <2>1. Moves(p, "flock", "down")
    BY <1>6, PhaseMoves
  <2>2. UNCHANGED <<flock, run, tmp>>
    BY <1>6 DEF DatabaseLockError, FailStart, files
  <2> QED BY <2>1, <2>2 DEF Moves
<1>7. CASE RemoveStaleRun(t)
  <2>1. Moves(p, "rmstale", "mkrun")
    BY <1>7, PhaseMoves
  <2>2. UNCHANGED <<flock, tmp>>
    BY <1>7 DEF RemoveStaleRun
  <2>3. WritesRun(t)
    BY <1>7 DEF WritesRun
  <2> QED BY <2>1, <2>2, <2>3 DEF Moves
<1>8. CASE CreateRuntimeLayout(t)
  <2>1. Moves(p, "mkrun", "init")
    BY <1>8, PhaseMoves
  <2>2. UNCHANGED <<flock, tmp>>
    BY <1>8 DEF CreateRuntimeLayout
  <2>3. WritesRun(t)
    BY <1>8 DEF WritesRun
  <2> QED BY <2>1, <2>2, <2>3 DEF Moves
<1>9. CASE StartRuntimeThrows(t)
  <2>1. Moves(p, "mkrun", "down")
    BY <1>9, PhaseMoves
  <2>2. UNCHANGED tmp
    BY <1>9 DEF StartRuntimeThrows
  <2>3. WritesFlock(t) /\ WritesRun(t)
    BY <1>9 DEF WritesFlock, WritesRun
  <2> QED BY <2>1, <2>2, <2>3 DEF Moves
<1>10. CASE BeginServerInit(t)
  <2>1. Moves(p, "init", "initing")
    BY <1>10, PhaseMoves
  <2>2. UNCHANGED <<flock, run>>
    BY <1>10 DEF BeginServerInit
  <2>3. WritesTmp(t)
    BY <1>10 DEF WritesTmp
  <2> QED BY <2>1, <2>2, <2>3 DEF Moves
<1>11. CASE ServerInitSucceeds(t)
  <2>1. Moves(p, "initing", "up")
    BY <1>11, PhaseMoves
  <2>2. UNCHANGED <<flock, run, tmp>>
    BY <1>11 DEF ServerInitSucceeds, files
  <2> QED BY <2>1, <2>2 DEF Moves
<1>12. CASE ServerInitFails(t)
  <2>1. Moves(p, "initing", "undo")
    BY <1>12, PhaseMoves
  <2>2. UNCHANGED <<flock, run>>
    BY <1>12 DEF ServerInitFails
  <2>3. WritesTmp(t)
    BY <1>12 DEF WritesTmp
  <2> QED BY <2>1, <2>2, <2>3 DEF Moves
<1>13. CASE UndoLayout(t)
  <2>1. Moves(p, "undo", "undounlock")
    BY <1>13, PhaseMoves
  <2>2. UNCHANGED <<flock, tmp>>
    BY <1>13 DEF UndoLayout
  <2>3. WritesRun(t)
    BY <1>13 DEF WritesRun
  <2> QED BY <2>1, <2>2, <2>3 DEF Moves
<1>14. CASE UndoLock(t)
  <2>1. Moves(p, "undounlock", "down")
    BY <1>14, PhaseMoves
  <2>2. UNCHANGED <<run, tmp>>
    BY <1>14 DEF UndoLock
  <2>3. WritesFlock(t)
    BY <1>14 DEF WritesFlock
  <2> QED BY <2>1, <2>2, <2>3 DEF Moves
<1>15. CASE ServerEnd(t)
  <2>1. Moves(p, "end", "rmrun")
    BY <1>15, PhaseMoves
  <2>2. UNCHANGED <<flock, run, tmp>>
    BY <1>15 DEF ServerEnd, files
  <2> QED BY <2>1, <2>2 DEF Moves
<1>16. CASE RemoveRun(t)
  <2>1. Moves(p, "rmrun", "cleartmp")
    BY <1>16, PhaseMoves
  <2>2. UNCHANGED <<flock, tmp>>
    BY <1>16 DEF RemoveRun
  <2>3. WritesRun(t)
    BY <1>16 DEF WritesRun
  <2> QED BY <2>1, <2>2, <2>3 DEF Moves
<1>17. CASE ClearTmp(t)
  <2>1. Moves(p, "cleartmp", "unlock")
    BY <1>17, PhaseMoves
  <2>2. UNCHANGED <<flock, run>>
    BY <1>17 DEF ClearTmp
  <2>3. WritesTmp(t)
    BY <1>17 DEF WritesTmp
  <2> QED BY <2>1, <2>2, <2>3 DEF Moves
<1>18. CASE ReleaseDatabaseLock(t)
  <2>1. Moves(p, "unlock", "clear")
    BY <1>18, PhaseMoves
  <2>2. UNCHANGED <<run, tmp>>
    BY <1>18 DEF ReleaseDatabaseLock
  <2>3. WritesFlock(t)
    BY <1>18 DEF WritesFlock
  <2> QED BY <2>1, <2>2, <2>3 DEF Moves
<1>19. CASE ClearRuntime(t)
  <2>1. Moves(p, "clear", "down")
    BY <1>19, PhaseMoves
  <2>2. UNCHANGED <<flock, run, tmp>>
    BY <1>19 DEF ClearRuntime, files
  <2> QED BY <2>1, <2>2 DEF Moves
<1> HIDE DEF Stays, StaysLocked, Locked, HasRun, HasTmp
<1> QED BY <1>1, <1>2, <1>3, <1>4, <1>5, <1>6, <1>7, <1>8, <1>9, <1>10, <1>11, <1>12,
     <1>13, <1>14, <1>15, <1>16, <1>17, <1>18, <1>19 DEF Call, Step,
     Quiet

(* The types of the variables that stand for the file system. *)
FileTypes ==
  /\ flock \in [Dirs -> Procs \cup {None}]
  /\ run \in [Dirs \cup Procs -> SUBSET (Procs \cup {Stale})]
  /\ tmp \in [Dirs -> SUBSET (Procs \cup {Stale})]

(* They are a part of the invariant, cited where no other type matters. *)
LEMMA FilesTyped == Inv => FileTypes
  BY DEF Inv, TypeOK, FileTypes

(* A step changes a file lock only by taking a free one for its own process *)
(* or by freeing its own.                                                   *)
LEMMA FlockEffect ==
  ASSUME Inv, NEW t \in Threads, Call(t) \/ Step(t), NEW d \in Dirs
  PROVE  \/ flock'[d] = flock[d]
         \/ flock[d] = None /\ flock'[d] = ProcOf[t]
         \/ flock[d] = ProcOf[t] /\ flock'[d] = None
<1> DEFINE p == ProcOf[t]
           path == hpath[work[t]]
<1>0. FileTypes /\ p \in Procs
  BY ConstantAssumption, FilesTyped DEF Inv
<1>1. CASE AcquireDatabaseLock(t)
  <2>1. flock[WorkDir(t)] = None /\ flock' = [flock EXCEPT ![WorkDir(t)] = p]
    BY <1>1 DEF AcquireDatabaseLock
  <2> QED BY <1>0, <2>1 DEF FileTypes
<1>2. CASE StartRuntimeThrows(t) \/ UndoLock(t)
  <2>1. pc[t] \in {"mkrun", "undounlock"} /\ ReleaseWorkLock(t)
    BY <1>2 DEF StartRuntimeThrows, UndoLock, At
  <2>2. Phase(p) = pc[t] /\ Target(p) = path
    BY <2>1, HeldPhase DEF HeldLabels, StartLabels
  <2>3. path \in AllPaths
    BY <2>1 DEF Inv, ThreadsInv, HandlesInv, StageAt
  <2>4. CASE path = Memory
    BY <2>1, <2>4 DEF ReleaseWorkLock
  <2>5. CASE path # Memory
    <3>1. DirOf[path] \in Dirs /\ flock[DirOf[path]] = p
      BY <1>0, <2>1, <2>2, <2>3, <2>5, SMT DEF Inv, LocksInv, LocksOf, Locked, AllPaths, Dirs
    <3> QED BY <1>0, <2>1, <2>5, <3>1 DEF ReleaseWorkLock, WorkDir, FileTypes
  <2> QED BY <2>4, <2>5
<1>3. CASE ReleaseDatabaseLock(t)
  <2>1. pc[t] = "unlock"
    BY <1>3 DEF ReleaseDatabaseLock, At
  <2>2. Phase(p) = "unlock" /\ Target(p) = database_path[p]
    BY <2>1, HeldPhase DEF HeldLabels, StartLabels, StopLabels
  <2>3. CASE lock_fd[p] = None
    BY <1>3, <2>3 DEF ReleaseDatabaseLock
  <2>4. CASE lock_fd[p] # None
    <3>1. lock_fd[p] = DirOf[database_path[p]] /\ database_path[p] # Memory
      BY <1>0, <2>4 DEF Inv, FieldsInv, FieldsOf
    <3>2. lock_fd[p] \in Dirs
      BY <1>0, <2>4 DEF Inv, TypeOK
    <3>3. flock[lock_fd[p]] = p
      BY <1>0, <2>2, <3>1, <3>2, SMT DEF Inv, LocksInv, LocksOf, Locked
    <3>4. flock' = [flock EXCEPT ![lock_fd[p]] = None]
      BY <1>3, <2>4 DEF ReleaseDatabaseLock
    <3> QED BY <1>0, <3>2, <3>3, <3>4 DEF FileTypes
  <2> QED BY <2>3, <2>4
<1>4. CASE ~WritesFlock(t)
  BY <1>4, Frames
<1> QED BY <1>1, <1>2, <1>3, <1>4 DEF WritesFlock

(* Every step keeps the file locks in step with the phases. *)
LEMMA LocksStep == Inv /\ Next => LocksInv'
<1> SUFFICES ASSUME Inv, Next PROVE LocksInv'
  OBVIOUS
<1>1. ASSUME NEW t \in Threads, Call(t) \/ Step(t), NEW q \in Procs
      PROVE  LocksOf(q)'
  <2> DEFINE p == ProcOf[t]
             path == hpath[work[t]]
  <2>0. FileTypes /\ p \in Procs /\ LocksOf(p) /\ LocksOf(q) /\ None \notin Procs
    BY ConstantAssumption, FilesTyped DEF Inv, LocksInv
  <2>0a. pc[t] # "idle" => path \in AllPaths
    BY DEF Inv, ThreadsInv, HandlesInv, StageAt
  <2>1. CASE q # p
    BY <1>1, <2>0, <2>1, OtherPhase, FlockEffect, SMT DEF LocksOf
  <2>2. CASE q = p /\ Quiet(t)
    BY <2>0, <2>2, QuietPhase DEF LocksOf, files
  <2>3. CASE q = p /\ ~Quiet(t)
    <3> SUFFICES LocksOf(p)'
      BY <2>3
    <3>1. CASE ~WritesFlock(t)
      <4>1. UNCHANGED flock /\ StaysLocked(p)
        BY <1>1, <3>1, Frames
      <4> QED BY <2>0, <4>1 DEF LocksOf, StaysLocked
    <3>2. CASE AcquireDatabaseLock(t)
      <4>0. Moves(p, "flock", "rmstale")
        BY <3>2, PhaseMoves
      <4>1. pc[t] = "flock" /\ path # Memory
        BY <3>2 DEF AcquireDatabaseLock, At, Inv, ThreadsInv
      <4>2. Phase(p) = "flock" /\ Phase(p)' = "rmstale" /\ Target(p)' = path
        BY <4>0, <4>1, HeldPhase DEF Moves, HeldLabels, StartLabels
      <4>3. \A d \in Dirs : flock[d] # p
        BY <2>0, <4>2 DEF LocksOf, Locked
      <4>4. DirOf[path] \in Dirs
        BY <2>0a, <4>1 DEF AllPaths, Dirs
      <4>5. flock' = [flock EXCEPT ![DirOf[path]] = p]
        BY <3>2 DEF AcquireDatabaseLock, WorkDir
      <4>6. \A d \in Dirs : flock'[d] = p <=> d = DirOf[path]
        BY <2>0, <4>3, <4>4, <4>5 DEF FileTypes
      <4> QED BY <4>1, <4>2, <4>6 DEF LocksOf, Locked
    <3>3. CASE StartRuntimeThrows(t) \/ UndoLock(t)
      <4>0. \/ Moves(p, "mkrun", "down")
            \/ Moves(p, "undounlock", "down")
        BY <3>3, PhaseMoves
      <4>1. pc[t] \in {"mkrun", "undounlock"} /\ ReleaseWorkLock(t)
        BY <3>3 DEF StartRuntimeThrows, UndoLock, At
      <4>2. Phase(p) = pc[t] /\ Target(p) = path /\ Phase(p)' = "down"
        BY <4>0, <4>1, HeldPhase DEF Moves, HeldLabels, StartLabels
      <4>3. \A d \in Dirs : flock[d] = p <=> path # Memory /\ d = DirOf[path]
        BY <2>0, <4>1, <4>2 DEF LocksOf, Locked
      <4>4. \A d \in Dirs : flock'[d] # p
        BY <2>0, <4>1, <4>3 DEF ReleaseWorkLock, WorkDir, FileTypes
      <4> QED BY <4>2, <4>4 DEF LocksOf, Locked
    <3>4. CASE ReleaseDatabaseLock(t)
      <4>0. Moves(p, "unlock", "clear")
        BY <3>4, PhaseMoves
      <4>1. pc[t] = "unlock"
        BY <3>4 DEF ReleaseDatabaseLock, At
      <4>2. Phase(p) = "unlock" /\ Target(p) = database_path[p] /\ Phase(p)' = "clear"
        BY <4>0, <4>1, HeldPhase DEF Moves, HeldLabels, StartLabels,
           StopLabels
      <4>3. \A d \in Dirs : flock[d] = p <=> lock_fd[p] # None /\ d = lock_fd[p]
        <5>1. \A d \in Dirs : flock[d] = p <=>
                database_path[p] # Memory /\ d = DirOf[database_path[p]]
          BY <2>0, <4>2 DEF LocksOf, Locked
        <5>2. FieldsOf(p) /\ None \notin Dirs
          BY <2>0, ConstantAssumption DEF Inv, FieldsInv
        <5>3. lock_fd[p] = IF database_path[p] # Memory
                           THEN DirOf[database_path[p]] ELSE None
          BY <4>2, <5>2 DEF FieldsOf, HasFd
        <5> QED BY <5>1, <5>2, <5>3
      <4>4. \A d \in Dirs : flock'[d] # p
        <5>1. IF lock_fd[p] = None THEN UNCHANGED flock
              ELSE flock' = [flock EXCEPT ![lock_fd[p]] = None]
          BY <3>4 DEF ReleaseDatabaseLock
        <5> QED BY <2>0, <4>3, <5>1 DEF FileTypes
      <4> QED BY <4>2, <4>4 DEF LocksOf, Locked
    <3> QED BY <3>1, <3>2, <3>3, <3>4 DEF WritesFlock
  <2> QED BY <2>1, <2>2, <2>3
<1>2. ASSUME NEW p \in Procs, Crash(p), NEW q \in Procs
      PROVE  LocksOf(q)'
  <2>1. LocksOf(q) /\ None \notin Procs
    BY ConstantAssumption DEF Inv, LocksInv
  <2>2. CASE q = p
    BY <1>2, <2>1, <2>2, CrashPhase DEF LocksOf, Locked, Crash
  <2>3. CASE q # p
    <3>1. Phase(q)' = Phase(q) /\ Target(q)' = Target(q)
      BY <1>2, <2>3, CrashPhase
    <3>2. \A d \in Dirs : flock'[d] = q <=> flock[d] = q
      BY <1>2, <2>1, <2>3, SMT DEF Crash
    <3> QED BY <2>1, <3>1, <3>2 DEF LocksOf
  <2> QED BY <2>2, <2>3
<1> QED BY <1>1, <1>2 DEF Next, LocksInv

(* Only the owner of a directory's lock has files in it. *)
LEMMA LockExcludes ==
  ASSUME Inv, NEW p \in Procs, NEW q \in Procs, p # q, NEW d \in Dirs, flock[d] = p
  PROVE  q \notin run[d] /\ q \notin tmp[d]
<1>1. LocksOf(q) /\ RunOf(q) /\ TmpOf(q)
  BY DEF Inv, LocksInv, RunInv, TmpInv
<1>2. d \notin Procs
  BY ConstantAssumption
<1>3. ~(Phase(q) \in Locked /\ Target(q) # Memory /\ d = DirOf[Target(q)])
  BY <1>1 DEF LocksOf
<1> QED BY <1>1, <1>2, <1>3, SMT DEF RunOf, TmpOf, Place, HasRun, HasTmp, Locked
-----------------------------------------------------------------------------
(* A step adds to or removes from run/ no files of another live process. *)
LEMMA RunEffect ==
  ASSUME Inv, NEW t \in Threads, Call(t) \/ Step(t),
         NEW q \in Procs, q # ProcOf[t], NEW x \in Dirs \cup Procs
  PROVE  q \in run'[x] <=> q \in run[x]
<1> DEFINE p == ProcOf[t]
           path == hpath[work[t]]
<1>0. FileTypes /\ p \in Procs /\ LocksOf(p) /\ q # Stale
  BY ConstantAssumption, FilesTyped DEF Inv, LocksInv
<1>1. ASSUME NEW y, Phase(p) \in Locked, y = Target(p), y \in AllPaths,
             RemoveCleanupDirectory(p, y)
      PROVE  q \in run'[x] <=> q \in run[x]
  <2>1. CASE y = Memory
    BY <1>0, <1>1, <2>1 DEF RemoveCleanupDirectory, Place, FileTypes
  <2>2. CASE y # Memory
    <3>1. DirOf[y] \in Dirs /\ flock[DirOf[y]] = p
      BY <1>0, <1>1, <2>2 DEF LocksOf, AllPaths, Dirs
    <3>2. q \notin run[DirOf[y]]
      BY <1>0, <3>1, LockExcludes
    <3>3. run' = [run EXCEPT ![DirOf[y]] = {}]
      BY <1>1, <2>2 DEF RemoveCleanupDirectory, Place
    <3> QED BY <1>0, <3>1, <3>2, <3>3 DEF FileTypes
  <2> QED BY <2>1, <2>2
<1>2. CASE RemoveStaleRun(t) \/ UndoLayout(t)
  <2>1. pc[t] \in {"rmstale", "undo"} /\ RemoveCleanupDirectory(p, path)
    BY <1>2 DEF RemoveStaleRun, UndoLayout, At
  <2>2. Phase(p) = pc[t] /\ Target(p) = path
    BY <2>1, HeldPhase DEF HeldLabels, StartLabels
  <2>3. path \in AllPaths
    BY <2>1 DEF Inv, ThreadsInv, HandlesInv, StageAt
  <2>4. Phase(p) \in Locked
    BY <2>1, <2>2 DEF Locked
  <2> QED BY <1>1, <2>1, <2>2, <2>3, <2>4
<1>3. CASE RemoveRun(t)
  <2>1. pc[t] = "rmrun" /\ RemoveCleanupDirectory(p, database_path[p])
    BY <1>3 DEF RemoveRun, At
  <2>2. Phase(p) = "rmrun" /\ Target(p) = database_path[p]
    BY <2>1, HeldPhase DEF HeldLabels, StartLabels, StopLabels
  <2>3. database_path[p] \in AllPaths
    BY <1>0, <2>2, SMT DEF Inv, FieldsInv, FieldsOf, Named, TypeOK
  <2>4. Phase(p) \in Locked
    BY <2>2 DEF Locked
  <2> QED BY <1>1, <2>1, <2>2, <2>3, <2>4
<1>4. CASE CreateRuntimeLayout(t) \/ StartRuntimeThrows(t)
  <2>1. CASE CreateRuntimeLayout(t)
    <3>1. run' = [run EXCEPT ![Place(p, path)] = @ \cup {p}]
      BY <2>1 DEF CreateRuntimeLayout
    <3>2. run'[x] = run[x] \/ run'[x] = run[x] \cup {p}
      BY <1>0, <3>1 DEF FileTypes
    <3> QED BY <3>2
  <2>2. CASE StartRuntimeThrows(t)
    <3>1. \E y : \E left \in SUBSET {Stale} : run' = [run EXCEPT ![y] = @ \cup left]
      BY <2>2 DEF StartRuntimeThrows
    <3> QED BY <1>0, <3>1, SMT DEF FileTypes
  <2> QED BY <1>4, <2>1, <2>2
<1>5. CASE ~WritesRun(t)
  BY <1>5, Frames
<1> QED BY <1>2, <1>3, <1>4, <1>5 DEF WritesRun

(* Every step keeps run/ in step with the phases. *)
LEMMA RunStep == Inv /\ Next => RunInv'
<1> SUFFICES ASSUME Inv, Next PROVE RunInv'
  OBVIOUS
<1>1. ASSUME NEW t \in Threads, Call(t) \/ Step(t), NEW q \in Procs
      PROVE  RunOf(q)'
  <2> DEFINE p == ProcOf[t]
             path == hpath[work[t]]
  <2>0. FileTypes /\ p \in Procs /\ RunOf(p) /\ RunOf(q) /\ p # Stale
    BY ConstantAssumption, FilesTyped DEF Inv, RunInv
  <2>0a. pc[t] # "idle" => path \in AllPaths
    BY DEF Inv, ThreadsInv, HandlesInv, StageAt
  <2>0b. \A y \in AllPaths : Place(p, y) \in Dirs \cup Procs
    BY <2>0 DEF Place, AllPaths, Dirs
  <2>1. CASE q # p
    <3>1. Phase(q)' = Phase(q) /\ Target(q)' = Target(q)
      BY <1>1, <2>1, OtherPhase
    <3>2. \A x \in Dirs \cup Procs : q \in run'[x] <=> q \in run[x]
      BY <1>1, <2>1, RunEffect
    <3> QED BY <2>0, <3>1, <3>2 DEF RunOf, Place
  <2>2. CASE q = p /\ Quiet(t)
    BY <2>0, <2>2, QuietPhase DEF RunOf, Place, files
  <2>3. CASE q = p /\ ~Quiet(t)
    <3> SUFFICES RunOf(p)'
      BY <2>3
    <3>0. ASSUME NEW y \in AllPaths, RemoveCleanupDirectory(p, y),
                 \A x \in Dirs \cup Procs : p \in run[x] => x = Place(p, y)
          PROVE  \A x \in Dirs \cup Procs : p \notin run'[x]
      BY <2>0, <2>0b, <3>0 DEF RemoveCleanupDirectory, FileTypes
    <3>1. CASE ~WritesRun(t)
      <4>1. UNCHANGED run /\ Stays(p, HasRun)
        BY <1>1, <3>1, Frames
      <4> QED BY <2>0, <4>1 DEF RunOf, Place, Stays
    <3>2. CASE RemoveStaleRun(t)
      <4>0. Moves(p, "rmstale", "mkrun")
        BY <3>2, PhaseMoves
      <4>1. pc[t] = "rmstale" /\ RemoveCleanupDirectory(p, path)
        BY <3>2 DEF RemoveStaleRun, At
      <4>2. Phase(p) = "rmstale" /\ Phase(p)' = "mkrun"
        BY <4>0 DEF Moves
      <4>3. \A x \in Dirs \cup Procs : p \notin run[x]
        BY <2>0, <4>2 DEF RunOf, HasRun
      <4>4. \A x \in Dirs \cup Procs : p \notin run'[x]
        BY <2>0a, <3>0, <4>1, <4>3
      <4> QED BY <4>2, <4>4 DEF RunOf, HasRun
    <3>3. CASE CreateRuntimeLayout(t)
      <4>0. Moves(p, "mkrun", "init")
        BY <3>3, PhaseMoves
      <4>1. /\ pc[t] = "mkrun"
            /\ run' = [run EXCEPT ![Place(p, path)] = @ \cup {p}]
        BY <3>3 DEF CreateRuntimeLayout, At
      <4>2. Phase(p) = "mkrun" /\ Phase(p)' = "init" /\ Target(p)' = path
        BY <4>0, <4>1, HeldPhase DEF Moves, HeldLabels, StartLabels
      <4>3. \A x \in Dirs \cup Procs : p \notin run[x]
        BY <2>0, <4>2 DEF RunOf, HasRun
      <4>4. Place(p, path) \in Dirs \cup Procs
        BY <2>0a, <2>0b, <4>1
      <4>5. \A x \in Dirs \cup Procs : p \in run'[x] <=> x = Place(p, path)
        BY <2>0, <4>1, <4>3, <4>4 DEF FileTypes
      <4> QED BY <4>2, <4>5 DEF RunOf, HasRun, Place
    <3>4. CASE StartRuntimeThrows(t)
      <4>0. Moves(p, "mkrun", "down")
        BY <3>4, PhaseMoves, ZenonT(30)
      <4>1. \E y : \E left \in SUBSET {Stale} : run' = [run EXCEPT ![y] = @ \cup left]
        BY <3>4 DEF StartRuntimeThrows
      <4>2. Phase(p) = "mkrun" /\ Phase(p)' = "down"
        BY <4>0 DEF Moves
      <4>3. \A x \in Dirs \cup Procs : p \notin run[x]
        BY <2>0, <4>2 DEF RunOf, HasRun
      <4>4. \A x \in Dirs \cup Procs : p \notin run'[x]
        BY <2>0, <4>1, <4>3, SMT DEF FileTypes
      <4> QED BY <4>2, <4>4 DEF RunOf, HasRun
    <3>5. CASE UndoLayout(t)
      <4>0. Moves(p, "undo", "undounlock")
        BY <3>5, PhaseMoves
      <4>1. pc[t] = "undo" /\ RemoveCleanupDirectory(p, path)
        BY <3>5 DEF UndoLayout, At
      <4>2. Phase(p) = "undo" /\ Phase(p)' = "undounlock" /\ Target(p) = path
        BY <4>0, <4>1, HeldPhase DEF Moves, HeldLabels, StartLabels
      <4>3. \A x \in Dirs \cup Procs : p \in run[x] => x = Place(p, path)
        BY <2>0, <4>2 DEF RunOf
      <4>4. \A x \in Dirs \cup Procs : p \notin run'[x]
        BY <2>0a, <3>0, <4>1, <4>3
      <4> QED BY <4>2, <4>4 DEF RunOf, HasRun
    <3>6. CASE RemoveRun(t)
      <4>0. Moves(p, "rmrun", "cleartmp")
        BY <3>6, PhaseMoves
      <4>1. pc[t] = "rmrun" /\ RemoveCleanupDirectory(p, database_path[p])
        BY <3>6 DEF RemoveRun, At
      <4>2. Phase(p) = "rmrun" /\ Phase(p)' = "cleartmp" /\ Target(p) = database_path[p]
        BY <4>0, <4>1, HeldPhase DEF Moves, HeldLabels, StartLabels,
           StopLabels
      <4>3. database_path[p] \in AllPaths
        BY <2>0, <4>2, SMT DEF Inv, FieldsInv, FieldsOf, Named, TypeOK
      <4>4. \A x \in Dirs \cup Procs : p \in run[x] => x = Place(p, database_path[p])
        <5>1. \A x \in Dirs \cup Procs : p \in run[x] => x = Place(p, Target(p))
          BY <2>0 DEF RunOf
        <5> QED BY <4>2, <5>1
      <4>5. \A x \in Dirs \cup Procs : p \notin run'[x]
        BY <3>0, <4>1, <4>3, <4>4
      <4> QED BY <4>2, <4>5 DEF RunOf, HasRun
    <3> QED BY <3>1, <3>2, <3>3, <3>4, <3>5, <3>6 DEF WritesRun
  <2> QED BY <2>1, <2>2, <2>3
<1>2. ASSUME NEW p \in Procs, Crash(p), NEW q \in Procs
      PROVE  RunOf(q)'
  <2>1. RunOf(q) /\ Stale \notin Procs
    BY ConstantAssumption DEF Inv, RunInv
  <2>2. CASE q = p
    <3>1. \A x \in Dirs \cup Procs : p \notin run'[x]
      BY <1>2, <2>1 DEF Crash, Orphan
    <3> QED BY <1>2, <2>2, <3>1, CrashPhase DEF RunOf, HasRun
  <2>3. CASE q # p
    <3>1. Phase(q)' = Phase(q) /\ Target(q)' = Target(q)
      BY <1>2, <2>3, CrashPhase
    <3>2. \A x \in Dirs \cup Procs : q \in run'[x] <=> q \in run[x]
      BY <1>2, <2>1, <2>3 DEF Crash, Orphan
    <3> QED BY <2>1, <3>1, <3>2 DEF RunOf, Place
  <2> QED BY <2>2, <2>3
<1> QED BY <1>1, <1>2 DEF Next, RunInv

(* A step adds to or removes from tmp/ no files of another live process. *)
LEMMA TmpEffect ==
  ASSUME Inv, NEW t \in Threads, Call(t) \/ Step(t),
         NEW q \in Procs, q # ProcOf[t], NEW d \in Dirs
  PROVE  q \in tmp'[d] <=> q \in tmp[d]
<1> DEFINE p == ProcOf[t]
<1>0. FileTypes /\ p \in Procs /\ LocksOf(p) /\ q # Stale
  BY ConstantAssumption, FilesTyped DEF Inv, LocksInv
<1>1. CASE BeginServerInit(t)
  <2>1. \/ UNCHANGED tmp
        \/ tmp' = [tmp EXCEPT ![DirOf[hpath[work[t]]]] = @ \cup {p}]
    BY <1>1 DEF BeginServerInit
  <2>2. tmp'[d] = tmp[d] \/ tmp'[d] = tmp[d] \cup {p}
    BY <1>0, <2>1 DEF FileTypes
  <2> QED BY <2>2
<1>2. CASE ServerInitFails(t)
  BY <1>0, <1>2 DEF ServerInitFails, Orphan
<1>3. CASE ClearTmp(t)
  <2>1. pc[t] = "cleartmp"
    BY <1>3 DEF ClearTmp, At
  <2>2. Phase(p) = "cleartmp" /\ Target(p) = database_path[p]
    BY <2>1, HeldPhase DEF HeldLabels, StartLabels, StopLabels
  <2>3. CASE database_path[p] = Memory
    BY <1>3, <2>3 DEF ClearTmp
  <2>4. CASE database_path[p] # Memory
    <3>1. d = DirOf[database_path[p]] => flock[d] = p
      BY <1>0, <2>2, <2>4 DEF LocksOf, Locked
    <3>2. d = DirOf[database_path[p]] => q \notin tmp[d]
      BY <1>0, <3>1, LockExcludes
    <3>3. tmp' = [tmp EXCEPT ![DirOf[database_path[p]]] = {}]
      BY <1>3, <2>4 DEF ClearTmp
    <3>4. tmp'[d] = tmp[d] \/ (d = DirOf[database_path[p]] /\ tmp'[d] = {})
      BY <1>0, <3>3 DEF FileTypes
    <3> QED BY <3>2, <3>4
  <2> QED BY <2>3, <2>4
<1>4. CASE ~WritesTmp(t)
  BY <1>4, Frames
<1> QED BY <1>1, <1>2, <1>3, <1>4 DEF WritesTmp

(* Every step keeps tmp/ in step with the phases. *)
LEMMA TmpStep == Inv /\ Next => TmpInv'
<1> SUFFICES ASSUME Inv, Next PROVE TmpInv'
  OBVIOUS
<1>1. ASSUME NEW t \in Threads, Call(t) \/ Step(t), NEW q \in Procs
      PROVE  TmpOf(q)'
  <2> DEFINE p == ProcOf[t]
             path == hpath[work[t]]
  <2>0. FileTypes /\ p \in Procs /\ TmpOf(p) /\ TmpOf(q) /\ p # Stale
    BY ConstantAssumption, FilesTyped DEF Inv, TmpInv
  <2>1. CASE q # p
    <3>1. Phase(q)' = Phase(q) /\ Target(q)' = Target(q)
      BY <1>1, <2>1, OtherPhase
    <3>2. \A d \in Dirs : q \in tmp'[d] <=> q \in tmp[d]
      BY <1>1, <2>1, TmpEffect
    <3> QED BY <2>0, <3>1, <3>2 DEF TmpOf
  <2>2. CASE q = p /\ Quiet(t)
    BY <2>0, <2>2, QuietPhase DEF TmpOf, files
  <2>3. CASE q = p /\ ~Quiet(t)
    <3> SUFFICES TmpOf(p)'
      BY <2>3
    <3>1. CASE ~WritesTmp(t)
      <4>1. UNCHANGED tmp /\ Stays(p, HasTmp)
        BY <1>1, <3>1, Frames
      <4> QED BY <2>0, <4>1 DEF TmpOf, Stays
    <3>2. CASE BeginServerInit(t)
      <4>0. Moves(p, "init", "initing")
        BY <3>2, PhaseMoves, ZenonT(30)
      <4>1. pc[t] = "init"
        BY <3>2 DEF BeginServerInit, At
      <4>2. Phase(p) = "init" /\ Phase(p)' = "initing" /\ Target(p)' = path
        BY <4>0, <4>1, HeldPhase DEF Moves, HeldLabels, StartLabels
      <4>3. \A d \in Dirs : p \notin tmp[d]
        BY <2>0, <4>2 DEF TmpOf, HasTmp
      <4>4. \A d \in Dirs : p \in tmp'[d] <=> path # Memory /\ d = DirOf[path]
        <5>1. IF path = Memory THEN UNCHANGED tmp
              ELSE tmp' = [tmp EXCEPT ![DirOf[path]] = @ \cup {p}]
          BY <3>2 DEF BeginServerInit
        <5> QED BY <2>0, <4>3, <5>1, SMT DEF FileTypes
      <4> QED BY <4>2, <4>4 DEF TmpOf, HasTmp
    <3>3. CASE ServerInitFails(t)
      <4>0. Moves(p, "initing", "undo")
        BY <3>3, PhaseMoves
      <4>1. Phase(p)' = "undo"
        BY <4>0 DEF Moves
      <4>2. \A d \in Dirs : p \notin tmp'[d]
        BY <2>0, <3>3 DEF ServerInitFails, Orphan
      <4> QED BY <4>1, <4>2 DEF TmpOf, HasTmp
    <3>4. CASE ClearTmp(t)
      <4>0. Moves(p, "cleartmp", "unlock")
        BY <3>4, PhaseMoves
      <4>1. pc[t] = "cleartmp"
        BY <3>4 DEF ClearTmp, At
      <4>2. /\ Phase(p) = "cleartmp" /\ Phase(p)' = "unlock"
            /\ Target(p) = database_path[p]
        BY <4>0, <4>1, HeldPhase DEF Moves, HeldLabels, StartLabels,
           StopLabels
      <4>3. \A d \in Dirs : p \in tmp[d] =>
              database_path[p] # Memory /\ d = DirOf[database_path[p]]
        BY <2>0, <4>2 DEF TmpOf
      <4>4. \A d \in Dirs : p \notin tmp'[d]
        <5>1. IF database_path[p] = Memory THEN UNCHANGED tmp
              ELSE tmp' = [tmp EXCEPT ![DirOf[database_path[p]]] = {}]
          BY <3>4 DEF ClearTmp
        <5> QED BY <2>0, <4>3, <5>1 DEF FileTypes
      <4> QED BY <4>2, <4>4 DEF TmpOf, HasTmp
    <3> QED BY <3>1, <3>2, <3>3, <3>4 DEF WritesTmp
  <2> QED BY <2>1, <2>2, <2>3
<1>2. ASSUME NEW p \in Procs, Crash(p), NEW q \in Procs
      PROVE  TmpOf(q)'
  <2>1. TmpOf(q) /\ Stale \notin Procs
    BY ConstantAssumption DEF Inv, TmpInv
  <2>2. CASE q = p
    <3>1. \A d \in Dirs : p \notin tmp'[d]
      BY <1>2, <2>1 DEF Crash, Orphan
    <3> QED BY <1>2, <2>2, <3>1, CrashPhase, ZenonT(30) DEF TmpOf, HasTmp
  <2>3. CASE q # p
    <3>1. Phase(q)' = Phase(q) /\ Target(q)' = Target(q)
      BY <1>2, <2>3, CrashPhase
    <3>2. \A d \in Dirs : q \in tmp'[d] <=> q \in tmp[d]
      BY <1>2, <2>1, <2>3 DEF Crash, Orphan
    <3> QED BY <2>1, <3>1, <3>2 DEF TmpOf
  <2> QED BY <2>2, <2>3
<1> QED BY <1>1, <1>2 DEF Next, TmpInv
-----------------------------------------------------------------------------
(* The objects a step adds to or removes from those that hold the runtime. *)
LEMMA RefsEffect ==
  ASSUME Inv, NEW t \in Threads, Call(t) \/ Step(t), NEW q \in Procs
  PROVE  /\ q = ProcOf[t] /\ (StartRuntimeShare(t) \/ ServerInitSucceeds(t)) =>
              work[t] \notin Refs(q) /\ Refs(q)' = Refs(q) \cup {work[t]}
         /\ q = ProcOf[t] /\ (ReleaseRuntimeShared(t) \/ ReleaseRuntimeLast(t)) =>
              work[t] \in Refs(q) /\ Refs(q)' = Refs(q) \ {work[t]}
         /\ q # ProcOf[t] \/ ~Counts(t) => Refs(q)' = Refs(q)
<1> DEFINE p == ProcOf[t]
           Counted(h) == hproc[h] = q /\ hstate[h] \in Referenced
           After(h) == hproc'[h] = q /\ hstate'[h] \in Referenced
           Same == \A h \in Handles : After(h) <=> Counted(h)
<1> USE DEF At, Free, SetHandle, StageAt, Referenced
<1>0. /\ None \notin Procs /\ p \in Procs
      /\ hstate \in [Handles -> HandleStates] /\ hproc \in [Handles -> Procs \cup {None}]
  BY ConstantAssumption DEF Inv, TypeOK
<1>1. pc[t] # "idle" =>
        /\ work[t] \in Handles /\ hproc[work[t]] = p
        /\ hstate[work[t]] = StageAt(pc[t])
  BY DEF Inv, ThreadsInv
<1>2. Refs(q) = {h \in Handles : Counted(h)} /\ Refs(q)' = {h \in Handles : After(h)}
  BY DEF Refs
<1>3. ASSUME StartRuntimeShare(t) \/ ServerInitSucceeds(t)
      PROVE  /\ ~Counted(work[t]) /\ (After(work[t]) <=> q = p)
             /\ work[t] \in Handles
             /\ \A h \in Handles \ {work[t]} : After(h) <=> Counted(h)
  BY <1>0, <1>1, <1>3 DEF StartRuntimeShare, ServerInitSucceeds
<1>4. ASSUME ReleaseRuntimeShared(t) \/ ReleaseRuntimeLast(t)
      PROVE  /\ (Counted(work[t]) <=> q = p) /\ ~After(work[t])
             /\ work[t] \in Handles
             /\ \A h \in Handles \ {work[t]} : After(h) <=> Counted(h)
  <2>1. pc[t] = "release"
    BY <1>4 DEF ReleaseRuntimeShared, ReleaseRuntimeLast
  <2>2. work[t] \in Handles /\ hproc[work[t]] = p /\ hstate[work[t]] = "closing"
    BY <1>1, <2>1
  <2>3. CASE ReleaseRuntimeShared(t)
    <3>1. /\ hstate' = [hstate EXCEPT ![work[t]] = "free"]
          /\ hproc' = [hproc EXCEPT ![work[t]] = None]
      BY <2>3 DEF ReleaseRuntimeShared
    <3> QED BY <1>0, <2>2, <3>1
  <2>4. CASE ReleaseRuntimeLast(t)
    BY <1>0, <2>2, <2>4 DEF ReleaseRuntimeLast
  <2> QED BY <1>4, <2>3, <2>4
<1>5. ASSUME ~Counts(t) PROVE Same
  <2>1. CASE UNCHANGED objects
    BY <2>1 DEF objects
  <2>2. CASE Gone(t)
    BY <1>0, <1>1, <2>2 DEF Gone
  <2>3. CASE Moved(t)
    BY <1>0, <1>1, <2>3 DEF Moved
  <2>4. CASE StartOpen(t)
    <3>1. PICK h \in Handles :
            /\ hstate[h] = "free" /\ hstate' = [hstate EXCEPT ![h] = "new"]
            /\ hproc' = [hproc EXCEPT ![h] = p]
      BY <2>4 DEF StartOpen
    <3> QED BY <1>0, <3>1
  <2>5. CASE Prepare(t) \/ Finalize(t)
    BY <2>5 DEF Prepare, Finalize
  <2>6. CASE Close(t)
    <3>1. PICK h \in Handles : hstate[h] = "open" /\ SetHandle(h, "closing")
      BY <2>6 DEF Close, Usable
    <3> QED BY <1>0, <3>1
  <2> QED BY <1>5, <2>1, <2>2, <2>3, <2>4, <2>5, <2>6, ObjectEffect, ZenonT(30)
<1>6. ASSUME q = p, StartRuntimeShare(t) \/ ServerInitSucceeds(t)
      PROVE  work[t] \notin Refs(q) /\ Refs(q)' = Refs(q) \cup {work[t]}
  <2>1. /\ work[t] \in Handles /\ work[t] \notin Refs(q) /\ work[t] \in Refs(q)'
        /\ \A h \in Handles \ {work[t]} : h \in Refs(q)' <=> h \in Refs(q)
    BY <1>2, <1>3, <1>6
  <2>2. Refs(q) \subseteq Handles /\ Refs(q)' \subseteq Handles
    BY <1>2
  <2> QED BY <2>1, <2>2
<1>7. ASSUME q = p, ReleaseRuntimeShared(t) \/ ReleaseRuntimeLast(t)
      PROVE  work[t] \in Refs(q) /\ Refs(q)' = Refs(q) \ {work[t]}
  <2>1. /\ work[t] \in Handles /\ work[t] \in Refs(q) /\ work[t] \notin Refs(q)'
        /\ \A h \in Handles \ {work[t]} : h \in Refs(q)' <=> h \in Refs(q)
    BY <1>2, <1>4, <1>7
  <2>2. Refs(q) \subseteq Handles /\ Refs(q)' \subseteq Handles
    BY <1>2
  <2> QED BY <2>1, <2>2
<1>8. ASSUME Same PROVE Refs(q)' = Refs(q)
  BY <1>2, <1>8
<1>9. ASSUME q # p PROVE Same
  <2>1. CASE StartRuntimeShare(t) \/ ServerInitSucceeds(t)
    BY <1>3, <1>9, <2>1
  <2>2. CASE ReleaseRuntimeShared(t) \/ ReleaseRuntimeLast(t)
    BY <1>4, <1>9, <2>2
  <2> HIDE DEF Same
  <2> QED BY <1>5, <2>1, <2>2 DEF Counts
<1> HIDE DEF Same
<1> QED BY <1>5, <1>6, <1>7, <1>8, <1>9, ZenonT(30)

(* A process whose count is zero has no object that holds the runtime. *)
LEMMA NoRefs ==
  ASSUME Inv, NEW p \in Procs
  PROVE  /\ IsFiniteSet(Refs(p)) /\ ref_count[p] = Cardinality(Refs(p))
         /\ ref_count[p] = 0 <=> Refs(p) = {}
<1>1. Refs(p) \subseteq Handles /\ IsFiniteSet(Handles)
  BY ConstantAssumption DEF Refs
<1>2. IsFiniteSet(Refs(p))
  BY <1>1, FS_Subset
<1>3. ref_count[p] = Cardinality(Refs(p))
  BY DEF Inv, RefCountExact
<1> QED BY <1>2, <1>3, FS_EmptySet

(* Every step keeps g_runtime.ref_count exact. *)
LEMMA RefCountStep == Inv /\ Next => RefCountExact'
<1> SUFFICES ASSUME Inv, Next PROVE RefCountExact'
  OBVIOUS
<1>1. ASSUME NEW t \in Threads, Call(t) \/ Step(t), NEW q \in Procs
      PROVE  ref_count'[q] = Cardinality(Refs(q)')
  <2> DEFINE p == ProcOf[t]
  <2>0. TypeOK /\ p \in Procs
    BY ConstantAssumption DEF Inv
  <2>1. CASE q # p
    <3>1. Refs(q)' = Refs(q)
      BY <1>1, <2>1, RefsEffect
    <3>2. ref_count'[q] = ref_count[q]
      BY <1>1, <2>1, StepIsLocal, SMT
    <3> QED BY <3>1, <3>2, NoRefs
  <2>2. CASE q = p /\ (StartRuntimeShare(t) \/ ServerInitSucceeds(t))
    <3>1. work[t] \notin Refs(q) /\ Refs(q)' = Refs(q) \cup {work[t]}
      BY <1>1, <2>2, RefsEffect
    <3>2. IsFiniteSet(Refs(q)) /\ ref_count[q] = Cardinality(Refs(q))
      BY NoRefs
    <3>3. Cardinality(Refs(q)') = ref_count[q] + 1
      BY <3>1, <3>2, FS_AddElement, ZenonT(30)
    <3>4. ref_count'[q] = ref_count[q] + 1
      <4>1. CASE StartRuntimeShare(t)
        BY <2>0, <2>2, <4>1 DEF StartRuntimeShare, TypeOK
      <4>2. CASE ServerInitSucceeds(t)
        <5>1. pc[t] = "initing" /\ ref_count'[p] = 1
          BY <2>0, <4>2 DEF ServerInitSucceeds, At, TypeOK
        <5>2. ref_count[p] = 0
          BY <5>1, HeldPhase DEF HeldLabels, StartLabels
        <5> QED BY <2>2, <5>1, <5>2, SMT
      <4> QED BY <2>2, <4>1, <4>2
    <3> QED BY <3>3, <3>4
  <2>3. CASE q = p /\ (ReleaseRuntimeShared(t) \/ ReleaseRuntimeLast(t))
    <3>1. work[t] \in Refs(q) /\ Refs(q)' = Refs(q) \ {work[t]}
      BY <1>1, <2>3, RefsEffect
    <3>2. /\ IsFiniteSet(Refs(q)) /\ ref_count[q] = Cardinality(Refs(q))
          /\ ref_count[q] # 0 /\ ref_count[q] \in Nat
      BY <2>0, <3>1, NoRefs DEF TypeOK
    <3>3. Cardinality(Refs(q)') = ref_count[q] - 1
      BY <3>1, <3>2, FS_RemoveElement, ZenonT(30)
    <3>4. ref_count'[q] = ref_count[q] - 1
      BY <2>0, <2>3, <3>2, SMT DEF ReleaseRuntimeShared, ReleaseRuntimeLast, TypeOK
    <3> QED BY <3>3, <3>4
  <2>4. CASE q = p /\ ~Counts(t)
    <3>1. Refs(q)' = Refs(q)
      BY <1>1, <2>4, RefsEffect
    <3>2. UNCHANGED ref_count
      BY <1>1, <2>4, ObjectEffect
    <3> QED BY <3>1, <3>2, NoRefs
  <2> QED BY <2>1, <2>2, <2>3, <2>4 DEF Counts
<1>2. ASSUME NEW p \in Procs, Crash(p), NEW q \in Procs
      PROVE  ref_count'[q] = Cardinality(Refs(q)')
  <2>0. TypeOK /\ None \notin Procs
    BY ConstantAssumption DEF Inv
  <2>1. CASE q = p
    <3>1. Refs(q)' = {}
      BY <1>2, <2>0, <2>1 DEF Crash, Refs, Referenced
    <3> QED BY <1>2, <2>1, <3>1, CrashPhase, FS_EmptySet, ZenonT(30)
  <2>2. CASE q # p
    <3>1. Refs(q)' = Refs(q)
      BY <1>2, <2>0, <2>2, SMT DEF Crash, Refs
    <3> QED BY <1>2, <2>2, <3>1, CrashPhase, NoRefs, ZenonT(30)
  <2> QED BY <2>1, <2>2
<1> QED BY <1>1, <1>2 DEF Next, RefCountExact

(* Every step keeps the objects on the path of their runtime. *)
LEMMA RefsStep == Inv /\ Next => RefsInv'
<1> SUFFICES ASSUME Inv, Next, NEW h \in Handles, (hstate[h] \in Referenced)'
             PROVE  (database_path[hproc[h]] = hpath[h])'
  BY DEF RefsInv
<1> USE DEF At, Free, SetHandle, StageAt, Referenced
<1>0. /\ None \notin Procs /\ database_path \in [Procs -> AllPaths \cup {None}]
      /\ hstate \in [Handles -> HandleStates] /\ hproc \in [Handles -> Procs \cup {None}]
      /\ hpath \in [Handles -> AllPaths \cup {None}]
  BY ConstantAssumption DEF Inv, TypeOK
<1>1. hstate[h] \in Referenced => hproc[h] \in Procs /\ database_path[hproc[h]] = hpath[h]
  BY <1>0 DEF Inv, RefsInv, HandlesInv
<1>2. ASSUME NEW t \in Threads, Call(t) \/ Step(t)
      PROVE  (database_path[hproc[h]] = hpath[h])'
  <2> DEFINE p == ProcOf[t]
  <2>0. p \in Procs
    BY ConstantAssumption
  <2>0a. pc[t] # "idle" =>
           /\ work[t] \in Handles /\ hproc[work[t]] = p
           /\ hstate[work[t]] = StageAt(pc[t])
    BY DEF Inv, ThreadsInv
  <2>1. CASE ~Counts(t)
    <3>1. hstate[h] \in Referenced /\ hproc'[h] = hproc[h] /\ hpath'[h] = hpath[h]
      <4>1. CASE UNCHANGED objects
        BY <4>1 DEF objects
      <4>2. CASE Gone(t)
        BY <1>0, <2>0a, <4>2 DEF Gone
      <4>3. CASE Moved(t)
        BY <1>0, <2>0a, <4>3 DEF Moved
      <4>4. CASE StartOpen(t)
        <5>1. PICK g \in Handles, path \in AllPaths, timeout \in Timeouts :
                /\ hstate' = [hstate EXCEPT ![g] = "new"]
                /\ hproc' = [hproc EXCEPT ![g] = ProcOf[t]]
                /\ hpath' = [hpath EXCEPT ![g] = path]
          BY <4>4 DEF StartOpen
        <5> QED BY <1>0, <5>1
      <4>5. CASE Prepare(t) \/ Finalize(t)
        BY <4>5 DEF Prepare, Finalize
      <4>6. CASE Close(t)
        <5>1. PICK g \in Handles : hstate[g] = "open" /\ SetHandle(g, "closing")
          BY <4>6 DEF Close, Usable
        <5> QED BY <1>0, <5>1
      <4> QED BY <1>2, <2>1, <4>1, <4>2, <4>3, <4>4, <4>5, <4>6, ObjectEffect,
            ZenonT(30)
    <3>2. database_path'[hproc[h]] = database_path[hproc[h]]
      <4>1. CASE Renames(t)
        <5>1. pc[t] \in {"mkrun", "init", "initing", "clear"}
          BY <4>1 DEF Renames, StartRuntimeThrows, BeginServerInit,
             ServerInitFails, ClearRuntime
        <5>2. Refs(p) = {}
          BY <2>0, <5>1, HeldPhase, NoRefs DEF HeldLabels, StartLabels,
             StopLabels
        <5>3. hproc[h] # p
          BY <3>1, <5>2 DEF Refs
        <5> QED BY <1>1, <1>2, <3>1, <5>3, StepIsLocal, ZenonT(20)
      <4>2. CASE ~Renames(t)
        BY <1>2, <4>2, ObjectEffect
      <4> QED BY <4>1, <4>2
    <3> QED BY <1>1, <3>1, <3>2
  <2>2. CASE StartRuntimeShare(t) \/ ServerInitSucceeds(t)
    <3>1. UNCHANGED <<database_path, hproc, hpath>>
      BY <2>2 DEF StartRuntimeShare, ServerInitSucceeds
    <3>2. CASE h # work[t]
      <4>1. hstate[h] \in Referenced
        BY <1>0, <2>2, <3>2 DEF StartRuntimeShare, ServerInitSucceeds
      <4> QED BY <1>1, <3>1, <4>1, ZenonT(20)
    <3>3. CASE h = work[t]
      <4>1. CASE StartRuntimeShare(t)
        BY <2>0a, <3>1, <3>3, <4>1 DEF StartRuntimeShare, OtherPathActive
      <4>2. CASE ServerInitSucceeds(t)
        <5>1. pc[t] = "initing"
          BY <4>2 DEF ServerInitSucceeds
        <5>2. Phase(p) = "initing" /\ Target(p) = hpath[work[t]]
          BY <5>1, HeldPhase DEF HeldLabels, StartLabels
        <5>3. database_path[p] = hpath[work[t]]
          BY <2>0, <5>2 DEF Inv, FieldsInv, FieldsOf
        <5> QED BY <2>0a, <3>1, <3>3, <5>1, <5>3, ZenonT(20)
      <4> QED BY <2>2, <4>1, <4>2, ZenonT(20)
    <3> QED BY <3>2, <3>3, ZenonT(20)
  <2>3. CASE ReleaseRuntimeShared(t) \/ ReleaseRuntimeLast(t)
    <3>1. hstate[h] \in Referenced /\ hproc'[h] = hproc[h] /\ hpath'[h] = hpath[h]
      BY <1>0, <2>0a, <2>3 DEF ReleaseRuntimeShared, ReleaseRuntimeLast
    <3>2. UNCHANGED database_path
      BY <2>3 DEF ReleaseRuntimeShared, ReleaseRuntimeLast
    <3> QED BY <1>1, <3>1, <3>2, ZenonT(20)
  <2> QED BY <2>1, <2>2, <2>3, ZenonT(20) DEF Counts
<1>3. ASSUME NEW p \in Procs, Crash(p)
      PROVE  (database_path[hproc[h]] = hpath[h])'
  <2>1. /\ hproc[h] # p /\ hstate'[h] = hstate[h]
        /\ hproc'[h] = hproc[h] /\ hpath'[h] = hpath[h]
    BY <1>3 DEF Crash
  <2>2. database_path'[hproc[h]] = database_path[hproc[h]]
    BY <1>1, <1>3, <2>1, CrashPhase
  <2> QED BY <1>1, <2>1, <2>2, ZenonT(20)
<1> QED BY <1>2, <1>3 DEF Next
-----------------------------------------------------------------------------
(* Inv holds before the first call. *)
LEMMA InitInv == Init => Inv
<1> SUFFICES ASSUME Init PROVE Inv
  OBVIOUS
<1>1. TypeOK
  BY ConstantAssumption, SMT DEF Init, TypeOK, AllPaths, HandleStates, Labels, Results
<1>2. ThreadsInv /\ HandlesInv /\ MutexInv /\ RefsInv
  BY ConstantAssumption, SMT DEF Init, ThreadsInv, HandlesInv, MutexInv, RefsInv, Referenced,
     HeldLabels, StartLabels, StopLabels
<1>3. \A p \in Procs : Phase(p) = "down"
  BY SMT DEF Init, Phase
<1>4. FieldsInv /\ LocksInv /\ RunInv /\ TmpInv
  BY <1>3, ConstantAssumption DEF Init, FieldsInv, FieldsOf, LocksInv,
     LocksOf, RunInv, RunOf, TmpInv, TmpOf, Running, Named, HasFd, Locked, HasRun,
     HasTmp
<1>5. RefCountExact
  <2>1. \A p \in Procs : Refs(p) = {} /\ ref_count[p] = 0
    BY DEF Init, Refs, Referenced
  <2> QED BY <2>1, FS_EmptySet DEF RefCountExact
<1> QED BY <1>1, <1>2, <1>4, <1>5 DEF Inv

(* A step that changes nothing keeps Inv. *)
LEMMA StutterInv == Inv /\ UNCHANGED vars => Inv'
<1> SUFFICES ASSUME Inv, UNCHANGED vars PROVE Inv'
  OBVIOUS
<1> USE DEF vars, global, files, objects, local
<1>1. TypeOK'
  BY SMTT(20) DEF Inv, TypeOK
<1>2. ThreadsInv' /\ HandlesInv' /\ MutexInv' /\ RefsInv'
  BY SMT DEF Inv, ThreadsInv, HandlesInv, MutexInv, RefsInv
<1>3. \A p \in Procs : Phase(p)' = Phase(p) /\ Target(p)' = Target(p)
  BY DEF Phase, Target
<1>4. FieldsInv'
  BY <1>3, ZenonT(30) DEF Inv, FieldsInv, FieldsOf
<1>5. LocksInv' /\ TmpInv'
  BY <1>3, SMT DEF Inv, LocksInv, LocksOf, TmpInv, TmpOf
<1>6. RunInv'
  BY <1>3, SMT DEF Inv, RunInv, RunOf, Place
<1>7. RefCountExact'
  <2>1. \A p \in Procs : Refs(p)' = Refs(p)
    BY DEF Refs
  <2> QED BY <2>1 DEF Inv, RefCountExact
<1> QED BY <1>1, <1>2, <1>4, <1>5, <1>6, <1>7 DEF Inv

(***************************************************************************)
(* Inv is an inductive invariant of every behaviour of mylite_open and      *)
(* mylite_close, crashes included.                                          *)
(***************************************************************************)
THEOREM RuntimeInvariant == Spec => []Inv
<1>1. Inv /\ Next => Inv'
  BY TypeStep, ThreadsStep, HandlesStep, MutexStep, FieldsStep, LocksStep,
     RunStep, TmpStep, RefsStep, RefCountStep, ZenonT(20) DEF Inv
<1> QED BY InitInv, <1>1, StutterInv, PTL DEF Spec

(***************************************************************************)
(* Every variable keeps its type; in particular no count goes negative.     *)
(***************************************************************************)
THEOREM TypeCorrect == Spec => []TypeOK
<1>1. Inv => TypeOK
  BY DEF Inv
<1> QED BY RuntimeInvariant, <1>1, PTL

(***************************************************************************)
(* g_runtime.ref_count always equals the number of mylite_db objects that   *)
(* hold the runtime, whatever opens, closes, failures and crashes overlap.  *)
(***************************************************************************)
THEOREM CountIsExact == Spec => []RefCountExact
<1>1. Inv => RefCountExact
  BY DEF Inv
<1> QED BY RuntimeInvariant, <1>1, PTL

(***************************************************************************)
(* A running embedded server owns its directory: its process holds the      *)
(* lock of mylite.lock, and its run/ and tmp/ files are in place.           *)
(***************************************************************************)
THEOREM ServerIsOwner == Spec => []ServerOwnsDirectory
<1>1. ASSUME Inv, NEW p \in Procs, server[p]
      PROVE  /\ p \in run[Place(p, database_path[p])]
             /\ database_path[p] # Memory =>
                  flock[DirOf[database_path[p]]] = p /\ p \in tmp[DirOf[database_path[p]]]
  <2>1. FieldsOf(p) /\ LocksOf(p) /\ RunOf(p) /\ TmpOf(p)
    BY <1>1 DEF Inv, FieldsInv, LocksInv, RunInv, TmpInv
  <2>2. Phase(p) \in {"initing", "up", "end"} /\ database_path[p] # None
    BY <1>1, <2>1 DEF FieldsOf, Running, Named
  <2>3. database_path[p] \in AllPaths
    BY <1>1, <2>2 DEF Inv, TypeOK
  <2>4. Target(p) = database_path[p]
    <3>1. CASE Phase(p) = "initing"
      BY <2>1, <3>1 DEF FieldsOf
    <3>2. CASE Phase(p) # "initing"
      BY <2>2, <3>2 DEF Phase, Target, StartLabels
    <3> QED BY <3>1, <3>2
  <2>5. Place(p, database_path[p]) \in Dirs \cup Procs
    BY <2>3 DEF Place, AllPaths, Dirs
  <2>6. p \in run[Place(p, database_path[p])]
    BY <2>1, <2>2, <2>4, <2>5 DEF RunOf, HasRun
  <2>7. database_path[p] # Memory => DirOf[database_path[p]] \in Dirs
    BY <2>3 DEF AllPaths, Dirs
  <2> QED BY <2>1, <2>2, <2>4, <2>6, <2>7 DEF LocksOf, TmpOf, Locked, HasTmp
<1>2. Inv => ServerOwnsDirectory
  BY <1>1 DEF ServerOwnsDirectory
<1> QED BY RuntimeInvariant, <1>2, PTL

(***************************************************************************)
(* No reference, open handle or live statement outlives the server it uses, *)
(* and the server runs on the path the handle was opened with.              *)
(***************************************************************************)
THEOREM RuntimeOutlivesHandles == Spec => []HandlesHaveRuntime
<1>1. ASSUME Inv, NEW h \in Handles, hstate[h] \in Referenced \/ active[h] > 0
      PROVE  /\ hproc[h] \in Procs /\ server[hproc[h]]
             /\ database_path[hproc[h]] = hpath[h]
  <2> DEFINE p == hproc[h]
  <2>1. hstate[h] \in Referenced
    BY <1>1 DEF Inv, HandlesInv, Referenced
  <2>2. p \in Procs /\ database_path[p] = hpath[h]
    BY <1>1, <2>1 DEF Inv, TypeOK, HandlesInv, RefsInv, Referenced
  <2>3. h \in Refs(p)
    BY <2>1 DEF Refs
  <2>4. ref_count[p] # 0 /\ ref_count[p] \in Nat
    BY <1>1, <2>2, <2>3, NoRefs, SMT DEF Inv, TypeOK
  <2>5. mutex[p] = None
    BY <1>1, <2>2, <2>4, ZenonT(30) DEF Inv, MutexInv
  <2>6. Phase(p) = "up"
    BY <2>4, <2>5, SMT DEF Phase
  <2>7. server[p]
    BY <1>1, <2>2, <2>6 DEF Inv, FieldsInv, FieldsOf, Running
  <2> QED BY <2>2, <2>7
<1>2. Inv => HandlesHaveRuntime
  BY <1>1 DEF HandlesHaveRuntime
<1> QED BY RuntimeInvariant, <1>2, PTL

(***************************************************************************)
(* A process at rest, with no reference and no call under way, owns no      *)
(* mutex, server, descriptor, file lock or live file, however the calls     *)
(* before ended.                                                            *)
(***************************************************************************)
THEOREM RestIsClean == Spec => []RestOwnsNothing
<1>1. ASSUME Inv, NEW p \in Procs, Refs(p) = {},
             \A t \in Threads : ProcOf[t] = p => pc[t] = "idle"
      PROVE  /\ mutex[p] = None /\ ~server[p]
             /\ database_path[p] = None /\ lock_fd[p] = None
             /\ \A d \in Dirs : flock[d] # p /\ p \notin tmp[d]
             /\ \A x \in Dirs \cup Procs : p \notin run[x]
  <2>1. ref_count[p] = 0
    BY <1>1, NoRefs
  <2>2. mutex[p] = None
    <3>1. mutex[p] \in Threads \cup {None} /\ MutexInv
      BY <1>1 DEF Inv, TypeOK
    <3>2. "idle" \notin HeldLabels
      BY DEF HeldLabels, StartLabels, StopLabels
    <3> QED BY <1>1, <3>1, <3>2 DEF MutexInv
  <2>3. Phase(p) = "down"
    BY <2>1, <2>2, SMT DEF Phase
  <2>4. FieldsOf(p) /\ LocksOf(p) /\ RunOf(p) /\ TmpOf(p)
    BY <1>1 DEF Inv, FieldsInv, LocksInv, RunInv, TmpInv
  <2> QED BY <2>2, <2>3, <2>4 DEF FieldsOf, LocksOf, RunOf, TmpOf, Running,
             Named, HasFd, Locked, HasRun, HasTmp
<1>2. Inv => RestOwnsNothing
  BY <1>1 DEF RestOwnsNothing
<1> QED BY RuntimeInvariant, <1>2, PTL

(* The files of a live process are in a directory only under its lock. *)
LEMMA FilesNeedLock ==
  ASSUME Inv, NEW p \in Procs, NEW d \in Dirs, p \in run[d] \/ p \in tmp[d]
  PROVE  flock[d] = p
<1>1. LocksOf(p) /\ RunOf(p) /\ TmpOf(p)
  BY DEF Inv, LocksInv, RunInv, TmpInv
<1>2. d \notin Procs
  BY ConstantAssumption
<1> QED BY <1>1, <1>2, SMT DEF LocksOf, RunOf, TmpOf, Place, HasRun, HasTmp, Locked

(***************************************************************************)
(* run/ and tmp/ of a directory never change while nobody holds its lock.   *)
(***************************************************************************)
THEOREM CleanupUnderLock == Spec => FilesChangeUnderLock
<1> DEFINE Change(d) == run'[d] # run[d] \/ tmp'[d] # tmp[d]
           Guarded == \A d \in Dirs : Change(d) => flock[d] # None
<1>1. ASSUME Inv, NEW t \in Threads, Call(t) \/ Step(t), NEW d \in Dirs, Change(d)
      PROVE  flock[d] # None
  <2> DEFINE p == ProcOf[t]
             path == hpath[work[t]]
  <2>0. TypeOK /\ p \in Procs /\ LocksOf(p) /\ None \notin Procs /\ d \notin Procs
    BY <1>1, ConstantAssumption DEF Inv, LocksInv
  <2>1. ASSUME Phase(p) \in Locked, Target(p) # Memory, d = DirOf[Target(p)]
        PROVE  flock[d] # None
    BY <2>0, <2>1 DEF LocksOf
  <2>2. CASE RemoveStaleRun(t) \/ CreateRuntimeLayout(t) \/ StartRuntimeThrows(t)
             \/ UndoLayout(t) \/ BeginServerInit(t)
    <3>1. pc[t] \in {"rmstale", "mkrun", "undo", "init"}
      BY <2>2, ZenonT(30) DEF RemoveStaleRun, CreateRuntimeLayout,
         StartRuntimeThrows, UndoLayout, BeginServerInit, At
    <3>2. Phase(p) = pc[t] /\ Target(p) = path
      BY <1>1, <3>1, HeldPhase DEF HeldLabels, StartLabels
    <3>3. path # Memory /\ d = DirOf[path]
      <4>1. CASE RemoveStaleRun(t) \/ UndoLayout(t)
        BY <1>1, <2>0, <4>1, ZenonT(30) DEF RemoveStaleRun, UndoLayout,
           RemoveCleanupDirectory, Place, TypeOK
      <4>2. CASE CreateRuntimeLayout(t)
        BY <1>1, <2>0, <4>2, ZenonT(30) DEF CreateRuntimeLayout, Place, TypeOK
      <4>3. CASE StartRuntimeThrows(t)
        BY <1>1, <2>0, <4>3, ZenonT(30) DEF StartRuntimeThrows, Place, TypeOK
      <4>4. CASE BeginServerInit(t)
        BY <1>1, <2>0, <4>4 DEF BeginServerInit, TypeOK
      <4> QED BY <2>2, <4>1, <4>2, <4>3, <4>4, ZenonT(30)
    <3>4. Phase(p) \in Locked
      BY <3>1, <3>2 DEF Locked
    <3> QED BY <2>1, <3>2, <3>3, <3>4
  <2>3. CASE RemoveRun(t) \/ ClearTmp(t)
    <3>1. pc[t] \in {"rmrun", "cleartmp"}
      BY <2>3 DEF RemoveRun, ClearTmp, At
    <3>2. Phase(p) = pc[t] /\ Target(p) = database_path[p]
      BY <1>1, <3>1, HeldPhase DEF HeldLabels, StartLabels, StopLabels
    <3>3. database_path[p] # Memory /\ d = DirOf[database_path[p]]
      <4>1. CASE RemoveRun(t)
        BY <1>1, <2>0, <4>1, ZenonT(30) DEF RemoveRun, RemoveCleanupDirectory,
           Place, TypeOK
      <4>2. CASE ClearTmp(t)
        BY <1>1, <2>0, <4>2 DEF ClearTmp, TypeOK
      <4> QED BY <2>3, <4>1, <4>2
    <3>4. Phase(p) \in Locked
      BY <3>1, <3>2 DEF Locked
    <3> QED BY <2>1, <3>2, <3>3, <3>4, SMT
  <2>4. CASE ServerInitFails(t)
    <3>1. p \in tmp[d]
      BY <1>1, <2>0, <2>4 DEF ServerInitFails, Orphan
    <3> QED BY <1>1, <2>0, <3>1, FilesNeedLock, SMT
  <2>5. CASE ~WritesRun(t) /\ ~WritesTmp(t)
    BY <1>1, <2>5, Frames
  <2> QED BY <2>2, <2>3, <2>4, <2>5, ZenonT(30) DEF WritesRun, WritesTmp
<1>2. ASSUME Inv, NEW p \in Procs, Crash(p), NEW d \in Dirs, Change(d)
      PROVE  flock[d] # None
  <2>1. p \in run[d] \/ p \in tmp[d]
    BY <1>2 DEF Crash, Orphan
  <2> QED BY <1>2, <2>1, FilesNeedLock, ConstantAssumption, SMT
<1>3. Inv /\ [Next]_vars => [Guarded]_vars
  BY <1>1, <1>2 DEF Next
<1> QED BY RuntimeInvariant, <1>3, PTL DEF Spec, FilesChangeUnderLock
-----------------------------------------------------------------------------
(* The state of DirectoryOwnership that a state of the runtime stands for. *)
Using == [p \in Procs |-> IF server[p] THEN Place(p, database_path[p]) ELSE None]

HandsOut == [p \in Procs |-> {h \in Handles : hproc[h] = p /\ hstate[h] = "open"}]

(* Only three steps start or stop a server. *)
LEMMA ServerEffect ==
  ASSUME NEW t \in Threads, Call(t) \/ Step(t)
  PROVE  BeginServerInit(t) \/ ServerInitFails(t) \/ ServerEnd(t) \/ UNCHANGED server
<1> USE DEF global
<1>1. Call(t) => UNCHANGED server
  BY DEF Call, StartOpen, Prepare, Finalize, CloseRefused, Close
<1>2. ValidateRuntimeDatabasePath(t) \/ PrepareDatabaseDirectory(t) \/ StartRuntimeBusy(t)
      \/ StartRuntimeShare(t) \/ StartRuntimeFirst(t) => UNCHANGED server
  BY DEF ValidateRuntimeDatabasePath, PrepareDatabaseDirectory, StartRuntimeBusy,
     StartRuntimeShare, StartRuntimeFirst
<1>3. AcquireDatabaseLock(t) \/ PollDatabaseLock(t) \/ DatabaseLockBusy(t)
      \/ DatabaseLockError(t) \/ RemoveStaleRun(t) \/ CreateRuntimeLayout(t)
      \/ StartRuntimeThrows(t) => UNCHANGED server
  BY DEF AcquireDatabaseLock, PollDatabaseLock, DatabaseLockBusy,
     DatabaseLockError, RemoveStaleRun, CreateRuntimeLayout, StartRuntimeThrows
<1>4. ServerInitSucceeds(t) \/ UndoLayout(t) \/ UndoLock(t) \/ ConnectRuntime(t)
      \/ EnsureCoreSystemTables(t) \/ OpenFailsAfterStart(t) \/ OpenThrowsAfterStart(t)
      => UNCHANGED server
  BY DEF ServerInitSucceeds, UndoLayout, UndoLock, ConnectRuntime,
     EnsureCoreSystemTables, OpenFailsAfterStart, OpenThrowsAfterStart
<1>5. ReleaseRuntimeShared(t) \/ ReleaseRuntimeLast(t) \/ RemoveRun(t) \/ ClearTmp(t)
      \/ ReleaseDatabaseLock(t) \/ ClearRuntime(t) => UNCHANGED server
  BY DEF ReleaseRuntimeShared, ReleaseRuntimeLast, RemoveRun, ClearTmp,
     ReleaseDatabaseLock, ClearRuntime
<1> QED BY <1>1, <1>2, <1>3, <1>4, <1>5 DEF Step

(* The others leave the place a process uses. *)
LEMMA UsingStays ==
  ASSUME Inv, NEW t \in Threads, Call(t) \/ Step(t),
         ~BeginServerInit(t), ~ServerInitFails(t), ~ServerEnd(t)
  PROVE  UNCHANGED Using
<1>1. UNCHANGED server
  BY ServerEffect
<1>2. CASE Renames(t)
  <2>1. pc[t] \in HeldLabels \ Running
    BY <1>2, SMT DEF Renames, StartRuntimeThrows, ClearRuntime, At, HeldLabels, StartLabels,
       StopLabels, Running
  <2>2. ~server[ProcOf[t]]
    <3>1. ProcOf[t] \in Procs /\ pc[t] \in HeldLabels /\ pc[t] \notin Running
      BY <2>1, ConstantAssumption
    <3>2. Phase(ProcOf[t]) \notin Running
      BY <3>1, HeldPhase
    <3> QED BY <3>1, <3>2 DEF Inv, FieldsInv, FieldsOf
  <2>3. \A p \in Procs : server[p] => database_path'[p] = database_path[p]
    BY <2>2, StepIsLocal
  <2> QED BY <1>1, <2>3 DEF Using, Place
<1>3. CASE ~Renames(t)
  BY <1>1, <1>3, ObjectEffect DEF Using, Place
<1> QED BY <1>2, <1>3, SMT

(* The call of t changes its object, to a stage at which nobody has it. *)
Touches(t) ==
  /\ pc[t] # "idle"
  /\ \E s \in HandleStates \ {"open"} : hstate' = [hstate EXCEPT ![work[t]] = s]
  /\ UNCHANGED hproc \/ hproc' = [hproc EXCEPT ![work[t]] = None]

(* Which steps change who has an object. *)
LEMMA OpenEffect ==
  ASSUME NEW t \in Threads, Call(t) \/ Step(t)
  PROVE  \/ UNCHANGED <<hstate, hproc>> \/ Touches(t)
         \/ StartOpen(t) \/ Close(t) \/ EnsureCoreSystemTables(t)
<1> USE DEF Touches, objects, At, Fail, FailStart, Free, SetHandle, HandleStates
<1>1. Prepare(t) \/ Finalize(t) \/ CloseRefused(t) => UNCHANGED <<hstate, hproc>>
  BY DEF Prepare, Finalize, CloseRefused
<1>2. ValidateRuntimeDatabasePath(t) \/ PrepareDatabaseDirectory(t) =>
        UNCHANGED <<hstate, hproc>> \/ Touches(t)
  BY DEF ValidateRuntimeDatabasePath, PrepareDatabaseDirectory
<1>3. StartRuntimeBusy(t) \/ StartRuntimeShare(t) \/ DatabaseLockBusy(t)
      \/ DatabaseLockError(t) \/ StartRuntimeThrows(t) => Touches(t)
  BY DEF StartRuntimeBusy, StartRuntimeShare, DatabaseLockBusy, DatabaseLockError,
     StartRuntimeThrows
<1>4. StartRuntimeFirst(t) \/ AcquireDatabaseLock(t) \/ PollDatabaseLock(t)
      \/ RemoveStaleRun(t) \/ CreateRuntimeLayout(t) \/ BeginServerInit(t)
      \/ ServerInitFails(t) \/ UndoLayout(t) => UNCHANGED <<hstate, hproc>>
  BY DEF StartRuntimeFirst, AcquireDatabaseLock, PollDatabaseLock,
     RemoveStaleRun, CreateRuntimeLayout, BeginServerInit, ServerInitFails, UndoLayout
<1>5. ServerInitSucceeds(t) \/ UndoLock(t) \/ ConnectRuntime(t) \/ OpenFailsAfterStart(t)
      \/ OpenThrowsAfterStart(t) => Touches(t)
  BY DEF ServerInitSucceeds, UndoLock, ConnectRuntime, OpenFailsAfterStart,
     OpenThrowsAfterStart
<1>6. ReleaseRuntimeShared(t) \/ ReleaseRuntimeLast(t) \/ ClearRuntime(t) => Touches(t)
  BY DEF ReleaseRuntimeShared, ReleaseRuntimeLast, ClearRuntime
<1>7. ServerEnd(t) \/ RemoveRun(t) \/ ClearTmp(t) \/ ReleaseDatabaseLock(t) =>
        UNCHANGED <<hstate, hproc>>
  BY DEF ServerEnd, RemoveRun, ClearTmp, ReleaseDatabaseLock
<1> QED BY <1>1, <1>2, <1>3, <1>4, <1>5, <1>6, <1>7 DEF Call, Step

(* Every other step leaves the handles its callers have. *)
LEMMA HandsOutStays ==
  ASSUME Inv, NEW t \in Threads, Call(t) \/ Step(t),
         ~Close(t), ~EnsureCoreSystemTables(t)
  PROVE  UNCHANGED HandsOut
<1>1. SUFFICES ASSUME NEW h \in Handles, hstate[h] = "open" \/ hstate'[h] = "open"
               PROVE  hstate'[h] = hstate[h] /\ hproc'[h] = hproc[h]
  BY <1>1 DEF HandsOut
<1>2. hstate \in [Handles -> HandleStates] /\ hproc \in [Handles -> Procs \cup {None}]
  BY DEF Inv, TypeOK
<1>3. CASE Touches(t)
  <2>1. hstate[work[t]] # "open"
    BY <1>3 DEF Inv, ThreadsInv, StageAt, Touches
  <2>2. work[t] \in Handles /\ hstate'[work[t]] # "open"
    BY <1>2, <1>3 DEF Inv, ThreadsInv, Touches
  <2>3. h # work[t]
    BY <1>1, <2>1, <2>2
  <2> QED BY <1>2, <1>3, <2>3 DEF Touches
<1>4. CASE StartOpen(t)
  BY <1>1, <1>2, <1>4 DEF StartOpen
<1> QED BY <1>3, <1>4, OpenEffect

(* The place of a running server: its own, and a durable one is locked.     *)
LEMMA PlaceIsOwned ==
  ASSUME Inv, NEW p \in Procs, server[p]
  PROVE  /\ Using[p] \in Dirs \cup Procs /\ Using[p] # None
         /\ Using[p] = p \/ (Using[p] \in Dirs /\ flock[Using[p]] = p)
<1>1. FieldsOf(p) /\ LocksOf(p)
  BY DEF Inv, FieldsInv, LocksInv
<1>2. Phase(p) \in {"initing", "up", "end"} /\ database_path[p] # None
  BY <1>1, SMT DEF FieldsOf, Running, Named
<1>3. database_path[p] \in AllPaths
  BY <1>2 DEF Inv, TypeOK
<1>4. Target(p) = database_path[p]
  <2>1. CASE Phase(p) = "initing"
    BY <1>1, <2>1 DEF FieldsOf
  <2>2. CASE Phase(p) # "initing"
    BY <1>2, <2>2 DEF Phase, Target, StartLabels
  <2> QED BY <2>1, <2>2
<1>5. Using[p] = Place(p, database_path[p])
  BY DEF Using
<1>6. CASE database_path[p] = Memory
  BY <1>5, <1>6, ConstantAssumption DEF Place
<1>7. CASE database_path[p] # Memory
  <2>1. Using[p] = DirOf[database_path[p]] /\ Using[p] \in Dirs
    BY <1>3, <1>5, <1>7 DEF Place, AllPaths, Dirs
  <2>2. Phase(p) \in Locked
    BY <1>2 DEF Locked
  <2>3. flock[Using[p]] = p
    BY <1>1, <1>4, <1>7, <2>1, <2>2 DEF LocksOf
  <2> QED BY <2>1, <2>3, ConstantAssumption
<1> QED BY <1>6, <1>7, SMT

(* A server comes up on a place nobody uses. *)
LEMMA StartRefines ==
  ASSUME Inv, NEW t \in Threads, BeginServerInit(t)
  PROVE  Ownership!Start(ProcOf[t])
<1> DEFINE p == ProcOf[t]
           x == Place(p, hpath[work[t]])
<1>1. /\ p \in Procs /\ pc[t] = "init" /\ pc[t] \in HeldLabels
      /\ pc[t] \in StartLabels /\ pc[t] \in Locked /\ pc[t] \notin Running
  BY ConstantAssumption, SMT DEF BeginServerInit, At, HeldLabels, StartLabels, Locked, Running
<1>2. Phase(p) \notin Running /\ Phase(p) \in Locked /\ Target(p) = hpath[work[t]]
  BY <1>1, HeldPhase
<1>3. ~server[p]
  BY <1>1, <1>2 DEF Inv, FieldsInv, FieldsOf
<1>4. hpath[work[t]] \in AllPaths
  BY <1>1, WorkFacts, SMT
<1>5. \/ x = p
      \/ x \in Dirs /\ flock[x] = p
  <2>1. CASE hpath[work[t]] = Memory
    BY <2>1 DEF Place
  <2>2. CASE hpath[work[t]] # Memory
    <3>1. x = DirOf[hpath[work[t]]] /\ x \in Dirs
      BY <1>4, <2>2 DEF Place, AllPaths, Dirs
    <3>2. LocksOf(p)
      BY <1>1 DEF Inv, LocksInv
    <3> QED BY <1>2, <2>2, <3>1, <3>2 DEF LocksOf
  <2> QED BY <2>1, <2>2, SMT
<1>6. x \in Dirs \cup Procs
  BY <1>1, <1>5
<1>7. ASSUME NEW q \in Procs PROVE Using[q] # x
  <2>1. CASE server[q]
    <3>1. q # p
      BY <1>3, <2>1
    <3>2. Using[q] = q \/ (Using[q] \in Dirs /\ flock[Using[q]] = q)
      BY <2>1, PlaceIsOwned
    <3>3. Dirs \cap Procs = {}
      BY ConstantAssumption
    <3> QED BY <1>1, <1>5, <3>1, <3>2, <3>3
  <2>2. CASE ~server[q]
    BY <1>6, <2>2, ConstantAssumption DEF Using
  <2> QED BY <2>1, <2>2, SMT
<1>8. Using' = [Using EXCEPT ![p] = x]
  <2>1. /\ server' = [server EXCEPT ![p] = TRUE]
        /\ database_path' = [database_path EXCEPT ![p] = hpath[work[t]]]
    BY DEF BeginServerInit
  <2>2. server \in [Procs -> BOOLEAN] /\ database_path \in [Procs -> AllPaths \cup {None}]
    BY DEF Inv, TypeOK
  <2> QED BY <1>1, <2>1, <2>2 DEF Using, Place
<1>9. UNCHANGED HandsOut
  BY HandsOutStays DEF Step, BeginServerInit, Close, EnsureCoreSystemTables, At, Usable
<1>10. Using[p] = None
  BY <1>1, <1>3 DEF Using
<1> QED BY <1>6, <1>7, <1>8, <1>9, <1>10 DEF Ownership!Start, Using, HandsOut

(* It goes down when no handle is out. *)
LEMMA StopRefines ==
  ASSUME Inv, NEW t \in Threads, ServerInitFails(t) \/ ServerEnd(t)
  PROVE  Ownership!Stop(ProcOf[t])
<1> DEFINE p == ProcOf[t]
<1>1. p \in Procs /\ pc[t] \in HeldLabels /\ pc[t] \in Running
  BY ConstantAssumption, SMT DEF ServerInitFails, ServerEnd, At, HeldLabels, StartLabels, StopLabels, Running
<1>2. Phase(p) \in Running /\ ref_count[p] = 0
  BY <1>1, HeldPhase
<1>3. server[p]
  BY <1>1, <1>2 DEF Inv, FieldsInv, FieldsOf
<1>4. Using[p] # None
  BY <1>1, <1>3, PlaceIsOwned, SMT
<1>5. Refs(p) = {}
  BY <1>1, <1>2, NoRefs
<1>6. HandsOut[p] = {}
  BY <1>1, <1>5 DEF HandsOut, Refs, Referenced
<1>7. Using' = [Using EXCEPT ![p] = None]
  <2>1. /\ server' = [server EXCEPT ![p] = FALSE]
        /\ \A q \in Procs \ {p} : database_path'[q] = database_path[q]
    BY StepIsLocal DEF ServerInitFails, ServerEnd, Step
  <2>2. server \in [Procs -> BOOLEAN]
    BY DEF Inv, TypeOK
  <2> QED BY <1>1, <2>1, <2>2, ZenonT(30) DEF Using, Place
<1>8. UNCHANGED HandsOut
  BY HandsOutStays DEF Step, ServerInitFails, ServerEnd, Close, EnsureCoreSystemTables, At, Usable
<1> QED BY <1>4, <1>6, <1>7, <1>8 DEF Ownership!Stop, Using, HandsOut

(* The process of an object that holds the runtime has a running server. *)
LEMMA ReferencedRuns ==
  ASSUME Inv, NEW h \in Handles, hstate[h] \in Referenced
  PROVE  hproc[h] \in Procs /\ server[hproc[h]]
<1> DEFINE p == hproc[h]
<1>1. p \in Procs
  BY DEF Inv, TypeOK, HandlesInv, Referenced
<1>2. h \in Refs(p)
  BY DEF Refs
<1>3. ref_count[p] # 0 /\ ref_count[p] \in Nat
  BY <1>1, <1>2, NoRefs DEF Inv, TypeOK
<1>4. mutex[p] = None
  BY <1>1, <1>3 DEF Inv, MutexInv
<1>5. Phase(p) \in Running
  BY <1>3, <1>4, SMT DEF Phase, Running
<1> QED BY <1>1, <1>5 DEF Inv, FieldsInv, FieldsOf

(* mylite_open hands out an object nobody has, over a running server. *)
LEMMA OpenRefines ==
  ASSUME Inv, NEW t \in Threads, EnsureCoreSystemTables(t)
  PROVE  Ownership!Open(ProcOf[t])
<1> DEFINE p == ProcOf[t]
           h == work[t]
<1>1. pc[t] = "tables" /\ p \in Procs
  BY ConstantAssumption DEF EnsureCoreSystemTables, At
<1>2. h \in Handles /\ hproc[h] = p /\ hstate[h] = "conn"
  BY <1>1, SMT DEF Inv, ThreadsInv, StageAt
<1>3. server[p]
  BY <1>2, ReferencedRuns DEF Referenced
<1>4. Using[p] # None
  BY <1>1, <1>3, PlaceIsOwned, SMT
<1>5. \A q \in Procs : h \notin HandsOut[q]
  BY <1>2 DEF HandsOut
<1>6. HandsOut' = [HandsOut EXCEPT ![p] = @ \cup {h}]
  <2>1. hstate' = [hstate EXCEPT ![h] = "open"] /\ UNCHANGED hproc
    BY DEF EnsureCoreSystemTables, SetHandle
  <2>2. hstate \in [Handles -> HandleStates]
    BY DEF Inv, TypeOK
  <2>3. ASSUME NEW q \in Procs
        PROVE  HandsOut'[q] = IF q = p THEN HandsOut[q] \cup {h} ELSE HandsOut[q]
    BY <1>2, <2>1, <2>2, SMT DEF HandsOut
  <2>4. HandsOut \in [Procs -> SUBSET Handles] /\ HandsOut' \in [Procs -> SUBSET Handles]
    BY DEF HandsOut
  <2> QED BY <1>1, <2>3, <2>4, SMT
<1>7. UNCHANGED Using
  BY UsingStays DEF Step, EnsureCoreSystemTables, BeginServerInit, ServerInitFails,
     ServerEnd, At
<1> QED BY <1>2, <1>4, <1>5, <1>6, <1>7 DEF Ownership!Open, Using, HandsOut

(* mylite_close takes back one handle. *)
LEMMA CloseRefines ==
  ASSUME Inv, NEW t \in Threads, Close(t)
  PROVE  Ownership!Close(ProcOf[t])
<1> DEFINE p == ProcOf[t]
<1>1. p \in Procs
  BY ConstantAssumption
<1>2. PICK h \in Handles : Usable(t, h) /\ SetHandle(h, "closing")
  BY DEF Close
<1>3. h \in HandsOut[p]
  BY <1>1, <1>2 DEF Usable, HandsOut
<1>4. HandsOut' = [HandsOut EXCEPT ![p] = @ \ {h}]
  <2>1. hstate' = [hstate EXCEPT ![h] = "closing"] /\ UNCHANGED hproc
    BY <1>2 DEF SetHandle
  <2>2. hstate \in [Handles -> HandleStates] /\ hproc[h] = p
    BY <1>2 DEF Inv, TypeOK, Usable
  <2>3. ASSUME NEW q \in Procs
        PROVE  HandsOut'[q] = IF q = p THEN HandsOut[q] \ {h} ELSE HandsOut[q]
    BY <2>1, <2>2, SMT DEF HandsOut
  <2>4. HandsOut \in [Procs -> SUBSET Handles] /\ HandsOut' \in [Procs -> SUBSET Handles]
    BY DEF HandsOut
  <2> QED BY <1>1, <2>3, <2>4, SMT
<1>5. UNCHANGED Using
  BY UsingStays DEF Call, Close, Usable, BeginServerInit, ServerInitFails, ServerEnd, At
<1> QED BY <1>3, <1>4, <1>5 DEF Ownership!Close, Using, HandsOut

(* A crash of the code is a crash of the abstract specification. *)
LEMMA CrashRefines ==
  ASSUME Inv, NEW p \in Procs, Crash(p)
  PROVE  Ownership!Crash(p)
<1>1. /\ server' = [server EXCEPT ![p] = FALSE]
      /\ database_path' = [database_path EXCEPT ![p] = None]
      /\ hstate' = [h \in Handles |-> IF hproc[h] = p THEN "free" ELSE hstate[h]]
      /\ hproc' = [h \in Handles |-> IF hproc[h] = p THEN None ELSE hproc[h]]
  BY DEF Crash
<1>2. server \in [Procs -> BOOLEAN] /\ database_path \in [Procs -> AllPaths \cup {None}]
  BY DEF Inv, TypeOK
<1>3. Using' = [Using EXCEPT ![p] = None]
  BY <1>1, <1>2 DEF Using, Place
<1>4. ASSUME NEW q \in Procs
      PROVE  HandsOut'[q] = IF q = p THEN {} ELSE HandsOut[q]
  BY <1>1, <1>4, ConstantAssumption, SMT DEF HandsOut
<1>5. HandsOut' = [HandsOut EXCEPT ![p] = {}]
  BY <1>4 DEF HandsOut
<1> QED BY <1>3, <1>5 DEF Ownership!Crash, Using, HandsOut

(***************************************************************************)
(* mylite_open and mylite_close implement the abstract contract of          *)
(* exclusive ownership of database directories: every step of the code is   *)
(* a step of DirectoryOwnership or leaves its state alone.                  *)
(***************************************************************************)
THEOREM RuntimeRefinesOwnership == Spec => RuntimeImplementsOwnership
<1>1. Init => Ownership!Init
  BY DEF Init, Ownership!Init
<1>2. ASSUME Inv, [Next]_vars
      PROVE  [Ownership!Next]_(Ownership!vars)
  <2>1. ASSUME NEW t \in Threads, Call(t) \/ Step(t)
        PROVE  [Ownership!Next]_(Ownership!vars)
    <3>1. ProcOf[t] \in Procs
      BY ConstantAssumption
    <3>2. CASE BeginServerInit(t)
      BY <1>2, <3>1, <3>2, StartRefines DEF Ownership!Next
    <3>3. CASE ServerInitFails(t) \/ ServerEnd(t)
      BY <1>2, <3>1, <3>3, StopRefines DEF Ownership!Next
    <3>4. CASE EnsureCoreSystemTables(t)
      BY <1>2, <3>1, <3>4, OpenRefines DEF Ownership!Next
    <3>5. CASE Close(t)
      BY <1>2, <3>1, <3>5, CloseRefines DEF Ownership!Next
    <3>6. CASE ~BeginServerInit(t) /\ ~ServerInitFails(t) /\ ~ServerEnd(t)
               /\ ~EnsureCoreSystemTables(t) /\ ~Close(t)
      <4>1. UNCHANGED <<Using, HandsOut>>
        BY <1>2, <2>1, <3>6, UsingStays, HandsOutStays
      <4> QED BY <4>1 DEF Ownership!vars, Using, HandsOut
    <3> QED BY <3>2, <3>3, <3>4, <3>5, <3>6
  <2>2. ASSUME NEW p \in Procs, Crash(p)
        PROVE  [Ownership!Next]_(Ownership!vars)
    BY <1>2, <2>2, CrashRefines DEF Ownership!Next
  <2>3. CASE UNCHANGED vars
    BY <2>3 DEF vars, global, objects, Ownership!vars, Place
  <2> QED BY <1>2, <2>1, <2>2, <2>3 DEF Next
<1> QED BY <1>1, <1>2, RuntimeInvariant, PTL
      DEF Spec, RuntimeImplementsOwnership, Ownership!Spec
=============================================================================
