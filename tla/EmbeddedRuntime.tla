-------------------------- MODULE EmbeddedRuntime --------------------------
(***************************************************************************)
(* The process-wide embedded MariaDB runtime of libmylite (database.cc):    *)
(* mylite_open and mylite_close, the reference-counted RuntimeState         *)
(* g_runtime behind g_runtime.mutex, and the cross-process ownership of a   *)
(* database directory through flock(2) on its mylite.lock.                  *)
(*                                                                          *)
(* Several processes run several threads each.  A thread inside a call has  *)
(* a program counter; every step touches g_runtime, the lock file or the    *)
(* directory once, so that every interleaving the mutex and the file lock   *)
(* allow is a behaviour.  A process may crash between any two steps.        *)
(*                                                                          *)
(* Module DatabaseDirectory models what prepare_database_directory does;    *)
(* here it only succeeds or fails.  remove_all is assumed to succeed: the   *)
(* code ignores its errors.                                                 *)
(***************************************************************************)
EXTENDS Naturals, FiniteSets

CONSTANTS
  Procs,        \* processes using the library
  Threads,      \* threads, each of one process
  ProcOf,       \* [Threads -> Procs]
  Paths,        \* absolute database paths that callers pass to mylite_open
  DirOf,        \* [Paths -> directories]: two spellings may name one directory
  Memory,       \* the path ":memory:"
  Handles,      \* mylite_db objects (the bound on live ones)
  Timeouts,     \* values of busy_timeout_ms, in polls of k_lock_poll_interval_ms
  MaxStatements,\* bound on the statements of a handle
  None,         \* a null pointer, an empty path, a descriptor of -1
  Stale         \* the owner of files left behind by a process that is gone

Dirs == {DirOf[path] : path \in Paths}

(***************************************************************************)
(* What the mutex-protected RuntimeState promises needs only these facts    *)
(* about the constants.                                                     *)
(***************************************************************************)
ASSUME ConstantAssumption ==
  /\ ProcOf \in [Threads -> Procs]
  /\ DOMAIN DirOf = Paths
  /\ Memory \notin Paths /\ None \notin Paths /\ None # Memory
  /\ None \notin Procs /\ None \notin Threads /\ None \notin Handles
  /\ None \notin Dirs
  /\ Stale \notin Procs /\ Stale # None
  /\ Dirs \cap Procs = {}
  /\ IsFiniteSet(Handles)
  /\ Timeouts \subseteq Nat
  /\ MaxStatements \in Nat

VARIABLES
  mutex,          \* g_runtime.mutex: the thread that holds it, or None
  ref_count,      \* g_runtime.ref_count
  database_path,  \* g_runtime.database_path (cleanup_directory and
                  \* persistent_tmp_directory are set and cleared with it)
  lock_fd,        \* g_runtime.lock_fd: the directory it locks, or None
  server,         \* is the embedded server initialised in this process?
  flock,          \* the process that holds the advisory lock of a directory
  run,            \* whose files are in run/ of a directory (for ":memory:", in
                  \* the transient runtime directories of a process)
  tmp,            \* whose files are in tmp/ of a directory
  hstate,         \* the stage a mylite_db object has reached
  hproc,          \* the process it belongs to
  hpath,          \* mylite_db.database_path
  active,         \* mylite_db.active_statement_count
  pc,             \* where each thread is in mylite_open or mylite_close
  work,           \* the mylite_db object that call is about
  wait,           \* polls left before wait_for_database_lock gives up
  result          \* what the thread's last call returned, or will return

global  == <<mutex, ref_count, database_path, lock_fd, server>>
files   == <<flock, run, tmp>>
objects == <<hstate, hproc, hpath, active>>
local   == <<pc, work, wait, result>>
vars    == <<global, files, objects, local>>
-----------------------------------------------------------------------------
AllPaths == Paths \cup {Memory}

(***************************************************************************)
(* MYLITE_OK, MYLITE_BUSY, or any other result code: which one a failing    *)
(* prepare_database_directory returns is module DatabaseDirectory's.        *)
(***************************************************************************)
Results == {"OK", "BUSY", "FAIL"}

(***************************************************************************)
(* A mylite_db object is "new" while its open holds no runtime reference,   *)
(* "ref" once start_runtime has counted it, "conn" once connected, "open"   *)
(* when the caller has it, "closing" while a close or a failed open is      *)
(* about to call release_runtime, and "leaked" when an exception unwound    *)
(* open_impl after start_runtime: the object is gone, its count is not.     *)
(***************************************************************************)
HandleStates == {"free", "new", "ref", "conn", "open", "closing", "leaked"}
Referenced   == {"ref", "conn", "open", "closing", "leaked"}

Labels == {"idle", "validate", "prepare", "start", "flock", "rmstale", "mkrun",
           "init", "initing", "undo", "undounlock", "connect", "tables",
           "release", "end", "rmrun", "cleartmp", "unlock", "clear"}

Refs(p) == {h \in Handles : hproc[h] = p /\ hstate[h] \in Referenced}

(***************************************************************************)
(* The place layout.cleanup_directory names: <db>/run for a durable path,   *)
(* the process's own transient directory for ":memory:".                    *)
(***************************************************************************)
Place(p, path) == IF path = Memory THEN p ELSE DirOf[path]

(***************************************************************************)
(* remove_directory_if_present(cleanup_directory): everything in a durable  *)
(* run/, but for ":memory:" only the directory this process created.        *)
(***************************************************************************)
RemoveCleanupDirectory(p, path) ==
  run' = [run EXCEPT ![Place(p, path)] = IF path = Memory THEN @ \ {p} ELSE {}]

Orphan(S, p) == IF p \in S THEN (S \ {p}) \cup {Stale} ELSE S
-----------------------------------------------------------------------------
Init ==
  /\ mutex = [p \in Procs |-> None]
  /\ ref_count = [p \in Procs |-> 0]
  /\ database_path = [p \in Procs |-> None]
  /\ lock_fd = [p \in Procs |-> None]
  /\ server = [p \in Procs |-> FALSE]
  /\ flock = [d \in Dirs |-> None]
  /\ run = [x \in Dirs \cup Procs |-> {}]
  /\ tmp = [d \in Dirs |-> {}]
  /\ hstate = [h \in Handles |-> "free"]
  /\ hproc = [h \in Handles |-> None]
  /\ hpath = [h \in Handles |-> None]
  /\ active = [h \in Handles |-> 0]
  /\ pc = [t \in Threads |-> "idle"]
  /\ work = [t \in Threads |-> None]
  /\ wait = [t \in Threads |-> 0]
  /\ result = [t \in Threads |-> "OK"]

At(t, label) == pc[t] = label
Goto(t, label) == pc' = [pc EXCEPT ![t] = label]

Free(h) ==
  /\ hstate' = [hstate EXCEPT ![h] = "free"]
  /\ hproc' = [hproc EXCEPT ![h] = None]
  /\ hpath' = [hpath EXCEPT ![h] = None]
  /\ UNCHANGED active

(* The call of t ends; the object it worked on is left as it is. *)
Leave(t) ==
  /\ Goto(t, "idle")
  /\ work' = [work EXCEPT ![t] = None]
  /\ wait' = [wait EXCEPT ![t] = 0]

(* open_impl returns code: the unique_ptr deletes the object. *)
Fail(t, code) ==
  /\ Leave(t)
  /\ Free(work[t])
  /\ result' = [result EXCEPT ![t] = code]

SetHandle(h, state) ==
  /\ hstate' = [hstate EXCEPT ![h] = state]
  /\ UNCHANGED <<hproc, hpath, active>>
-----------------------------------------------------------------------------
(***************************************************************************)
(* mylite_open.  The arguments are valid; validate_open_args is pure.       *)
(***************************************************************************)
StartOpen(t) ==
  /\ At(t, "idle")
  /\ \E h \in Handles, path \in AllPaths, timeout \in Timeouts :
       /\ hstate[h] = "free"
       /\ hstate' = [hstate EXCEPT ![h] = "new"]
       /\ hproc' = [hproc EXCEPT ![h] = ProcOf[t]]
       /\ hpath' = [hpath EXCEPT ![h] = path]
       /\ work' = [work EXCEPT ![t] = h]
       /\ wait' = [wait EXCEPT ![t] = timeout]
  /\ Goto(t, "validate")
  /\ result' = [result EXCEPT ![t] = "OK"]
  /\ UNCHANGED <<global, files, active>>

OtherPathActive(t) ==
  /\ ref_count[ProcOf[t]] > 0
  /\ database_path[ProcOf[t]] # hpath[work[t]]

(* The mutex is taken and given back within the step. *)
ValidateRuntimeDatabasePath(t) ==
  /\ At(t, "validate")
  /\ mutex[ProcOf[t]] = None
  /\ \/ OtherPathActive(t) /\ Fail(t, "BUSY")
     \/ /\ ~OtherPathActive(t)
        /\ Goto(t, "prepare")
        /\ UNCHANGED <<work, wait, result, objects>>
  /\ UNCHANGED <<global, files>>

(* No mutex and no file lock is held here; see module DatabaseDirectory. *)
PrepareDatabaseDirectory(t) ==
  /\ At(t, "prepare")
  /\ \/ Goto(t, "start") /\ UNCHANGED <<work, wait, result, objects>>
     \/ /\ hpath[work[t]] # Memory
        /\ Fail(t, "FAIL")
  /\ UNCHANGED <<global, files>>

(***************************************************************************)
(* start_runtime.  The first reference keeps the mutex until the server is  *)
(* up or the start has failed.                                              *)
(***************************************************************************)
StartRuntimeBusy(t) ==
  /\ At(t, "start")
  /\ mutex[ProcOf[t]] = None
  /\ OtherPathActive(t)
  /\ Fail(t, "BUSY")
  /\ UNCHANGED <<global, files>>

StartRuntimeShare(t) ==
  /\ At(t, "start")
  /\ mutex[ProcOf[t]] = None
  /\ ref_count[ProcOf[t]] > 0 /\ ~OtherPathActive(t)
  /\ ref_count' = [ref_count EXCEPT ![ProcOf[t]] = @ + 1]
  /\ SetHandle(work[t], "ref")
  /\ Goto(t, "connect")
  /\ UNCHANGED <<mutex, database_path, lock_fd, server, files, work, wait, result>>

StartRuntimeFirst(t) ==
  /\ At(t, "start")
  /\ mutex[ProcOf[t]] = None
  /\ ref_count[ProcOf[t]] = 0
  /\ mutex' = [mutex EXCEPT ![ProcOf[t]] = t]
  /\ Goto(t, IF hpath[work[t]] = Memory THEN "mkrun" ELSE "flock")
  /\ UNCHANGED <<ref_count, database_path, lock_fd, server, files, objects,
                 work, wait, result>>

(* Leaving start_runtime with an error: the lock_guard gives the mutex back. *)
FailStart(t, code) ==
  /\ Fail(t, code)
  /\ mutex' = [mutex EXCEPT ![ProcOf[t]] = None]
  /\ UNCHANGED <<ref_count, lock_fd>>

WorkDir(t) == DirOf[hpath[work[t]]]

(* Mutant: a shared lock instead of LOCK_EX, so that nobody is kept out. *)
AcquireSharedLock(t) ==
  /\ At(t, "flock")
  /\ flock' = [flock EXCEPT ![WorkDir(t)] = ProcOf[t]]
  /\ Goto(t, "rmstale")
  /\ UNCHANGED <<global, run, tmp, objects, work, wait, result>>

(* open(2) on mylite.lock, and flock(2) with LOCK_EX | LOCK_NB. *)
AcquireDatabaseLock(t) ==
  /\ At(t, "flock")
  /\ flock[WorkDir(t)] = None
  /\ flock' = [flock EXCEPT ![WorkDir(t)] = ProcOf[t]]
  /\ Goto(t, "rmstale")
  /\ UNCHANGED <<global, run, tmp, objects, work, wait, result>>

(* The sleep between two polls, with the mutex held. *)
PollDatabaseLock(t) ==
  /\ At(t, "flock")
  /\ flock[WorkDir(t)] # None
  /\ wait[t] > 0
  /\ wait' = [wait EXCEPT ![t] = @ - 1]
  /\ UNCHANGED <<global, files, objects, pc, work, result>>

(* Mutant: the mutex is locked by hand and this return forgets it. *)
DatabaseLockBusyKeepsMutex(t) ==
  /\ At(t, "flock")
  /\ flock[WorkDir(t)] # None
  /\ wait[t] = 0
  /\ Fail(t, "BUSY")
  /\ UNCHANGED <<global, files>>

DatabaseLockBusy(t) ==
  /\ At(t, "flock")
  /\ flock[WorkDir(t)] # None
  /\ wait[t] = 0
  /\ FailStart(t, "BUSY")
  /\ UNCHANGED <<database_path, server, files>>

(* mylite.lock cannot be opened, or flock fails for another reason. *)
DatabaseLockError(t) ==
  /\ At(t, "flock")
  /\ FailStart(t, "FAIL")
  /\ UNCHANGED <<database_path, server, files>>

RemoveStaleRun(t) ==
  /\ At(t, "rmstale")
  /\ RemoveCleanupDirectory(ProcOf[t], hpath[work[t]])
  /\ Goto(t, "mkrun")
  /\ UNCHANGED <<global, flock, tmp, objects, work, wait, result>>

CreateRuntimeLayout(t) ==
  LET p == ProcOf[t] IN
  /\ At(t, "mkrun")
  /\ run' = [run EXCEPT ![Place(p, hpath[work[t]])] = @ \cup {p}]
  /\ Goto(t, "init")
  /\ UNCHANGED <<global, flock, tmp, objects, work, wait, result>>

ReleaseWorkLock(t) ==
  IF hpath[work[t]] = Memory
  THEN UNCHANGED flock
  ELSE flock' = [flock EXCEPT ![WorkDir(t)] = None]

(***************************************************************************)
(* A filesystem_error or bad_alloc inside start_runtime: the catch clause   *)
(* clears the fields and unlocks, and leaves what the layout had created.   *)
(***************************************************************************)
StartRuntimeThrows(t) ==
  LET x == Place(ProcOf[t], hpath[work[t]]) IN
  /\ At(t, "mkrun")
  /\ \E left \in SUBSET {Stale} : run' = [run EXCEPT ![x] = @ \cup left]
  /\ FailStart(t, "FAIL")
  /\ ReleaseWorkLock(t)
  /\ database_path' = [database_path EXCEPT ![ProcOf[t]] = None]
  /\ UNCHANGED <<server, tmp>>

(* The fields are set and mysql_server_init begins to use the directory. *)
BeginServerInit(t) ==
  LET p == ProcOf[t]  path == hpath[work[t]] IN
  /\ At(t, "init")
  /\ database_path' = [database_path EXCEPT ![p] = path]
  /\ server' = [server EXCEPT ![p] = TRUE]
  /\ IF path = Memory
     THEN UNCHANGED tmp
     ELSE tmp' = [tmp EXCEPT ![DirOf[path]] = @ \cup {p}]
  /\ Goto(t, "initing")
  /\ UNCHANGED <<mutex, ref_count, lock_fd, flock, run, objects, work, wait, result>>

ServerInitSucceeds(t) ==
  LET p == ProcOf[t]  path == hpath[work[t]] IN
  /\ At(t, "initing")
  /\ ref_count' = [ref_count EXCEPT ![p] = 1]
  /\ lock_fd' = [lock_fd EXCEPT ![p] = IF path = Memory THEN None ELSE DirOf[path]]
  /\ mutex' = [mutex EXCEPT ![p] = None]
  /\ SetHandle(work[t], "ref")
  /\ Goto(t, "connect")
  /\ UNCHANGED <<database_path, server, files, work, wait, result>>

(* What the server wrote to tmp/ stays there, owned by nobody. *)
ServerInitFails(t) ==
  LET p == ProcOf[t] IN
  /\ At(t, "initing")
  /\ server' = [server EXCEPT ![p] = FALSE]
  /\ database_path' = [database_path EXCEPT ![p] = None]
  /\ tmp' = [d \in Dirs |-> Orphan(tmp[d], p)]
  /\ Goto(t, "undo")
  /\ UNCHANGED <<mutex, ref_count, lock_fd, flock, run, objects, work, wait, result>>

UndoLayout(t) ==
  /\ At(t, "undo")
  /\ RemoveCleanupDirectory(ProcOf[t], hpath[work[t]])
  /\ Goto(t, "undounlock")
  /\ UNCHANGED <<global, flock, tmp, objects, work, wait, result>>

(* Mutant: a failed mysql_server_init does not release the lock. *)
UndoWithoutUnlock(t) ==
  /\ At(t, "undounlock")
  /\ FailStart(t, "FAIL")
  /\ UNCHANGED <<database_path, server, files>>

UndoLock(t) ==
  /\ At(t, "undounlock")
  /\ ReleaseWorkLock(t)
  /\ FailStart(t, "FAIL")
  /\ UNCHANGED <<database_path, server, run, tmp>>
-----------------------------------------------------------------------------
(* connect_runtime and ensure_core_system_tables, outside the mutex. *)
ConnectRuntime(t) ==
  /\ At(t, "connect")
  /\ SetHandle(work[t], "conn")
  /\ Goto(t, "tables")
  /\ UNCHANGED <<global, files, work, wait, result>>

EnsureCoreSystemTables(t) ==
  /\ At(t, "tables")
  /\ SetHandle(work[t], "open")
  /\ Leave(t)
  /\ UNCHANGED <<global, files, result>>

(* Mutant: the error return forgets release_runtime. *)
OpenFailsWithoutRelease(t) ==
  /\ pc[t] \in {"connect", "tables"}
  /\ Fail(t, "FAIL")
  /\ UNCHANGED <<global, files>>

(* Either fails: close_connection, then release_runtime. *)
OpenFailsAfterStart(t) ==
  /\ pc[t] \in {"connect", "tables"}
  /\ SetHandle(work[t], "closing")
  /\ Goto(t, "release")
  /\ result' = [result EXCEPT ![t] = "FAIL"]
  /\ UNCHANGED <<global, files, work, wait>>

(***************************************************************************)
(* An exception after start_runtime reaches open_impl's catch clauses,      *)
(* which return without release_runtime.                                    *)
(***************************************************************************)
OpenThrowsAfterStart(t) ==
  /\ pc[t] \in {"connect", "tables"}
  /\ SetHandle(work[t], "leaked")
  /\ Leave(t)
  /\ result' = [result EXCEPT ![t] = "FAIL"]
  /\ UNCHANGED <<global, files>>
-----------------------------------------------------------------------------
(* mylite_prepare and mylite_finalize, as far as mylite_close sees them. *)
Usable(t, h) == At(t, "idle") /\ hstate[h] = "open" /\ hproc[h] = ProcOf[t]

Prepare(t) ==
  /\ \E h \in Handles :
       /\ Usable(t, h)
       /\ active[h] < MaxStatements
       /\ active' = [active EXCEPT ![h] = @ + 1]
  /\ UNCHANGED <<global, files, hstate, hproc, hpath, local>>

(* Mutant: the count is decremented without the test for zero. *)
FinalizeUnchecked(t) ==
  /\ \E h \in Handles :
       /\ Usable(t, h)
       /\ active' = [active EXCEPT ![h] = @ - 1]
  /\ UNCHANGED <<global, files, hstate, hproc, hpath, local>>

Finalize(t) ==
  /\ \E h \in Handles :
       /\ Usable(t, h)
       /\ active[h] > 0
       /\ active' = [active EXCEPT ![h] = @ - 1]
  /\ UNCHANGED <<global, files, hstate, hproc, hpath, local>>

(* mylite_close is refused while the handle has statements. *)
CloseRefused(t) ==
  /\ \E h \in Handles : Usable(t, h) /\ active[h] > 0
  /\ result' = [result EXCEPT ![t] = "BUSY"]
  /\ UNCHANGED <<global, files, objects, pc, work, wait>>

Close(t) ==
  /\ \E h \in Handles :
       /\ Usable(t, h)
       /\ active[h] = 0
       /\ SetHandle(h, "closing")
       /\ work' = [work EXCEPT ![t] = h]
  /\ Goto(t, "release")
  /\ result' = [result EXCEPT ![t] = "OK"]
  /\ UNCHANGED <<global, files, wait>>

(***************************************************************************)
(* release_runtime.  The last reference keeps the mutex until everything    *)
(* the runtime owns is given back.                                          *)
(***************************************************************************)
ReleaseRuntimeShared(t) ==
  LET p == ProcOf[t] IN
  /\ At(t, "release")
  /\ mutex[p] = None
  /\ ref_count[p] # 1
  /\ ref_count' = [ref_count EXCEPT ![p] = IF @ = 0 THEN 0 ELSE @ - 1]
  /\ Free(work[t])
  /\ Leave(t)
  /\ UNCHANGED <<mutex, database_path, lock_fd, server, files, result>>

(* Mutant: every release ends the server, whatever the count. *)
ReleaseRuntimeAny(t) ==
  LET p == ProcOf[t] IN
  /\ At(t, "release")
  /\ mutex[p] = None
  /\ ref_count[p] > 0
  /\ ref_count' = [ref_count EXCEPT ![p] = @ - 1]
  /\ mutex' = [mutex EXCEPT ![p] = t]
  /\ SetHandle(work[t], "new")
  /\ Goto(t, "end")
  /\ UNCHANGED <<database_path, lock_fd, server, files, work, wait, result>>

ReleaseRuntimeLast(t) ==
  LET p == ProcOf[t] IN
  /\ At(t, "release")
  /\ mutex[p] = None
  /\ ref_count[p] = 1
  /\ ref_count' = [ref_count EXCEPT ![p] = 0]
  /\ mutex' = [mutex EXCEPT ![p] = t]
  /\ SetHandle(work[t], "new")
  /\ Goto(t, "end")
  /\ UNCHANGED <<database_path, lock_fd, server, files, work, wait, result>>

ServerEnd(t) ==
  /\ At(t, "end")
  /\ server' = [server EXCEPT ![ProcOf[t]] = FALSE]
  /\ Goto(t, "rmrun")
  /\ UNCHANGED <<mutex, ref_count, database_path, lock_fd, files, objects,
                 work, wait, result>>

(* Mutant: the lock is released before tmp/ is cleared. *)
RemoveRunAndUnlock(t) ==
  LET path == database_path[ProcOf[t]] IN
  /\ At(t, "rmrun")
  /\ RemoveCleanupDirectory(ProcOf[t], path)
  /\ IF path = Memory
     THEN UNCHANGED flock
     ELSE flock' = [flock EXCEPT ![DirOf[path]] = None]
  /\ Goto(t, "cleartmp")
  /\ UNCHANGED <<global, tmp, objects, work, wait, result>>

RemoveRun(t) ==
  /\ At(t, "rmrun")
  /\ RemoveCleanupDirectory(ProcOf[t], database_path[ProcOf[t]])
  /\ Goto(t, "cleartmp")
  /\ UNCHANGED <<global, flock, tmp, objects, work, wait, result>>

(* persistent_tmp_directory is empty for ":memory:". *)
ClearTmp(t) ==
  LET path == database_path[ProcOf[t]] IN
  /\ At(t, "cleartmp")
  /\ IF path = Memory
     THEN UNCHANGED tmp
     ELSE tmp' = [tmp EXCEPT ![DirOf[path]] = {}]
  /\ Goto(t, "unlock")
  /\ UNCHANGED <<global, flock, run, objects, work, wait, result>>

ReleaseDatabaseLock(t) ==
  LET p == ProcOf[t] IN
  /\ At(t, "unlock")
  /\ IF lock_fd[p] = None
     THEN UNCHANGED flock
     ELSE flock' = [flock EXCEPT ![lock_fd[p]] = None]
  /\ lock_fd' = [lock_fd EXCEPT ![p] = None]
  /\ Goto(t, "clear")
  /\ UNCHANGED <<mutex, ref_count, database_path, server, run, tmp, objects,
                 work, wait, result>>

ClearRuntime(t) ==
  LET p == ProcOf[t] IN
  /\ At(t, "clear")
  /\ database_path' = [database_path EXCEPT ![p] = None]
  /\ mutex' = [mutex EXCEPT ![p] = None]
  /\ Free(work[t])
  /\ Leave(t)
  /\ UNCHANGED <<ref_count, lock_fd, server, files, result>>
-----------------------------------------------------------------------------
(***************************************************************************)
(* A process dies.  The operating system closes its descriptors, which      *)
(* frees its locks; its files stay behind.  The process may run again.      *)
(***************************************************************************)
Crash(p) ==
  LET mine(t) == ProcOf[t] = p IN
  /\ mutex' = [mutex EXCEPT ![p] = None]
  /\ ref_count' = [ref_count EXCEPT ![p] = 0]
  /\ database_path' = [database_path EXCEPT ![p] = None]
  /\ lock_fd' = [lock_fd EXCEPT ![p] = None]
  /\ server' = [server EXCEPT ![p] = FALSE]
  /\ flock' = [d \in Dirs |-> IF flock[d] = p THEN None ELSE flock[d]]
  /\ run' = [x \in Dirs \cup Procs |-> Orphan(run[x], p)]
  /\ tmp' = [d \in Dirs |-> Orphan(tmp[d], p)]
  /\ hstate' = [h \in Handles |-> IF hproc[h] = p THEN "free" ELSE hstate[h]]
  /\ hproc' = [h \in Handles |-> IF hproc[h] = p THEN None ELSE hproc[h]]
  /\ hpath' = [h \in Handles |-> IF hproc[h] = p THEN None ELSE hpath[h]]
  /\ active' = [h \in Handles |-> IF hproc[h] = p THEN 0 ELSE active[h]]
  /\ pc' = [t \in Threads |-> IF mine(t) THEN "idle" ELSE pc[t]]
  /\ work' = [t \in Threads |-> IF mine(t) THEN None ELSE work[t]]
  /\ wait' = [t \in Threads |-> IF mine(t) THEN 0 ELSE wait[t]]
  /\ result' = [t \in Threads |-> IF mine(t) THEN "OK" ELSE result[t]]

(* The caller decides when to make a call. *)
Call(t) ==
  StartOpen(t) \/ Prepare(t) \/ Finalize(t) \/ CloseRefused(t) \/ Close(t)

(* The library runs a call to its end. *)
Step(t) ==
  \/ ValidateRuntimeDatabasePath(t) \/ PrepareDatabaseDirectory(t)
  \/ StartRuntimeBusy(t) \/ StartRuntimeShare(t) \/ StartRuntimeFirst(t)
  \/ AcquireDatabaseLock(t) \/ PollDatabaseLock(t)
  \/ DatabaseLockBusy(t) \/ DatabaseLockError(t)
  \/ RemoveStaleRun(t) \/ CreateRuntimeLayout(t) \/ StartRuntimeThrows(t)
  \/ BeginServerInit(t) \/ ServerInitSucceeds(t) \/ ServerInitFails(t)
  \/ UndoLayout(t) \/ UndoLock(t)
  \/ ConnectRuntime(t) \/ EnsureCoreSystemTables(t)
  \/ OpenFailsAfterStart(t) \/ OpenThrowsAfterStart(t)
  \/ ReleaseRuntimeShared(t) \/ ReleaseRuntimeLast(t)
  \/ ServerEnd(t) \/ RemoveRun(t) \/ ClearTmp(t)
  \/ ReleaseDatabaseLock(t) \/ ClearRuntime(t)

Next ==
  \/ \E t \in Threads : Call(t) \/ Step(t)
  \/ \E p \in Procs : Crash(p)

Spec == Init /\ [][Next]_vars

(***************************************************************************)
(* The operating system runs every thread that can run.  Nothing is assumed *)
(* of the callers, of crashes, or of which waiter std::mutex serves.        *)
(***************************************************************************)
Fairness == \A t \in Threads : WF_vars(Step(t))

FairSpec == Spec /\ Fairness
-----------------------------------------------------------------------------
(***************************************************************************)
(* Every variable keeps its type: in particular ref_count and               *)
(* active_statement_count, which are unsigned in the code, never wrap.      *)
(***************************************************************************)
TypeOK ==
  /\ mutex \in [Procs -> Threads \cup {None}]
  /\ ref_count \in [Procs -> Nat]
  /\ database_path \in [Procs -> AllPaths \cup {None}]
  /\ lock_fd \in [Procs -> Dirs \cup {None}]
  /\ server \in [Procs -> BOOLEAN]
  /\ flock \in [Dirs -> Procs \cup {None}]
  /\ run \in [Dirs \cup Procs -> SUBSET (Procs \cup {Stale})]
  /\ tmp \in [Dirs -> SUBSET (Procs \cup {Stale})]
  /\ hstate \in [Handles -> HandleStates]
  /\ hproc \in [Handles -> Procs \cup {None}]
  /\ hpath \in [Handles -> AllPaths \cup {None}]
  /\ active \in [Handles -> 0..MaxStatements]
  /\ pc \in [Threads -> Labels]
  /\ work \in [Threads -> Handles \cup {None}]
  /\ wait \in [Threads -> Nat]
  /\ result \in [Threads -> Results]

(***************************************************************************)
(* g_runtime.ref_count counts exactly the mylite_db objects that hold the   *)
(* runtime: no failure path of mylite_open drops a reference twice or       *)
(* forgets one, other than the leak on an exception after start_runtime.    *)
(***************************************************************************)
RefCountExact == \A p \in Procs : ref_count[p] = Cardinality(Refs(p))

(***************************************************************************)
(* While the embedded server of a process runs on a directory, the process  *)
(* holds that directory's lock and its files in run/ and tmp/ are in place: *)
(* nobody, this process included, removes them under a running server.      *)
(***************************************************************************)
ServerOwnsDirectory ==
  \A p \in Procs :
    /\ server[p] => p \in run[Place(p, database_path[p])]
    /\ server[p] /\ database_path[p] # Memory =>
         LET d == DirOf[database_path[p]] IN flock[d] = p /\ p \in tmp[d]

(***************************************************************************)
(* Every object that holds a reference, and so every open handle and every  *)
(* prepared statement, has a running server, and that server runs on the    *)
(* database path the object was opened with.                                *)
(***************************************************************************)
HandlesHaveRuntime ==
  \A h \in Handles :
    hstate[h] \in Referenced \/ active[h] > 0 =>
      /\ hproc[h] \in Procs
      /\ server[hproc[h]]
      /\ database_path[hproc[h]] = hpath[h]

(***************************************************************************)
(* When no object holds the runtime and no thread is inside a call, the     *)
(* process owns nothing any more: whatever failed on the way, no lock, no   *)
(* running server, no mutex and no live file is left.                       *)
(***************************************************************************)
RestOwnsNothing ==
  \A p \in Procs :
    Refs(p) = {} /\ (\A t \in Threads : ProcOf[t] = p => pc[t] = "idle") =>
      /\ mutex[p] = None /\ ~server[p]
      /\ database_path[p] = None /\ lock_fd[p] = None
      /\ \A d \in Dirs : flock[d] # p /\ p \notin tmp[d]
      /\ \A x \in Dirs \cup Procs : p \notin run[x]

(***************************************************************************)
(* run/ and tmp/ of a directory change only while some process holds the    *)
(* directory's lock: an open that cannot take the lock leaves them alone,   *)
(* and clean-up is finished before the lock is given back.                  *)
(***************************************************************************)
FilesChangeUnderLock ==
  [][\A d \in Dirs :
       run'[d] # run[d] \/ tmp'[d] # tmp[d] => flock[d] # None]_vars

(***************************************************************************)
(* Refinement: seen from outside, a process uses a place while its server   *)
(* runs there, and hands out handles meanwhile.                             *)
(***************************************************************************)
Ownership == INSTANCE DirectoryOwnership WITH
  using <- [p \in Procs |->
              IF server[p] THEN Place(p, database_path[p]) ELSE None],
  open <- [p \in Procs |-> {h \in Handles : hproc[h] = p /\ hstate[h] = "open"}],
  Places <- Dirs \cup Procs

(* mylite_open and mylite_close keep the contract of exclusive ownership. *)
RuntimeImplementsOwnership == Ownership!Spec

(***************************************************************************)
(* Every mylite_open and mylite_close returns, or its process dies: neither *)
(* the mutex held across the poll for the file lock nor two processes       *)
(* contending for one directory can block a call for ever.                  *)
(***************************************************************************)
CallsReturn == \A t \in Threads : pc[t] # "idle" ~> pc[t] = "idle"

(***************************************************************************)
(* A directory does not stay locked: it is unlocked, or a handle (or a      *)
(* leaked reference) of the owner keeps it.                                 *)
(***************************************************************************)
LockIsGivenBack ==
  \A d \in Dirs, p \in Procs :
    flock[d] = p ~>
      \/ flock[d] # p
      \/ \E h \in Handles : hproc[h] = p /\ hstate[h] \in {"open", "leaked"}
=============================================================================
