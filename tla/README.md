# MyLite in TLA+

TLA+ specifications of MyLite, the embedded, serverless packaging of MariaDB:
modules that model its library, TLC configurations that check them on small
instances, and TLAPS proofs for instances of every size.  `PROJECT.json` maps
every definition to the source lines it models, and lists runs, mutants,
findings, hazards and theorems.

## The system

MyLite's first-party code is a C API library and three PHP extensions on top of
a vendored MariaDB server that runs inside the process.

| part | source | what it does |
|---|---|---|
| open and close | `packages/libmylite/src/database.cc` 426-455, 992-1050, 2238-2245, 2797-2941, 3006-3223 | one embedded server per process, started by the first `mylite_open`, ended by the last `mylite_close`; its state `g_runtime` is behind a mutex, the database directory behind an advisory `flock` on `mylite.lock` |
| directory layout | `database.cc` 2652-2796, 2954-3004 | find, validate or create `mylite.meta`, `datadir/`, `tmp/`; runs before the lock is taken |
| prepared statements | `database.cc` 464-758, 1169-1246, 2315-2605 | prepare, bind, step, reset, finalize; result buffers that grow while the client library holds pointers to them |
| column access | `database.cc` 760-885, 2607-2650 | typed reads of the current row |
| direct execution | `database.cc` 1109-1167, 2247-2313 | `mylite_exec` with a row callback, multi-results, `USE` tracking |
| diagnostics | `database.cc` 887-986, 3225-3296 | errcode, messages, warnings, changes, last insert id |
| SQL policy | `database.cc` 1248-2236 | lexer and token predicates that refuse server-only SQL |
| PHP extension | `packages/php-ext-mylite/src/php_mylite.c` | `Connection` and `Statement` objects |
| PDO driver | `packages/php-ext-pdo-mylite/src/php_pdo_mylite.c` | PDO handle and statement methods |
| mysqli shim | `packages/php-ext-mysqli-mylite/src/php_mysqli_mylite.c` | the mysqli API over libmylite |
| client library | `mariadb/libmysqld/libmysql.c`, `mariadb/libmysqld/lib_sql.cc`, `mariadb/sql-common/client.c` | the `MYSQL` and `MYSQL_STMT` handles under libmylite: one command at a time, rows read as they are asked for |
| MariaDB fork | `mariadb/` (the rest) | vendored server; the environment that replies to statements |

How they interact: every PHP object holds a `mylite_db` or `mylite_stmt`; every
statement counts in its handle's `active_statement_count`, which makes
`mylite_close` fail with `MYLITE_BUSY`; every handle counts in
`g_runtime.ref_count`, which keeps the server and the directory lock.  All
statements of a handle, and `mylite_exec`, share one `MYSQL` handle, which
refuses every command while one statement has rows left to read.

Nearly all lines under `src/` (over two million) are the vendored MariaDB fork.
The project models MyLite's own code and the part of the client library it runs
through, so the mapped lines are about a tenth of a percent of the repository.
Of libmylite's `database.cc` they are over half (some 1,900 of 3,300 lines); of the
three PHP extensions some 580 of 4,100, the rest being value conversion, argument
parsing and the aliases of the mysqli API.

## Modules

| module | models |
|---|---|
| `EmbeddedRuntime` | open and close: threads of several processes, `g_runtime`, the mutex, `flock`, the files of `run/` and `tmp/`, failures, exceptions and crashes |
| `DirectoryOwnership` | the abstract promise: a process uses one place at a time, a place has one user, handles exist only meanwhile |
| `DatabaseDirectory` | `prepare_database_directory`, system call by system call, with any number of concurrent openers |
| `ClientLibrary` | the `MYSQL` handle, its statement handles and the embedded transport, as operators from handles to handles |
| `ConnectionCalls` | the calls of libmylite on one `mylite_db`, as operators over `ClientLibrary` |
| `Connection` | a C program that makes these calls, the callback of `mylite_exec` included |
| `PhpExtensions` | scripts that use the native extension, the PDO driver or the mysqli shim, over `ConnectionCalls` |
| `SqlPolicy` | the token scan that refuses server-only SQL, against a syntax-tree reference; `current_schema` |
| `PreparedStatement` | one statement, its result buffers and the calls of the MariaDB client library, each of which may fail |
| `EmbeddedRuntimeInv` | the inductive invariant `Inv` |
| `EmbeddedRuntimeProofs` | lemmas on types, threads and the mutex, on phases, locks and files and on the reference count, the theorems about opening and closing, and the refinement |
| `DatabaseDirectoryProofs` | the inductive invariant `DirectoryInv` and the theorems about racing openers |
| `PreparedStatementProofs` | the inductive invariant `StatementInv` and the theorems about a statement |
| `ConnectionCallsProofs` | `LibInv`, and what every call of the client library returns and preserves; `ConnOK`, and the same for every call of libmylite |
| `ConnectionProofs` | the inductive invariant `ConnectionInv` and the theorems about a connection |
| `PhpExecuteProofs` | the inductive invariant `PhpInv`, and its lemmas on `query`, `exec`, `prepare` and `execute` |
| `PhpExtensionsProofs` | the lemmas on the other methods, and the theorems about the PHP packages |
| `SqlPolicyProofs` | the theorem about `current_schema` |
| `MC...` | small instances for TLC |

### EmbeddedRuntime

`pc[t]` is the point a thread has reached in `open_impl`, `start_runtime` or
`release_runtime`; each label stands before one access to shared state.  A
critical section that the code enters and leaves without touching the lock file
or the directory (`validate_runtime_database_path`, the shared branch of
`start_runtime`, a release that is not the last) is one step.  The first start
and the last release hold the mutex over many steps, as the code does, because
another process sees the lock and the files change in between.  `hstate[h]` is
how far a `mylite_db` object has come, `"leaked"` the reference that stays when
an exception unwinds `open_impl` after `start_runtime`.  `run` and `tmp` say
whose files a directory holds; files of a dead process belong to `Stale`.

Two paths may name one directory (`DirOf`), since `normalize_database_path` makes
a path absolute and does nothing about `..`, doubled slashes or links.

Assumed: `remove_all` succeeds (the code ignores its errors); a descriptor of the
lock file is not inherited over `fork`; the callers use a handle from one thread
at a time and close it once, as the API requires; `mysql_server_init` and
`mysql_server_end` do what their names say.

### DatabaseDirectory

`dir` is what the file system holds.  Every query or change of it is one step,
because nothing excludes other openers here.  The metadata is `"empty"` between
the `trunc` of `ofstream` and its flush.  `Faults` selects crashes, failing
directory creations and a failing flush.

### PreparedStatement

A step is one library call.  `bound` is the library's own copy of the buffer
pointers, which differs from `buf` after a column has grown until
`refresh_dirty_result_binds` binds it again; `retired` keeps the old block alive.
A block's contents are the first bytes of a column of a row, so a value that was
cut off, or that is left over from an earlier row, is told apart.  Abstracted:
the initial size of a buffer, `min(max(length, 1), 4096)` in the code, is the
constant `InitialSize`; the contents of a freed block are set to one value; when
the set-up of the columns fails half-way the columns it had made count as
released.  Ghost variables: `fetched`, `delivered`, `ended`, `failed`, `sent`.

### ClientLibrary, ConnectionCalls and Connection

`PreparedStatement` lets every library call fail at will.  These modules look
inside the library instead, because there the calls on one connection disturb
each other.  A handle is used by one thread, so a call is an operator from the
connection before it and the server's reply to the connection after it, and
`Connection` makes one call per step.  The exception is the callback of
`mylite_exec`, which may call the library on the same handle: `stack` holds the
`mylite_exec` calls that are in their callback.

The server is an input: to every command it replies with a sequence of result
sets, each of rows, an OK packet, an error, or rows whose production fails.  Rows
are counted.  In the record `lib`, `first` and `cur` are `THD::first_data` and
`cur_data`, `status` and `owner` are `mysql->status` and
`unbuffered_fetch_owner`, `more` is `SERVER_MORE_RESULTS_EXISTS`, and `stmt[s]` has
the state, read function, `last_errno` and `field_count` of a `MYSQL_STMT`.  Ghost
fields: `left`, `disturbed` and `broken` of a statement, `stored` and `asked` of
the warnings, `null` when the library follows a null pointer.

Left out: cursors and `mysql_stmt_store_result`, which libmylite does not use;
reconnects and killed threads; statements whose columns change between prepare
and execute (in `PreparedStatement`); overflow of the counters.

### PhpExtensions

A behaviour picks one package and has one connection object and several statement
objects.  A method makes its libmylite calls as the C code does, including the
ones whose result is ignored; `told` is what the script learns.  `query` and
`execute` are several steps (`php.run` is the method in progress), the others one.
PDO itself is external: it sets and clears `executed`, binds parameters before an
execute and keeps the connection object alive for its statements, as does the
reference counting of PHP objects for the other packages (`Collect`).

Left out: conversions of values, result objects, which walk arrays, the copies of
error and status properties, PDO attributes, failures of PHP allocations.

### SqlPolicy

A statement is a small syntax tree; `Tokens` writes it as tokens, `Refused` is the
code's scan of those tokens, and `Unsupported` what the tree means.  Names stand
for their class (`V` a variable of the policy's lists, `T` an information-schema
table, `F` a function, `x` anything else).  `Submit` is a call up to the policy's
answer, `ExecRuns` and `StepRuns` the execution, which moves the session's schema
and, for `mylite_exec`, `current_schema`.

Left out: predicates that compare the leading words with a list (plugins,
replication, XA, HELP, SHOW, ...), `PROCEDURE ANALYSE`, `INTO OUTFILE` and vector
indexes, the lexer's characters, and variable names in backquotes, which some of
the lists take and others do not.

## Runs

Deadlock is checked in every run but `runtime_liveness`, whose threads make a
bounded number of calls and then stop.

| run | instance | shows |
|---|---|---|
| `runtime_safety` | 2 threads of one process, 1 of another, 2 live handles, 1 statement each, one directory with two spellings and `:memory:`, a timeout of one poll | `RefCountExact`, `ServerOwnsDirectory`, `HandlesHaveRuntime`, `RestOwnsNothing`, `FilesChangeUnderLock`; `EmbeddedRuntime` implements `DirectoryOwnership` |
| `runtime_liveness` | the same threads, each opening once; process `p2` may crash | `CallsReturn`, `LockIsGivenBack`; the inductive invariant `Inv` |
| `directory_safety` | 3 openers, every initial content of the path (an empty `mylite.meta` excepted), every fault | `NoSilentRepair`, `OkMeansLayout`, `RacingCreatorsConverge` |
| `statement_safety` | 2 columns, 4 heap blocks, values of up to 3 bytes in buffers that start with 1, 3 rows, 1 parameter | `FetchTargetsOwned`, `RowIsComplete`, `DoneMeansDelivered`, `BindingsFrozen`, `DiagnosticsAgree` |
| `connection_safety` | 2 statements, results of 0 or 2 rows, a callback that makes any call but a nested callback, CALLs of up to 2 result sets | the client library stays usable (`CanBeMadeReady`, `OwnerIsReading`, `FlushedRowsAreOwn`, `NoNullPointer`); rows, counts, warnings and result codes are the statement's own (`RowsLostOnlyToOthers`, `CountsAreTheStatements`, `WarningsAreCounted`, `ExecReportsOutcome`, `ErrorMeansNotRun`) |
| `php_safety` | each package, 2 statement objects, results of 0 or 2 rows | `EndMeansComplete`, `ExecuteRan`, `FetchNeverRuns`, `DiagnosticsSurvive`, `ShimStaysReady`, `HandlesAreClosed` |
| `policy_safety` | SET with up to 2 assignments, CREATE, FLUSH, SELECT and USE statements, a window of 20 tokens | `RefusesUnsupported`, `AcceptsSupported`, `SchemaFollowsUse` |

Why the bounds are enough for the cases that matter.  Two threads of one process
give every race on `g_runtime`, a third thread in another process every race on
the lock and on the files.  Two handles give the shared and the last release; two
spellings of one directory, and `:memory:`, every path comparison.  Three openers
let a second creator truncate the metadata while a third reads it.  Two columns
let one grow while the other does not, four blocks are a current and a retired
one each, lengths of 0..3 let a buffer grow twice (1, 2, 3), and three rows give
one fetch after each.  Two statements are a reader and one that gets in its way;
the client library has room for one reader only.  Two rows leave one unread after
the first step; two result sets of a CALL leave one for the drain after the first.
One level of callback (`MaxDepth`) already has a complete call inside another;
`ReentrantCall = FALSE` keeps the callback of a CALL from using the handle (see
"Known behaviour").  Two assignments give a first and a later one, with
a call's parentheses and commas in front of the later one; the window (32 in the
code) is 20, so that some two-assignment statements fit and some do not.

Symmetry: handles, openers, heap blocks and statements are interchangeable and
are symmetry sets, in runs of invariants, action properties and the refinement
(whose specification has no fairness) only.

Fairness: weak fairness of every thread's steps inside a call (`Fairness`), that
is, the operating system runs a thread that can run.  Nothing is assumed of
callers and crashes.  `std::mutex` does not promise that a waiter ever gets the
mutex while others keep taking it, so `runtime_liveness` bounds the calls
(`MaxOpens`) instead of assuming strong fairness.

### Disagreements between documents and code

Each of these runs checks what a document under `src/docs` says, and TLC shows a
behaviour of the code that contradicts it.  `PROJECT.json` has the quotations.

| run | the document says | the code |
|---|---|---|
| `directory_unclean_exit` | an unclean exit allows a later open | death in the middle of the creation leaves a directory every open calls corrupt |
| `directory_metadata_race` | `mylite.meta` survives | a slower creator truncates it after another one has opened the database |
| `connection_rows_lost` | `MYLITE_DONE`: execution is complete | a refused call on the connection throws the rows of the reading statement away before it is refused, and the next step returns `MYLITE_DONE` |
| `connection_reset_error` | any other result code: execution failed | after a refused `mylite_reset`, a step runs the statement and returns the error of the reset |
| `php_execute_ran` | MyLite errors become PDO errors | `PDOStatement::execute` ignores a refused reset and reports success although nothing ran |

### Known behaviour

What the models also show of the code.  The properties above name these cases as
exceptions or say nothing of them.

- Two spellings of one directory are two paths to `start_runtime`: the second
  open in a process gets `MYLITE_BUSY`.  An open with timeout 0 waits for
  `g_runtime.mutex` while another thread polls the lock.
- An error in the final flush of `mylite.meta` is not seen.
- `has_row` stays set when a later fetch fails, so column accessors still answer.
- A step after one whose result set-up failed returns `MYLITE_DONE`.
- `SHOW WARNINGS` sets the client's warning count to 0, so after one
  `mylite_warning` the next returns `MYLITE_NOTFOUND`.
- A callback of a CALL that uses the handle empties the queue of results that
  `mylite_exec` goes on to read: with `ReentrantCall = TRUE`, TLC reports
  `NoNullPointer` violated.
- `current_schema` does not follow a prepared `USE`; `FLUSH LOCAL` of the binary
  logs or the query cache, and an assignment with `:=`, are not refused; a policy
  variable compared with `=`, and an object called EVENT behind a DEFINER, are.
- `PDOStatement::fetch` after a failed re-execution runs the statement;
  re-executing a PDO statement with parameters is refused unless its cursor was
  closed, and that refusal sets no diagnostics; `fetchAssociative` of the native
  extension does not tell of a look-ahead step that failed; `real_connect` of the
  shim forgets a handle that has statements.

## Proofs

Every theorem holds for all values of the constants that satisfy the named
assumption of its module.

| module | theorems | for |
|---|---|---|
| `EmbeddedRuntimeProofs` | `RuntimeInvariant`; `TypeCorrect`, `CountIsExact`, `ServerIsOwner`, `RuntimeOutlivesHandles`, `RestIsClean` (the invariants of `runtime_safety`); `CleanupUnderLock` (the action property `FilesChangeUnderLock`); `RuntimeRefinesOwnership` (the refinement) | any processes, threads, paths, timeouts, finitely many handles |
| `DatabaseDirectoryProofs` | `DirectoryInvariant`; `DirectoryTypes`, `ForeignDirectoriesUntouched`, `OpenedMeansLayout`, `CreatorsConverge` (all of `directory_safety`) | any openers and faults |
| `PreparedStatementProofs` | `StatementInvariant`; `StatementTypes`, `FetchesAreOwned`, `RowsAreComplete`, `DoneIsComplete`, `BindingsAreFrozen`, `DiagnosticsAreRight` (all of `statement_safety`) | any columns, rows, heap blocks, parameters and lengths |
| `ConnectionProofs` | `ConnectionInvariant`; `ConnectionTypes`, `OnlyOthersLoseRows`, `OwnersAreReading`, `FlushesAreOwn`, `ConnectionRecovers`, `ExecOutcomesReported`, `CountsAreRight`, `WarningCountsAgree`, `NoResultIsNull` and the action property `ErrorsMeanNotRun` (all of `connection_safety`) | any statements, rows, result sets and depth of callbacks, given `~ReentrantCall` |
| `PhpExtensionsProofs` | `PhpInvariant`; `PhpTypes`, `EndIsComplete`, `ExecuteRuns`, `DiagnosticsStay`, `ShimIsReady`, `NoHandleIsLost` and the action property `FetchesDoNotRun` (all of `php_safety`) | any package, statement objects, rows and order of method calls |
| `SqlPolicyProofs` | `SchemaIsFollowed` (`SchemaFollowsUse` of `policy_safety`) | any window and statements |

`ConstantAssumption` says that the special values differ from the ordinary ones,
that directories are not processes, and that the handles are finitely many;
`StatementAssumption` that sizes are natural numbers, a first buffer no larger than
the longest value, and that the special values differ from the ordinary ones;
`LibraryAssumption`, `CallsAssumption` and `ConnectionAssumption` that no statement is
the special value, that the server counts with natural numbers, and that a first
callback is possible; `FaultsAssumption` only lists the faults there are.

### Opening and closing

Why `Inv`: none of the invariants is inductive.  That a running server
has its lock, for instance, is preserved by `ReleaseDatabaseLock` only because the
server has ended by then and no other thread can have started one.  `Inv`
defines the *phase* of a process's runtime: the point of the thread that holds
the mutex if there is one, else `"up"` or `"down"` by `ref_count`.  It then says
that everything a process owns is a function of the phase: which fields of
`g_runtime` are set (`FieldsInv`), which directory is locked (`LocksInv`), where it
has files (`RunInv`, `TmpInv`).  `MutexInv` says that the mutex is held across
steps only when `ref_count` is 0, so that nothing counts on a runtime that is
starting or stopping, and `ThreadsInv` that no two threads work on one object.

The argument, in `EmbeddedRuntimeProofs`: first the types, threads, handles and the
mutex.  Then what a step leaves alone (other processes, other threads) and where it
takes the phase of its own process; the fields, the locks and the files follow from
that.  Last the reference count, by the cardinality of finite sets.

The refinement maps a process to the place its server runs on (`Using`) and to its
open handles (`HandsOut`).  `BeginServerInit` is the abstract `Start`, `ServerEnd` and
`ServerInitFails` are `Stop`, `EnsureCoreSystemTables` is `Open`, `Close` and `Crash`
are the steps of that name (`StartRefines`, ..., `CrashRefines`), and every other step
is a stutter (`UsingStays`, `HandsOutStays`).  That the place is free when a server
starts, and that no handle is out when it ends, comes from `Inv`.

### Directory layout

`NoSilentRepair` needs to know that an opener in the middle of the creation found
the path absent or empty, and that what it created is still there: `OpenersInv`.
`LayoutInv` says that `mylite.meta` comes last, so that the layout is there for an
opener that sees it; `WorkInv` that, without faults, an incomplete directory has
somebody at work on it.  Steps that only look are told from steps that change the
directory, and the latter only ever add to it.

### Prepared statements

Why `StatementInv`: `RowIsComplete` speaks of an idle statement, but what it says
is made true by the loop over truncated columns.  `Rows` therefore says, in the
loop, that the columns it is through with and the columns that needed no second
fetch are whole.  That a second fetch of one column does not spoil another is
`Targets`: no two columns share a buffer, and the library's pointers are the
current buffers, or retired ones while `dirty` is set.  `Flow` and `Progress` tie
`pc`, the flags and the row counts together, so that a failing call anywhere
leaves a state the next call can start from.  There is one lemma per conjunct
(`TypeStep`, `FlowStep`, `TargetsStep`, `RowsStep`, `ProgressStep`), with one case
per action.

### Connections

Why `ConnectionInv`: a property such as `CanBeMadeReady` depends on four records of
the same fact, that a statement has rows to read: `mysql->status`,
`unbuffered_fetch_owner`, the statement handle's state and read function, and
libmylite's `has_result`.  `LibInv` says that the first three agree for every
statement, and what may be in the queue; `StmtInv` that the fourth agrees with
them, and that the rows of an execution are delivered, unread or marked as thrown
away.  `ConnOK` is both.  `StackInv` says what the `mylite_exec` calls that are in
their callback still have to read: for a CALL the rest of its reply, for all
others nothing.  `LastInv` says of the call that has just returned what later
properties compare.

The argument has three layers.  For each call of the client library a lemma says,
with a predicate over the state before and after, what it returns and that it
keeps `LibInv`; no later proof opens its definition.  From these come the
same for each call of libmylite and `ConnOK`, where `Foreign` says what a call may
do to the rows of another statement, and `Observe` that rows which are lost are
marked.  `ConnectionProofs` has one lemma per action of the program.  The loops
(`drain_remaining_query_results`, and the flush of `reset_stmt_handle`) are
recursive functions of the number of turns; that a drain of a CALL of any length
ends with its outcome is shown by a least counterexample over the turns, with
`WFMin` of the library.

`~ReentrantCall`: the callback of a CALL does not use the handle.  With it, a
callback empties the queue the CALL goes on to read (see "Known behaviour"), and
the theorems would be false.

### PHP packages

Why `PhpInv`: what a script is told comes from the fields of a PHP object
(the last step's result, `executed`, `done`, a prefetched row), while what is true of
its rows is in libmylite and the client library, where the methods of other
objects change it too.  `PhpInv` therefore says, for every statement object,
what its fields promise of the `mylite_stmt` behind it: if the last step was a row
then the rows not given to the script are those still unread plus the prefetched
one (`Reads`), if it was the end then nothing is missing unless somebody threw it
away (`Settled`), if it failed then the next step executes again or fails again
(`Unrun`).  `Spent` is the state a refused reset leaves, which only the PDO driver
goes on with.  `MethodInv` says how far the `query` or `execute` in progress has
come, and `ShimInv` that with mysqli no statement but that of the method in
progress reads, so that no reset is refused.  `Tells` says that what the last method told was true.

The argument: `ConnectionCallsProofs` says of every call of libmylite what it does
to the statement it is for and that it `Spares` every other one, which keeps its
flags, its handle and its count of undelivered rows, and can only be marked as
disturbed.  From these come lemmas about one turn of a step loop (`FirstStep`, `ReadStep`, `SpentStep`), and
`LinkKeeps`, that a method which touches one object keeps `PhpInv` for all the
others.  Each action then has a lemma of its own (`RunQueryKeeps`, ...,
`RealConnectKeeps`), with a case per package where their code differs.

### Schema of the policy

`SchemaFollowsUse` is inductive as it stands: an executed `USE` sets both names or,
when the server refuses it, neither, and a prepared one sets the flag.

### Only model-checked

- Liveness (`CallsReturn`, `LockIsGivenBack`): fairness is outside the prover's reach.
- `SqlPolicy`: `RefusesUnsupported` and `AcceptsSupported` compare a token scan with
  a syntax tree, which takes an induction over statements of any length that the
  prover does not have.

## Not modelled

- The MariaDB server: vendored, by far the largest part of the repository, and too
  large to model; it replies to statements.
- Column accessors (`database.cc` 760-885, 2607-2650): they convert a value that
  `PreparedStatement` shows to be whole, and change no state.
- The characters of the lexer and the fixed word lists of the policy.
- Value conversions, result objects, status properties, attributes and aliases of
  the PHP packages.
- `runtime_arguments` (option strings), the 100 attempts for a `:memory:`
  directory name, message texts, the version string, build scripts and tools.

## Plan

1. The composed open path: `DatabaseDirectory` inside `EmbeddedRuntime`'s
   `PrepareDatabaseDirectory`, with `MYLITE_OPEN_EXCLUSIVE`, whose test and creation
   are two steps.
2. Column accessors: conversions at their numeric edges.
