--------------------------- MODULE PhpExtensions ---------------------------
(***************************************************************************)
(* The three PHP packages over libmylite: the native extension (mylite),    *)
(* the PDO driver (pdo) and the mysqli shim (mysqli), each with one         *)
(* connection object and the statement objects prepared on it.  A behaviour *)
(* uses one of them.  A PHP method makes its libmylite calls one by one,    *)
(* ignoring the results of some, and tells the script something at its end; *)
(* a script is single-threaded, so no other method runs in between.         *)
(*                                                                          *)
(* PDO itself (external) marks a statement executed after a successful      *)
(* execute, clears the mark in closeCursor, binds the parameters in front   *)
(* of every execute and keeps the connection alive while it has statements. *)
(***************************************************************************)
EXTENDS ConnectionCalls

VARIABLES
  conn,   \* the mylite_db of the connection object
  php,    \* the PHP objects
  told    \* what the last method told the script

vars == <<conn, php, told>>

(***************************************************************************)
(* A statement object.  step, prefetched and done are the native            *)
(* extension's and the driver's, has_rows is the shim's and executed PDO's. *)
(* Remembered for the properties: missing, the rows the server produced for *)
(* the last execution that the object has not been given.  old marks a      *)
(* statement of a handle that the link has forgotten.                       *)
(***************************************************************************)
NewObject ==
  [live |-> FALSE, old |-> FALSE, params |-> FALSE, step |-> "DONE", prefetched |-> FALSE,
   done |-> FALSE, executed |-> FALSE, has_rows |-> FALSE, missing |-> 0]

(* The method in progress, if any.  ran: the server ran the statement;       *)
(* failed: a libmylite call failed; missing: as for an object.               *)
Method(call, s, failed) ==
  [call |-> call, stmt |-> s, rc |-> "OK", ran |-> FALSE, failed |-> failed, missing |-> 0]
NoMethod == Method("none", None, FALSE)

(* The connection object: held by the script, with an open handle or not.    *)
(* lost: the object was freed with a handle that could not be closed.        *)
NewLink(driver) ==
  [driver |-> driver, held |-> TRUE, open |-> TRUE, lost |-> FALSE,
   obj |-> [s \in Stmts |-> NewObject], run |-> NoMethod]

(* What the script is told (for which statement, if it matters); missing: rows  *)
(* the answer should have had.                                               *)
Said(call, s, rc, ran, failed, missing) ==
  [call |-> call, stmt |-> s, rc |-> rc, ran |-> ran, failed |-> failed, missing |-> missing]
Nothing == Said("none", None, "ok", FALSE, FALSE, 0)

Init ==
  /\ conn = OpenConnection
  /\ \E driver \in {"mylite", "pdo", "mysqli"} : php = NewLink(driver)
  /\ told = Nothing

Idle == php.run = NoMethod
Linked == Idle /\ php.held /\ php.open
Unused(s) == ~php.obj[s].live
Usable(s) == Idle /\ php.obj[s].live /\ ~php.obj[s].old
Failed(r) == r.rc \notin {"OK", "ROW", "DONE"}
Outcome(failed) == IF failed THEN "error" ELSE "ok"
PrepareReply == {<<>>, <<Dataset("rows", 0, 0, FALSE)>>} \cup ErrorReply

(* What the server may reply to a step of s; only an execution asks it. *)
ReplyTo(s) ==
  IF conn.my[s].executed THEN {<<>>}
  ELSE ErrorReply \cup (IF conn.my[s].select THEN RowsReply \cup BadReply ELSE OkReply)

(* The rows of s that are missing after step r, which ran it or fetched. *)
Missing(before, r, reply) ==
  IF r.ran THEN (IF HasColumns(reply[1]) THEN reply[1].n ELSE 0) ELSE before
Given(missing, r) == IF r.rc = "ROW" THEN missing - 1 ELSE missing

-----------------------------------------------------------------------------
(* MyLite\Connection::query, and the query of mysqli unless it is a CALL: a  *)
(* statement of its own is prepared; it is stepped to its end and finalized. *)
QueryPrepared(s, r) ==
  /\ conn' = r.conn
  /\ php' = IF Failed(r) THEN php ELSE [php EXCEPT !.run = Method("query", s, FALSE)]
  /\ told' = IF Failed(r) THEN Said("query", None, "error", FALSE, TRUE, 0) ELSE Nothing

RunQuery(s) ==
  /\ Linked /\ php.driver # "pdo" /\ Unused(s)
  /\ \E prepare \in PrepareReply : QueryPrepared(s, MylitePrepare(conn, s, prepare))

(* MyLite\Connection::exec, PDO::exec and transactions, a CALL of mysqli,    *)
(* select_db and set_charset: mylite_exec with a callback that only copies.  *)
ExecDone(r) ==
  /\ conn' = r.conn
  /\ told' = Said("exec", None, Outcome(Failed(r)), r.ran, Failed(r), 0)
  /\ UNCHANGED php

RunExec ==
  /\ Linked
  /\ \E reply \in OkReply \cup RowsReply \cup BadReply \cup ErrorReply \cup CallReply :
       ExecDone(Observe(conn, None, ExecWithoutRows(conn, reply)))

Prepared(s, r, object) ==
  /\ conn' = r.conn
  /\ php' = IF Failed(r) THEN php ELSE [php EXCEPT !.obj[s] = object]
  /\ told' = Said("prepare", None, Outcome(Failed(r)), FALSE, Failed(r), 0)

Prepare(s) ==
  /\ Linked /\ Unused(s)
  /\ \E prepare \in PrepareReply, params \in BOOLEAN :
       Prepared(s, MylitePrepare(conn, s, prepare),
                [NewObject EXCEPT !.live = TRUE, !.params = params])
-----------------------------------------------------------------------------
(* An execute of s goes on after call r, with object o; or it ends there. *)
ExecuteOn(s, o, r) ==
  /\ conn' = r.conn
  /\ php' = [php EXCEPT !.obj[s] = o, !.run = Method("execute", s, Failed(r))]
  /\ told' = Nothing
ExecuteRefused(s, call, r) ==
  /\ conn' = r.conn
  /\ told' = Said(call, None, "error", FALSE, TRUE, 0)
  /\ UNCHANGED php

NotReset(c) == Result(c, "OK", FALSE)

(* MyLite\Statement::execute up to its step; bindValue, a call of its own,   *)
(* comes before it.                                                          *)
AfterMyliteReset(s, r) ==
  IF Failed(r) THEN ExecuteRefused(s, "execute", r) ELSE ExecuteOn(s, php.obj[s], r)

(* Mutant: a statement that is done is not reset. *)
MyliteExecuteKeepsDone(s) ==
  /\ php.driver = "mylite" /\ Usable(s)
  /\ AfterMyliteReset(s, IF php.obj[s].step = "ROW" THEN MyliteReset(conn, s) ELSE NotReset(conn))

MyliteExecute(s) ==
  /\ php.driver = "mylite" /\ Usable(s)
  /\ AfterMyliteReset(s, IF php.obj[s].step \in {"ROW", "DONE"} THEN MyliteReset(conn, s)
                         ELSE NotReset(conn))

(* PDOStatement::execute up to its step: PDO has the parameters bound, which *)
(* libmylite refuses while the statement is executed; the driver resets it   *)
(* afterwards and does not look at the outcome.                              *)
PdoExecute(s) ==
  /\ php.driver = "pdo" /\ Usable(s)
  /\ IF php.obj[s].params /\ conn.my[s].executed
     THEN ExecuteRefused(s, "bind", Result(conn, "MISUSE", FALSE))
     ELSE ExecuteOn(s, [php.obj[s] EXCEPT !.prefetched = FALSE, !.done = FALSE],
                    IF php.obj[s].executed THEN MyliteReset(conn, s) ELSE NotReset(conn))

(* mysqli_stmt::execute up to its first step: the results of the reset and   *)
(* of clear_bindings are ignored, and the parameters are bound.              *)
AfterMysqliReset(s, r) ==
  IF php.obj[s].params /\ r.conn.my[s].executed THEN ExecuteRefused(s, "bind", r)
  ELSE ExecuteOn(s, [php.obj[s] EXCEPT !.has_rows = FALSE], r)

MysqliExecute(s) ==
  /\ php.driver = "mysqli" /\ Usable(s)
  /\ AfterMysqliReset(s, MyliteReset(conn, s))

(* Mutant: the row the first step has read is forgotten. *)
ExecutedObjectForgetsRow(o, r, missing) ==
  [o EXCEPT !.step = IF r.rc = "ROW" THEN "DONE" ELSE r.rc, !.done = r.rc # "ERROR",
            !.executed = @ \/ ~Failed(r), !.missing = missing]

(* The object of an execute whose last step was r. *)
ExecutedObject(o, r, missing) ==
  CASE php.driver = "mylite" -> [o EXCEPT !.step = r.rc, !.missing = missing]
    [] php.driver = "pdo" ->
         [o EXCEPT !.step = r.rc, !.prefetched = r.rc = "ROW", !.done = r.rc = "DONE",
                   !.executed = @ \/ ~Failed(r), !.missing = missing]
    [] php.driver = "mysqli" ->
         [o EXCEPT !.has_rows = ~Failed(r) /\ conn.my[php.run.stmt].select]

(* A step of the method in progress.  A query and an execute of mysqli read  *)
(* every row; the others stop at the first and keep it.                      *)
Stepped(run, reads_all, reply, r) ==
  LET missing == Missing(run.missing, r, reply)
      on == [run EXCEPT !.rc = r.rc, !.ran = @ \/ r.ran, !.failed = @ \/ Failed(r),
                        !.missing = IF reads_all THEN Given(missing, r) ELSE missing]
  IN /\ conn' = r.conn
     /\ IF reads_all /\ r.rc = "ROW" THEN php' = [php EXCEPT !.run = on] /\ told' = Nothing
        ELSE IF run.call = "query"
        THEN php' = [php EXCEPT !.run = [on EXCEPT !.call = "finalize"]] /\ told' = Nothing
        ELSE /\ php' = [php EXCEPT !.obj[run.stmt] = ExecutedObject(@, r, on.missing),
                                   !.run = NoMethod]
             /\ told' = Said("execute", run.stmt, Outcome(Failed(r)), on.ran, on.failed,
                             IF reads_all THEN on.missing ELSE 0)

(* Mutant: only a query reads every row. *)
StepMethodStopsAtRow ==
  /\ php.run.call \in {"query", "execute"}
  /\ \E reply \in ReplyTo(php.run.stmt) :
       Stepped(php.run, php.run.call = "query", reply, MyliteStep(conn, php.run.stmt, reply))

StepMethod ==
  /\ php.run.call \in {"query", "execute"}
  /\ \E reply \in ReplyTo(php.run.stmt) :
       Stepped(php.run, php.run.call = "query" \/ php.driver = "mysqli", reply,
               MyliteStep(conn, php.run.stmt, reply))

(* The end of a query: the statement is finalized, and only then is the      *)
(* error looked up.                                                          *)
FinishQuery ==
  /\ php.run.call = "finalize"
  /\ conn' = MyliteFinalize(conn, php.run.stmt).conn
  /\ php' = [php EXCEPT !.run = NoMethod]
  /\ told' = Said("query", None, Outcome(php.run.rc # "DONE"), php.run.ran, php.run.failed,
                  php.run.missing)
-----------------------------------------------------------------------------
(* A fetch of statement s has ended: its object is o and it said m. *)
Fetched(s, c, o, m) == conn' = c /\ php' = [php EXCEPT !.obj[s] = o] /\ told' = m

(* Rows that a call for something else threw away, or a reset of s that was  *)
(* then refused, are not the extension's to give.                            *)
Owed(s, o) == IF conn.my[s].disturbed \/ conn.my[s].broken THEN 0 ELSE o.missing

(* MyLite\Statement::fetchAssociative: the row is copied and the next one is *)
(* stepped to; the script does not learn of it when that step fails.         *)
LookedAhead(s, o, r) ==
  Fetched(s, r.conn, [o EXCEPT !.step = r.rc, !.missing = @ - 1],
          Said("fetch", s, "row", r.ran, Failed(r), 0))

MyliteFetch(s) ==
  /\ php.driver = "mylite" /\ Usable(s)
  /\ LET o == php.obj[s]
     IN IF o.step = "ROW"
        THEN \E reply \in ReplyTo(s) : LookedAhead(s, o, MyliteStep(conn, s, reply))
        ELSE Fetched(s, conn, o, Said("fetch", s, "end", FALSE, o.step # "DONE", Owed(s, o)))

(* PDOStatement::fetch; PDO does not ask the driver before an execute.  The  *)
(* step executes the statement when a reset has made it forget that it was.  *)
PdoStepped(s, o, r) ==
  Fetched(s, r.conn, [o EXCEPT !.step = r.rc, !.done = r.rc = "DONE", !.missing = Given(@, r)],
    CASE r.rc = "ROW"  -> Said("fetch", s, "row", r.ran, FALSE, 0)
      [] r.rc = "DONE" -> Said("fetch", s, "end", r.ran, FALSE, Owed(s, o))
      [] Failed(r)     -> Said("fetch", s, "error", r.ran, TRUE, 0))
PdoRan(s, o, reply, r) == PdoStepped(s, [o EXCEPT !.missing = Missing(@, r, reply)], r)

(* Mutant: the row read ahead is given again and again. *)
PdoFetchKeepsFirst(s) ==
  /\ php.driver = "pdo" /\ Usable(s) /\ php.obj[s].executed /\ php.obj[s].prefetched
  /\ Fetched(s, conn, [php.obj[s] EXCEPT !.missing = @ - 1],
             Said("fetch", s, "row", FALSE, FALSE, 0))

PdoFetch(s) ==
  /\ php.driver = "pdo" /\ Usable(s) /\ php.obj[s].executed
  /\ LET o == php.obj[s]
     IN IF o.done
        THEN Fetched(s, conn, o, Said("fetch", s, "end", FALSE, FALSE, Owed(s, o)))
        ELSE IF o.prefetched
        THEN Fetched(s, conn, [o EXCEPT !.prefetched = FALSE, !.missing = @ - 1],
                     Said("fetch", s, "row", FALSE, FALSE, 0))
        ELSE \E reply \in ReplyTo(s) : PdoRan(s, o, reply, MyliteStep(conn, s, reply))

(* PDOStatement::closeCursor. *)
CursorClosed(s, r) ==
  Fetched(s, r.conn,
    [php.obj[s] EXCEPT !.prefetched = FALSE, !.done = TRUE, !.executed = FALSE, !.missing = 0],
    Said("closeCursor", None, "ok", FALSE, Failed(r), 0))

PdoCloseCursor(s) ==
  /\ php.driver = "pdo" /\ Usable(s)
  /\ CursorClosed(s, MyliteReset(conn, s))
-----------------------------------------------------------------------------
Objects(p) == {s \in Stmts : p.obj[s].live}

(* A close whose result is ignored, after which the handle is forgotten. *)
CloseAndForget(c, p) ==
  [p EXCEPT !.open = FALSE, !.lost = @ \/ (p.open /\ MyliteClose(c).rc # "OK")]

(* Mutant: a statement object holds no reference to the connection object. *)
CollectUnheld(c, p) == IF ~p.held THEN CloseAndForget(c, p) ELSE p

(* The connection object is freed when neither the script nor a statement    *)
(* object refers to it.                                                      *)
Collect(c, p) == IF ~p.held /\ Objects(p) = {} THEN CloseAndForget(c, p) ELSE p

(* The script drops a statement object. *)
Freed(s, c) == conn' = c /\ php' = Collect(c, [php EXCEPT !.obj[s] = NewObject])

FreeStatement(s) ==
  /\ Idle /\ php.obj[s].live
  /\ Freed(s, IF php.obj[s].old THEN conn ELSE MyliteFinalize(conn, s).conn)
  /\ told' = Nothing

(* The script drops the connection object. *)
DropLink ==
  /\ Idle /\ php.held
  /\ php' = Collect(conn, [php EXCEPT !.held = FALSE])
  /\ told' = Nothing
  /\ UNCHANGED conn

(* close; PDO has no such method. *)
CloseLink ==
  /\ Linked /\ php.driver # "pdo"
  /\ LET r == MyliteClose(conn)
     IN /\ conn' = r.conn
        /\ php' = [php EXCEPT !.open = Failed(r)]
        /\ told' = Said("close", None, IF Failed(r) THEN "error" ELSE "ok", FALSE, Failed(r), 0)

(* A new connection object, once there is none; and real_connect of mysqli,  *)
(* which opens the link again, whether it is open or not.  The statements of *)
(* a handle that is forgotten can no longer be told of the link; that it may *)
(* be forgotten open is known and does not count as lost.                    *)
Connect ==
  /\ Idle /\ ~php.held /\ Objects(php) = {}
  /\ conn' = OpenConnection
  /\ php' = [NewLink(php.driver) EXCEPT !.lost = php.lost]
  /\ told' = Nothing

RealConnect ==
  /\ Idle /\ php.held /\ php.driver = "mysqli"
  /\ \E opened \in BOOLEAN :
       /\ conn' = OpenConnection
       /\ php' = [CloseAndForget(conn, php) EXCEPT
                    !.open = opened, !.lost = php.lost,
                    !.obj = [s \in Stmts |-> [php.obj[s] EXCEPT !.old = @ \/ php.obj[s].live]]]
       /\ told' = Said("open", None, IF opened THEN "ok" ELSE "error", FALSE, ~opened, 0)

Next ==
  \/ \E s \in Stmts :
       \/ RunQuery(s) \/ Prepare(s) \/ FreeStatement(s)
       \/ MyliteExecute(s) \/ MyliteFetch(s)
       \/ PdoExecute(s) \/ PdoFetch(s) \/ PdoCloseCursor(s)
       \/ MysqliExecute(s)
  \/ StepMethod \/ FinishQuery
  \/ RunExec \/ DropLink \/ CloseLink \/ Connect \/ RealConnect

Spec == Init /\ [][Next]_vars
-----------------------------------------------------------------------------
ObjectType ==
  [live : BOOLEAN, old : BOOLEAN, params : BOOLEAN, step : {"ROW", "DONE", "ERROR"},
   prefetched : BOOLEAN, done : BOOLEAN, executed : BOOLEAN, has_rows : BOOLEAN, missing : Nat]

(* Every object has its type; no row is given to the script that the server  *)
(* did not produce for the last execution of the statement.                  *)
TypeOK ==
  /\ php.obj \in [Stmts -> ObjectType]
  /\ php.run.call \in {"none", "query", "execute", "finalize"} /\ php.run.missing \in Nat
  /\ told.rc \in {"ok", "row", "end", "error"}

(* A script that is told of the end of the rows, or given a whole result,    *)
(* has been given every row of the execution, the row the execute read ahead *)
(* included: except rows that a call for another statement or a refused      *)
(* reset threw away.                                                         *)
EndMeansComplete == told.rc \in {"ok", "end"} => told.missing = 0

(* An execute that reports success ran the statement, this time: except for  *)
(* the PDO driver after a refused reset, whose outcome it ignores both in    *)
(* execute and in closeCursor.                                               *)
ExecuteRan ==
  told.call = "execute" /\ told.rc = "ok" =>
    told.ran \/ (php.driver = "pdo" /\ conn.my[told.stmt].broken)

(* When a method reports an error the handle still holds the diagnostics the *)
(* extension looks up, although query looks after mylite_finalize.  A        *)
(* refused bind sets none.                                                   *)
DiagnosticsSurvive ==
  told.rc = "error" /\ told.call \notin {"bind", "open"} => conn.errcode

(* Between two methods the shim leaves the connection ready for the next     *)
(* command, so no reset it ignores is refused.                               *)
ShimStaysReady ==
  php.driver = "mysqli" /\ Idle =>
    /\ Ready(conn.lib)
    /\ told.call = "execute" /\ told.rc = "ok" => ~told.failed

(* "Statement destructors finalize remaining handles before their owning     *)
(* connection is closed": in whatever order the script drops the objects, no *)
(* destructor's close is refused, so no handle outlives its object.          *)
HandlesAreClosed == ~php.lost

(* Only execute runs a prepared statement, so a fetch never repeats its      *)
(* effects: except a PDO fetch after a step of the statement that failed.    *)
FetchNeverRuns ==
  [][told'.call = "fetch" /\ told'.ran => php.obj[told'.stmt].step = "ERROR"]_vars

(* An execute that reports success had no failed libmylite call in it.       *)
ExecuteHidesNothing == told.call = "execute" /\ told.rc = "ok" => ~told.failed
=============================================================================
