-------------------------- MODULE ConnectionCalls --------------------------
(***************************************************************************)
(* The calls of libmylite on one mylite_db handle and on the statements     *)
(* prepared on it (database.cc): mylite_exec, mylite_prepare, mylite_step,  *)
(* mylite_reset, mylite_finalize, mylite_warning and mylite_close, over the *)
(* client library they share.  A call is an operator from the connection    *)
(* before it, and the server's reply, to the connection after it and the    *)
(* result code.  Connection and PhpExtensions are the programs that make    *)
(* the calls.                                                               *)
(***************************************************************************)
EXTENDS ClientLibrary

CONSTANTS
  Rows,      \* how many rows a result set may have
  Counts,    \* what a statement without rows may report: one number stands
             \* for affected_rows and insert_id
  Warnings,  \* how many warnings a statement may have
  MaxSets    \* result sets of a CALL

ASSUME CallsAssumption ==
  Rows \subseteq Nat /\ Counts \subseteq Nat /\ Warnings \subseteq Nat /\ MaxSets \in Nat
-----------------------------------------------------------------------------
(* What the server may reply to one statement.  A CALL replies with result   *)
(* sets and then with the outcome of the procedure.                          *)
OkReply   == {<<Dataset("ok", n, w, FALSE)>> : n \in Counts, w \in Warnings}
RowsReply == {<<Dataset("rows", n, w, FALSE)>> : n \in Rows, w \in Warnings}
BadReply  == {<<Dataset("bad", 0, 0, FALSE)>>}
ErrorReply == {<<Dataset("error", 0, 0, FALSE)>>}
CallReply ==
  UNION {{[i \in 1..k + 1 |-> IF i <= k THEN Dataset("rows", 1, 0, TRUE) ELSE end] :
            end \in {Dataset("ok", 0, 0, FALSE), Dataset("error", 0, 0, FALSE)}} :
         k \in 1..MaxSets}

Succeeds(reply) == \A i \in DOMAIN reply : reply[i].kind \in {"ok", "rows"}

(***************************************************************************)
(* The flags of a mylite_stmt, and what is remembered of it to state the    *)
(* properties: the rows of its execution that were not delivered, whether a *)
(* call for something else threw rows of it away, and whether a             *)
(* mylite_reset of it has failed.                                           *)
(***************************************************************************)
StmtType ==
  [live : BOOLEAN, select : BOOLEAN, executed : BOOLEAN, has_result : BOOLEAN,
   has_row : BOOLEAN, left : Nat, disturbed : BOOLEAN, broken : BOOLEAN]
NewStatement ==
  [live |-> FALSE, select |-> FALSE, executed |-> FALSE, has_result |-> FALSE, has_row |-> FALSE,
   left |-> 0, disturbed |-> FALSE, broken |-> FALSE]

(* mylite_open. *)
OpenConnection ==
  [lib |-> FreshMysql, my |-> [s \in Stmts |-> NewStatement],
   errcode |-> FALSE, changes |-> 0, last_insert_id |-> 0]

(* What a call did; ran: the server ran a statement for it, and it succeeded. *)
Result(c, rc, ran) == [conn |-> c, rc |-> rc, ran |-> ran]
CountIn(reply) == IF reply # <<>> /\ reply[1].kind = "ok" THEN reply[1].n ELSE NoCount
SetOk(c) == [c EXCEPT !.errcode = FALSE]
Failure(c, lib) == [c EXCEPT !.lib = lib, !.errcode = TRUE]
Live(c) == {s \in Stmts : c.my[s].live}
CountOf(affected) == IF affected = NoCount THEN 0 ELSE affected

(* Result r of a call for s (or for no statement) made in c: the statements  *)
(* whose unread rows it threw away are marked.                               *)
Observe(c, s, r) ==
  LET lost(t) == t # s /\ c.my[t].left > 0 /\ c.lib.cur # <<>> /\ r.conn.lib.cur = <<>>
  IN [r EXCEPT !.conn.my = [t \in Stmts |->
        [@[t] EXCEPT !.disturbed = r.conn.my[t].disturbed \/ lost(t)]]]
-----------------------------------------------------------------------------
(* release_statement_results. *)
ReleaseStatementResults(c, s) ==
  [c EXCEPT !.lib = IF c.my[s].has_result THEN FreeResult(@, s, TRUE) ELSE @,
            !.my[s] = [@ EXCEPT !.has_result = FALSE, !.has_row = FALSE,
                                !.left = 0, !.disturbed = FALSE]]

(* fetch_statement_row and drain_remaining_statement_results: a prepared     *)
(* statement has one result set, so one turn of the loop ends it.            *)
FetchStatementRow(c, s, ran) ==
  LET fetch == StmtFetch(c.lib, s)
      drain == StmtNextResult(fetch.lib, s)
      over == [c EXCEPT !.my[s].has_row = FALSE]
  IN CASE fetch.rc = "row" ->
            Result([c EXCEPT !.lib = fetch.lib,
                             !.my[s] = [@ EXCEPT !.has_row = TRUE, !.left = c.my[s].left - 1]],
                   "ROW", ran)
       [] fetch.rc = "error" -> Result(Failure(c, fetch.lib), "ERROR", ran)
       [] fetch.rc = "end" ->
            IF drain.rc = "error" THEN Result(Failure(over, drain.lib), "ERROR", ran)
            ELSE Result([over EXCEPT !.lib = drain.lib, !.my[s].has_result = FALSE], "DONE", ran)

(* Mutant: executed is only set for a statement without rows. *)
ExecuteStatementForgets(c, s, reply) ==
  LET released == ReleaseStatementResults(SetOk(c), s)
      exec == StmtExecute(released.lib, s, reply)
      done == [released EXCEPT !.lib = exec.lib, !.my[s].has_result = exec.lib.stmt[s].columns]
  IN IF exec.rc = "error" THEN Result(Failure(released, exec.lib), "ERROR", FALSE)
     ELSE IF done.my[s].has_result THEN FetchStatementRow(done, s, Succeeds(reply))
     ELSE Result([done EXCEPT !.my[s].executed = TRUE], "DONE", Succeeds(reply))

(* mylite_step, when the statement has to be executed. *)
ExecuteStatement(c, s, reply) ==
  LET released == ReleaseStatementResults(SetOk(c), s)
      ran == Ready(FreeResult(released.lib, s, TRUE)) /\ Succeeds(reply)
      setup == [released EXCEPT
                  !.my[s] = [@ EXCEPT
                     !.has_result = released.lib.stmt[s].columns,
                     !.left = IF ran /\ HasColumns(reply[1]) THEN reply[1].n ELSE 0]]
      exec == StmtExecute(setup.lib, s, reply)
      done == [setup EXCEPT !.lib = exec.lib, !.changes = 0,
                            !.last_insert_id = exec.lib.insert_id,
                            !.my[s] = [@ EXCEPT
                               !.executed = TRUE,
                               !.has_result = setup.my[s].has_result \/ exec.lib.stmt[s].columns]]
  IN IF exec.rc = "error" THEN Result(Failure(setup, exec.lib), "ERROR", ran)
     ELSE IF done.my[s].has_result THEN FetchStatementRow(done, s, ran)
     ELSE Result([done EXCEPT !.changes = CountOf(exec.lib.affected)], "DONE", ran)

MyliteStep(c, s, reply) ==
  IF ~c.my[s].executed THEN Observe(c, s, ExecuteStatement(c, s, reply))
  ELSE IF c.my[s].has_result THEN FetchStatementRow(SetOk(c), s, FALSE)
  ELSE Result(SetOk(c), "DONE", FALSE)

MyliteReset(c, s) ==
  LET released == ReleaseStatementResults(SetOk(c), s)
      reset == StmtReset(released.lib, s)
      done == [released EXCEPT !.lib = reset.lib, !.my[s].executed = FALSE]
  IN Observe(c, s,
       IF reset.rc = "ok" THEN Result(done, "OK", FALSE)
       ELSE Result([Failure(released, reset.lib) EXCEPT !.my[s].broken = TRUE], "ERROR", FALSE))

(* Mutant: the diagnostics of the handle are cleared. *)
MyliteFinalizeClears(c, s) ==
  LET released == ReleaseStatementResults(SetOk(c), s)
  IN Result([released EXCEPT !.lib = StmtClose(released.lib, s).lib, !.my[s] = NewStatement],
            "OK", FALSE)

(* What mysql_stmt_close returns is ignored. *)
MyliteFinalize(c, s) ==
  LET released == ReleaseStatementResults(c, s)
  IN Observe(c, s, Result([released EXCEPT !.lib = StmtClose(released.lib, s).lib,
                                           !.my[s] = NewStatement], "OK", FALSE))

MylitePrepare(c, s, reply) ==
  LET prepared == StmtPrepare(c.lib, s, reply)
  IN Observe(c, s,
       IF prepared.rc = "error" THEN Result(Failure(c, prepared.lib), "ERROR", FALSE)
       ELSE Result([SetOk(c) EXCEPT
                      !.lib = prepared.lib,
                      !.my[s] = [@ EXCEPT !.live = TRUE, !.select = reply # <<>>]], "OK", FALSE))

(* mylite_warning: SHOW WARNINGS LIMIT i, 1 on the same connection, which    *)
(* leaves the warnings the server holds as they are.                         *)
MyliteWarning(c, i) ==
  LET found == i < c.lib.stored
      shown == Query(c.lib, <<Dataset("rows", IF found THEN 1 ELSE 0, 0, FALSE)>>)
      read == [StoreResult(shown.lib).lib EXCEPT !.stored = c.lib.stored, !.asked = TRUE]
  IN IF i >= c.lib.warnings THEN Result(c, "NOTFOUND", FALSE)
     ELSE Observe(c, None,
            IF shown.rc = "error" THEN Result(Failure(c, shown.lib), "ERROR", FALSE)
            ELSE IF found THEN Result([SetOk(c) EXCEPT !.lib = read], "OK", FALSE)
            ELSE Result([c EXCEPT !.lib = read], "NOTFOUND", FALSE))
-----------------------------------------------------------------------------
(* drain_remaining_query_results, one turn of its loop at a time. *)
DrainTurn(prev) ==
  LET next == NextResult(prev.lib)
      read == StoreResult(next.lib)
  IN IF prev.rc # "ok" THEN prev
     ELSE IF next.rc # "ok" THEN next
     ELSE Returns(read.lib, IF read.rc = "error" THEN "error" ELSE "ok")

DrainRemainingQueryResults(m) ==
  LET after[i \in 0..Len(m.first) + 1] ==
        IF i = 0 THEN Returns(m, "ok") ELSE DrainTurn(after[i - 1])
  IN after[Len(m.first) + 1]

(* Mutants: the result of the drain is ignored; the counts are read after it. *)
FinishExecIgnoresDrain(c, f) ==
  Result([c EXCEPT !.lib = DrainRemainingQueryResults(c.lib).lib,
                   !.changes = IF f.has_result THEN 0 ELSE CountOf(f.affected),
                   !.last_insert_id = f.insert_id], "OK", f.ran)
FinishExecCountsLate(c, f) ==
  LET drain == DrainRemainingQueryResults(c.lib)
  IN IF drain.rc = "error" THEN Result(Failure(c, drain.lib), "ERROR", f.ran)
     ELSE Result([c EXCEPT !.lib = drain.lib,
                           !.changes = IF f.has_result THEN 0 ELSE CountOf(drain.lib.affected),
                           !.last_insert_id = drain.lib.insert_id], "OK", f.ran)

(* The end of exec_impl: f is the frame of the call, with what it read       *)
(* before it emitted the rows.                                               *)
FinishExec(c, f) ==
  LET drain == DrainRemainingQueryResults(c.lib)
  IN IF drain.rc = "error" THEN Result(Failure(c, drain.lib), "ERROR", f.ran)
     ELSE Result([c EXCEPT !.lib = drain.lib,
                           !.changes = IF f.has_result THEN 0 ELSE CountOf(f.affected),
                           !.last_insert_id = f.insert_id], "OK", f.ran)

Frame(lib, reply, n) ==
  [rows |-> n, has_result |-> HasColumns(reply[1]), affected |-> lib.affected,
   insert_id |-> lib.insert_id, ran |-> Succeeds(reply), call |-> Len(reply) > 1]

(* mylite_exec up to the first row; the policy may refuse the SQL. *)
ExecQuery(c, reply) == Query(SetOk(c).lib, reply)

ExecWithoutRows(c, reply) ==
  LET query == ExecQuery(c, reply)
      read == StoreResult(query.lib)
      ran == Ready(c.lib) /\ Succeeds(reply)
  IN IF query.rc = "error" THEN Result(Failure(c, query.lib), "ERROR", ran)
     ELSE IF read.rc = "error" THEN Result(Failure(c, read.lib), "ERROR", ran)
     ELSE FinishExec([SetOk(c) EXCEPT !.lib = read.lib], Frame(query.lib, reply, 0))
-----------------------------------------------------------------------------
(* mylite_close: refused while statements are active. *)
MyliteClose(c) ==
  IF Live(c) # {} THEN Result([c EXCEPT !.errcode = TRUE], "BUSY", FALSE)
  ELSE Result(c, "OK", FALSE)
=============================================================================
