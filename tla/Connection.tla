----------------------------- MODULE Connection -----------------------------
(***************************************************************************)
(* A C program that uses one mylite_db handle and all the statements        *)
(* prepared on it.  PreparedStatement looks at one statement and its        *)
(* buffers; this module looks at what the calls on a handle do to each      *)
(* other.                                                                   *)
(*                                                                          *)
(* A handle is used by one thread, so a call is one step, except that the   *)
(* callback of mylite_exec may itself call the library on the same handle.  *)
(***************************************************************************)
EXTENDS ConnectionCalls

CONSTANTS
  MaxDepth,     \* calls of mylite_exec inside each other
  ReentrantCall \* does the callback of a CALL use the handle?

ASSUME ConnectionAssumption == MaxDepth \in Nat \ {0} /\ ReentrantCall \in BOOLEAN

VARIABLES
  conn,    \* the mylite_db, its mylite_stmts and the library's handles
  stack,   \* the mylite_exec calls that are in their callback
  last     \* the last call that returned, and what it returned

vars == <<conn, stack, last>>
-----------------------------------------------------------------------------
Init ==
  /\ conn = OpenConnection
  /\ stack = <<>>
  /\ last = [call |-> "open", stmt |-> None, rc |-> "OK", ran |-> FALSE, count |-> NoCount]

Top == stack[Len(stack)]
Running == ~conn.lib.null
(* The calls that are left when the innermost mylite_exec returns. *)
Callers == SubSeq(stack, 1, Len(stack) - 1)
MayCall == Running /\ (stack # <<>> /\ ~ReentrantCall => ~Top.call)

Return(call, s, r, reply) ==
  /\ conn' = r.conn
  /\ last' = [call |-> call, stmt |-> s, rc |-> r.rc, ran |-> r.ran, count |-> CountIn(reply)]

Prepare(s) ==
  /\ MayCall /\ ~conn.my[s].live
  /\ \E reply \in {<<>>, <<Dataset("rows", 0, 0, FALSE)>>} \cup ErrorReply :
       Return("prepare", s, MylitePrepare(conn, s, reply), <<>>)
  /\ UNCHANGED stack

(* The policy, or the rule against a prepared CALL, refuses the SQL. *)
RefuseSql ==
  /\ MayCall
  /\ Return("refuse", None, Result(Failure(conn, conn.lib), "ERROR", FALSE), <<>>)
  /\ UNCHANGED stack

(* The first step of an execution: the server replies. *)
StepExecutes(s) ==
  /\ MayCall /\ conn.my[s].live /\ ~conn.my[s].executed
  /\ \E reply \in ErrorReply \cup (IF conn.my[s].select THEN RowsReply \cup BadReply ELSE OkReply) :
       Return("step", s, MyliteStep(conn, s, reply), reply)
  /\ UNCHANGED stack

StepFetches(s) ==
  /\ MayCall /\ conn.my[s].live /\ conn.my[s].executed
  /\ Return("step", s, MyliteStep(conn, s, <<>>), <<>>)
  /\ UNCHANGED stack

Reset(s) ==
  /\ MayCall /\ conn.my[s].live
  /\ Return("reset", s, MyliteReset(conn, s), <<>>)
  /\ UNCHANGED stack

Finalize(s) ==
  /\ MayCall /\ conn.my[s].live
  /\ Return("finalize", s, MyliteFinalize(conn, s), <<>>)
  /\ UNCHANGED stack

Warning ==
  /\ MayCall
  /\ \E i \in Warnings \cup {0} : Return("warning", None, MyliteWarning(conn, i), <<>>)
  /\ UNCHANGED stack

(* mylite_exec that has no row to hand to a callback. *)
Exec ==
  /\ MayCall
  /\ \E reply \in OkReply \cup RowsReply \cup BadReply \cup ErrorReply \cup CallReply :
       Return("exec", None, Observe(conn, None, ExecWithoutRows(conn, reply)), reply)
  /\ UNCHANGED stack

(* mylite_exec reads its rows and calls the callback for the first one. *)
ExecCallsBack ==
  /\ MayCall /\ Len(stack) < MaxDepth /\ Ready(conn.lib)
  /\ \E reply \in RowsReply \cup CallReply :
       LET query == Query(conn.lib, reply)
           stored == [SetOk(conn) EXCEPT !.lib = StoreResult(query.lib).lib]
       IN /\ reply[1].n > 0
          /\ conn' = Observe(conn, None, Result(stored, "OK", TRUE)).conn
          /\ stack' = Append(stack, Frame(query.lib, reply, reply[1].n))
  /\ UNCHANGED last

(* The callback returns 0, and there is another row. *)
CallbackNextRow ==
  /\ Running /\ stack # <<>> /\ Top.rows > 1
  /\ stack' = [stack EXCEPT ![Len(stack)].rows = @ - 1]
  /\ UNCHANGED <<conn, last>>

CallbackLastRow ==
  /\ Running /\ stack # <<>> /\ Top.rows = 1
  /\ Return("exec", None, FinishExec(conn, Top), <<>>)
  /\ stack' = Callers

(* The callback asks to stop: what is left of the results is thrown away. *)
CallbackAborts ==
  /\ Running /\ stack # <<>>
  /\ LET drain == DrainRemainingQueryResults(conn.lib)
     IN Return("abort", None, Result(Failure(conn, drain.lib), "ERROR", Top.ran), <<>>)
  /\ stack' = Callers

Next ==
  \/ \E s \in Stmts : Prepare(s) \/ StepExecutes(s) \/ StepFetches(s) \/ Reset(s) \/ Finalize(s)
  \/ RefuseSql \/ Warning \/ Exec \/ ExecCallsBack
  \/ CallbackNextRow \/ CallbackLastRow \/ CallbackAborts

Spec == Init /\ [][Next]_vars
-----------------------------------------------------------------------------
(* Every statement and every call has its type; no more rows are delivered   *)
(* than the server produced.                                                 *)
TypeOK ==
  /\ conn.my \in [Stmts -> StmtType]
  /\ conn.lib.status \in {"READY", "STATEMENT_GET_RESULT"}
  /\ conn.lib.owner \in Stmts \cup {None}
  /\ conn.changes \in Counts \cup {0} /\ conn.last_insert_id \in Counts \cup {0}
  /\ Len(stack) <= MaxDepth

(***************************************************************************)
(* MYLITE_DONE comes before a row was delivered only if a call for another  *)
(* statement, or for none, threw rows away: no sequence of steps, resets,   *)
(* errors and executions of the statement itself loses a row.               *)
(***************************************************************************)
RowsLostOnlyToOthers ==
  last.call = "step" /\ last.rc = "DONE" /\ conn.my[last.stmt].left > 0 =>
    conn.my[last.stmt].disturbed

(***************************************************************************)
(* mysql->unbuffered_fetch_owner points into a statement that is still      *)
(* prepared and has rows to read: mysql_stmt_close never leaves it pointing *)
(* to freed memory, however steps failed before.                            *)
(***************************************************************************)
OwnerIsReading ==
  LET o == conn.lib.owner
  IN o # None => conn.my[o].live /\ conn.my[o].has_result /\ Executed(conn.lib, o)

(***************************************************************************)
(* "There is a result set and it belongs to this statement": when           *)
(* reset_stmt_handle would flush the result set being read, it is the       *)
(* statement's own, so no statement's fetch is ever cancelled by another.   *)
(***************************************************************************)
FlushedRowsAreOwn ==
  \A s \in Stmts :
    /\ Executed(conn.lib, s) /\ conn.lib.stmt[s].columns /\ ~Ready(conn.lib) =>
         conn.lib.owner = s
    /\ ~conn.lib.stmt[s].cancelled

(***************************************************************************)
(* The connection refuses commands only while some statement is reading     *)
(* rows, and resetting or finalizing that statement makes it ready again:   *)
(* no failure leaves the handle out of sync for good.                       *)
(***************************************************************************)
CanBeMadeReady ==
  ~Ready(conn.lib) =>
    \E s \in Live(conn) : Ready(MyliteReset(conn, s).conn.lib)
                         /\ Ready(MyliteFinalize(conn, s).conn.lib)

(***************************************************************************)
(* mylite_exec returns MYLITE_OK only if every result of the statement was  *)
(* a success, and an error for a statement that succeeded only if its       *)
(* callback has left another statement with rows to read.                   *)
(***************************************************************************)
ExecReportsOutcome ==
  last.call = "exec" =>
    /\ last.rc = "OK" => last.ran
    /\ last.rc = "ERROR" /\ last.ran => ~Ready(conn.lib)

(***************************************************************************)
(* After a statement without rows, mylite_changes and mylite_last_insert_id *)
(* are that statement's, although the results that follow are drained       *)
(* before they are published.                                               *)
(***************************************************************************)
CountsAreTheStatements ==
  last.count # NoCount /\ last.rc \in {"OK", "DONE"} =>
    conn.changes = last.count /\ conn.last_insert_id = last.count

(* No library call follows a null pointer for the next result. *)
NoNullPointer == Running

(***************************************************************************)
(* Until mylite_warning is called, the warning count of the client library, *)
(* by which it goes, is the number of warnings the server holds: no drain,  *)
(* fetch, refused call or failed statement makes them differ.               *)
(***************************************************************************)
WarningsAreCounted == ~conn.lib.asked => conn.lib.warnings = conn.lib.stored

(***************************************************************************)
(* A step that returns an error has not run the statement with success,     *)
(* unless a mylite_reset of the statement had failed before.                *)
(***************************************************************************)
ErrorMeansNotRun ==
  [][last'.call = "step" /\ last'.rc = "ERROR" /\ last'.ran => conn.my[last'.stmt].broken]_vars

(***************************************************************************)
(* "MYLITE_DONE: execution is complete": every row of the result set was    *)
(* delivered.                                                               *)
(***************************************************************************)
DoneMeansComplete ==
  last.call = "step" /\ last.rc = "DONE" => conn.my[last.stmt].left = 0

(***************************************************************************)
(* "Any other result code: execution failed": after an error, the statement *)
(* has not run.                                                             *)
(***************************************************************************)
ErrorMeansFailed == last.call = "step" /\ last.rc = "ERROR" => ~last.ran

=============================================================================
