--------------------------- MODULE ClientLibrary ---------------------------
(***************************************************************************)
(* The MariaDB client library that libmylite is linked with (libmysqld/     *)
(* libmysql.c, sql-common/client.c) over the embedded transport             *)
(* (libmysqld/lib_sql.cc): the MYSQL handle of one connection and the       *)
(* MYSQL_STMT handles of the statements prepared on it.                     *)
(*                                                                          *)
(* The handles are a record, and every library function is an operator from *)
(* the handles before the call to the handles after it and what the call    *)
(* returned.  The server is an input: the sequence of result sets it        *)
(* replies with.  Rows are counted, not represented.                        *)
(***************************************************************************)
EXTENDS Integers, Sequences

CONSTANTS
  Stmts,   \* the statement handles a program may have at a time
  None     \* a null pointer

ASSUME LibraryAssumption == None \notin Stmts

(* A MYSQL_DATA with its embedded_info.  "bad" is a result set whose         *)
(* production failed: it has columns, and an error instead of an end.        *)
Dataset(kind, n, warns, more) == [kind |-> kind, n |-> n, warns |-> warns, more |-> more]
HasColumns(d) == d.kind \in {"rows", "bad"}
Warns(reply) == IF reply = <<>> THEN 0 ELSE reply[Len(reply)].warns

(* affected_rows between the sending of a command and its OK packet. *)
NoCount == -1

(* mysql_stmt_init. *)
FreshStmt ==
  [state |-> "INIT", read |-> "no_result_set", cancelled |-> FALSE,
   columns |-> FALSE, error |-> FALSE]

(* The handle after mysql_real_connect.  first is the queue first_data and   *)
(* cur, with at most one member, the result set cur_data being read; stored   *)
(* is the server's: how many warnings it holds, and asked whether SHOW       *)
(* WARNINGS has been asked for them.                                         *)
FreshMysql ==
  [status |-> "READY", first |-> <<>>, cur |-> <<>>, more |-> FALSE,
   owner |-> None, columns |-> FALSE, affected |-> 0, insert_id |-> 0,
   warnings |-> 0, stored |-> 0, asked |-> FALSE, stmt |-> [s \in Stmts |-> FreshStmt], null |-> FALSE]

Returns(m, rc) == [lib |-> m, rc |-> rc]
Ready(m) == m.status = "READY"
Executed(m, s) == m.stmt[s].state \in {"EXECUTE", "FETCH"}
DisownForgotten(m, s) == m   \* mutant: the owner is not cleared

Disown(m, s) == IF m.owner = s THEN [m EXCEPT !.owner = None] ELSE m
-----------------------------------------------------------------------------
(***************************************************************************)
(* emb_advanced_command: what the last command left unread is thrown away   *)
(* first, and only then is the command refused if the program is not        *)
(* through with the last one.                                               *)
(***************************************************************************)
Command(m, reply) ==
  IF Ready(m)
  THEN Returns([m EXCEPT !.first = reply, !.cur = <<>>, !.affected = NoCount,
                         !.columns = FALSE, !.warnings = 0,
                         !.stored = Warns(reply), !.asked = FALSE], "ok")
  ELSE Returns([m EXCEPT !.first = <<>>, !.cur = <<>>], "error")

(* emb_read_query_result; it follows first_data without looking. *)
ReadQueryResult(m) ==
  IF m.first = <<>>
  THEN Returns([m EXCEPT !.null = TRUE], "error")
  ELSE LET d == Head(m.first)
           next == [m EXCEPT !.first = Tail(@), !.more = d.more]
       IN CASE d.kind = "error" -> Returns(next, "error")
            [] d.kind = "ok" ->
                 Returns([next EXCEPT !.warnings = d.warns, !.columns = FALSE,
                                      !.affected = d.n, !.insert_id = d.n], "ok")
            [] HasColumns(d) ->
                 Returns([next EXCEPT !.warnings = d.warns, !.columns = TRUE,
                                      !.status = "GET_RESULT", !.cur = <<d>>], "ok")

(* emb_flush_use_result. *)
FlushUseResult(m) ==
  IF m.cur # <<>> THEN [m EXCEPT !.cur = <<>>]
  ELSE IF m.first # <<>> THEN [m EXCEPT !.first = Tail(@)] ELSE m

(* mysql_real_query. *)
Query(m, reply) ==
  LET sent == Command(m, reply)
  IN IF sent.rc = "error" THEN sent ELSE ReadQueryResult(sent.lib)

(* mysql_store_result: "none" when the last result has no columns. *)
StoreResult(m) ==
  IF m.status # "GET_RESULT" THEN Returns(m, "none")
  ELSE LET d == m.cur[1]
           read == [m EXCEPT !.status = "READY", !.cur = <<>>]
       IN IF d.kind = "bad"
          THEN Returns([read EXCEPT !.more = d.more], "error")
          ELSE Returns([read EXCEPT !.affected = d.n, !.owner = None], "ok")

(* Mutants: the warning count is cleared; server_status is not looked at. *)
NextResultClears(m) ==
  IF ~Ready(m) THEN Returns(m, "error")
  ELSE LET cleared == [m EXCEPT !.affected = NoCount, !.warnings = 0]
       IN IF m.more THEN ReadQueryResult(cleared) ELSE Returns(cleared, "end")
NextResultBlind(m) ==
  IF ~Ready(m) THEN Returns(m, "error") ELSE ReadQueryResult([m EXCEPT !.affected = NoCount])

(* mysql_next_result. *)
NextResult(m) ==
  IF ~Ready(m) THEN Returns(m, "error")
  ELSE LET cleared == [m EXCEPT !.affected = NoCount]
       IN IF m.more THEN ReadQueryResult(cleared) ELSE Returns(cleared, "end")
-----------------------------------------------------------------------------
SetError(m, s) == [m EXCEPT !.stmt[s].error = TRUE]

(***************************************************************************)
(* reset_stmt_handle, as far as it does not talk to the server.  A result   *)
(* set that is still being read is taken for this statement's own; if       *)
(* another statement is registered as its reader, that one is told.         *)
(***************************************************************************)
ResetClientSide(m, s) ==
  LET gone == [m EXCEPT !.stmt[s].read = "no_result_set"]
      mine == Disown(gone, s)
      flushed == [FlushUseResult(mine) EXCEPT !.status = "READY"]
  IN IF ~Executed(m, s) THEN gone
     ELSE IF ~m.stmt[s].columns \/ Ready(m) THEN mine
     ELSE IF mine.owner = None THEN flushed
     ELSE [flushed EXCEPT !.stmt[mine.owner].cancelled = TRUE]

(* Mutant: RESET_CLEAR_ERROR is ignored. *)
FreeResultKeepsError(m, s, clear) ==
  IF m.stmt[s].state = "INIT" THEN m
  ELSE [ResetClientSide(m, s) EXCEPT !.stmt[s].state = "PREPARE"]

(* mysql_stmt_free_result, and reset_stmt_handle without the server. *)
FreeResult(m, s, clear) ==
  IF m.stmt[s].state = "INIT" THEN m
  ELSE [ResetClientSide(m, s) EXCEPT
          !.stmt[s] = [@ EXCEPT !.state = "PREPARE", !.error = m.stmt[s].error /\ ~clear]]

(* Mutant: the statement is not registered as the reader of its rows. *)
PrepareToFetchUnowned(m, s) ==
  [m EXCEPT !.stmt[s].columns = TRUE, !.stmt[s].read = "unbuffered",
            !.status = "STATEMENT_GET_RESULT"]

(* prepare_to_fetch_result without a cursor: rows are read as they are asked for. *)
PrepareToFetch(m, s) ==
  [m EXCEPT !.owner = s, !.status = "STATEMENT_GET_RESULT",
            !.stmt[s] = [@ EXCEPT !.cancelled = FALSE, !.columns = TRUE,
                                  !.read = "unbuffered"]]

(* mysql_stmt_next_result. *)
StmtNextResult(m, s) ==
  IF m.stmt[s].error THEN Returns(m, "error")
  ELSE LET next == NextResult(IF m.more THEN FreeResult(m, s, FALSE) ELSE m)
           got == [next.lib EXCEPT
                     !.stmt[s] = [@ EXCEPT !.state = "EXECUTE", !.columns = next.lib.columns]]
       IN CASE next.rc = "error" -> Returns(SetError(next.lib, s), "error")
            [] next.rc = "end" -> next
            [] next.rc = "ok" ->
                 Returns(IF got.columns THEN PrepareToFetch(got, s) ELSE got, "ok")

(* The loop of RESET_ALL_BUFFERS, which reads every result set there is. *)
ReadAllTurn(prev, s) ==
  IF prev.rc = "ok" /\ prev.lib.more THEN StmtNextResult(prev.lib, s) ELSE prev

ReadAllResults(m, s) ==
  LET after[i \in 0..Len(m.first) + 1] ==
        IF i = 0 THEN Returns(m, "ok") ELSE ReadAllTurn(after[i - 1], s)
  IN after[Len(m.first) + 1].lib

ResetAllBuffers(m, s) ==
  IF Executed(m, s) THEN ReadAllResults(ResetClientSide(m, s), s)
  ELSE ResetClientSide(m, s)
-----------------------------------------------------------------------------
(* mysql_stmt_prepare on a new handle: a statement without columns is        *)
(* answered without a result set.                                            *)
StmtPrepare(m, s, reply) ==
  LET sent == Command([m EXCEPT !.stmt[s] = FreshStmt], reply)
      got  == IF reply = <<>> THEN sent ELSE ReadQueryResult(sent.lib)
  IN IF sent.rc = "error" THEN sent
     ELSE IF got.rc = "error" THEN got
     ELSE Returns([got.lib EXCEPT
                     !.status = "READY", !.cur = <<>>,
                     !.stmt[s] = [@ EXCEPT !.state = "PREPARE", !.columns = reply # <<>>]], "ok")

(***************************************************************************)
(* mysql_stmt_execute.  The error it returns at the end is the statement's  *)
(* last one, which a handle that was set back to MYSQL_STMT_INIT_DONE still *)
(* has from before.                                                         *)
(***************************************************************************)
StmtExecute(m, s, reply) ==
  LET got == Query(FreeResult(m, s, TRUE), reply)
      done == [got.lib EXCEPT !.stmt[s].state = "EXECUTE"]
  IN IF got.rc = "error" THEN Returns(SetError(got.lib, s), "error")
     ELSE Returns(IF done.columns THEN PrepareToFetch(done, s) ELSE done,
                  IF done.stmt[s].error THEN "error" ELSE "ok")

(* Mutants: the row is not advanced; the last row is taken for the end; the *)
(* connection stays busy after an error.                                     *)
ReadRowAgain(m, s) ==
  IF m.status = "STATEMENT_GET_RESULT" /\ m.cur # <<>> /\ m.cur[1].n > 0
  THEN Returns(m, "row")
  ELSE Returns(Disown([m EXCEPT !.status = "READY", !.cur = <<>>], s), "end")
ReadRowStopsEarly(m, s) ==
  IF m.status = "STATEMENT_GET_RESULT" /\ m.cur # <<>> /\ m.cur[1].n > 1
  THEN Returns([m EXCEPT !.cur[1].n = @ - 1], "row")
  ELSE Returns(Disown([m EXCEPT !.status = "READY", !.cur = <<>>], s), "end")
ReadRowStaysBusy(m, s) ==
  LET ended == Disown([m EXCEPT !.cur = <<>>], s)
  IN IF m.cur # <<>> /\ m.cur[1].kind = "bad" THEN Returns(SetError(ended, s), "error")
     ELSE IF m.cur = <<>> \/ m.cur[1].n = 0 THEN Returns([ended EXCEPT !.status = "READY"], "end")
     ELSE Returns([m EXCEPT !.cur[1].n = @ - 1], "row")

(* stmt_read_row_unbuffered and emb_unbuffered_fetch. *)
ReadRowUnbuffered(m, s) ==
  LET ended == Disown([m EXCEPT !.status = "READY", !.cur = <<>>], s)
  IN IF m.status # "STATEMENT_GET_RESULT" THEN Returns(SetError(Disown(m, s), s), "error")
     ELSE IF m.cur = <<>> THEN Returns(ended, "end")
     ELSE IF m.cur[1].kind = "bad"
          THEN Returns(SetError([ended EXCEPT !.more = m.cur[1].more], s), "error")
     ELSE IF m.cur[1].n = 0 THEN Returns(ended, "end")
     ELSE Returns([m EXCEPT !.cur = <<[@[1] EXCEPT !.n = m.cur[1].n - 1]>>], "row")

(* mysql_stmt_fetch. *)
StmtFetch(m, s) ==
  LET read == CASE m.stmt[s].read = "unbuffered" -> ReadRowUnbuffered(m, s)
                [] m.stmt[s].read = "no_data" -> Returns(m, "end")
                [] m.stmt[s].read = "no_result_set" -> Returns(SetError(m, s), "error")
      at(state, next) == [read.lib EXCEPT !.stmt[s] = [@ EXCEPT !.state = state, !.read = next]]
  IN CASE read.rc = "row" -> Returns(at("FETCH", m.stmt[s].read), "row")
       [] read.rc = "end" -> Returns(at("PREPARE", "no_data"), "end")
       [] read.rc = "error" -> Returns(at("PREPARE", "no_result_set"), "error")

(* mysql_stmt_reset.  The OK packet of COM_STMT_RESET stays in the queue. *)
StmtReset(m, s) ==
  LET sent == Command(ResetAllBuffers(m, s), <<Dataset("ok", 0, 0, FALSE)>>)
  IN IF m.stmt[s].state = "INIT" THEN Returns(m, "ok")
     ELSE IF sent.rc = "error"
     THEN Returns([sent.lib EXCEPT !.stmt[s] = [@ EXCEPT !.error = TRUE, !.state = "INIT"]],
                  "error")
     ELSE Returns([sent.lib EXCEPT !.stmt[s] = [@ EXCEPT !.error = FALSE, !.state = "PREPARE"]],
                  "ok")

(* mysql_stmt_close; COM_STMT_CLOSE has no answer. *)
StmtClose(m, s) ==
  LET sent == IF m.stmt[s].state = "INIT" THEN Returns(m, "ok")
              ELSE Command(ResetAllBuffers(m, s), <<>>)
  IN Returns([sent.lib EXCEPT !.stmt[s] = FreshStmt], sent.rc)
=============================================================================
