----------------------- MODULE ConnectionCallsProofs ------------------------
(***************************************************************************)
(* What the calls of the client library promise: LibInv, the state of its   *)
(* handles between two calls, and for every call a lemma that says what it  *)
(* returns and that it keeps LibInv.  The lemmas say it with predicates over*)
(* the state before and the state after (Sent, Refused, Leaves, ...), so    *)
(* that a caller's proof never opens the definition of the call.            *)
(*                                                                          *)
(* Then the same for the calls of libmylite: ConnOK, the state of a         *)
(* connection between two calls, and for every call a lemma that it keeps   *)
(* ConnOK and returns what the properties of Connection and of              *)
(* PhpExtensions need.                                                      *)
(***************************************************************************)
EXTENDS ConnectionCalls, WellFoundedInduction, TLAPS

(* Leaves that name no prover are left to Zenon. *)
USE Zenon

LibFields ==
  {"status", "first", "cur", "more", "owner", "columns", "affected", "insert_id",
   "warnings", "stored", "asked", "stmt", "null"}
StmtFields == {"state", "read", "cancelled", "columns", "error"}

(* A MYSQL handle with its MYSQL_STMT handles. *)
IsLib(m) ==
  /\ DOMAIN m = LibFields /\ DOMAIN m.stmt = Stmts
  /\ \A s \in Stmts : DOMAIN m.stmt[s] = StmtFields

Kinds == {"ok", "rows", "bad", "error"}
Datasets == [kind : Kinds, n : Nat, warns : Nat, more : BOOLEAN]

(* A result set that may be read row by row. *)
Readable(d) ==
  /\ d \in Datasets /\ HasColumns(d) /\ ~d.more
  /\ d.kind = "bad" => d.n = 0

(* A statement that reads rows, and no other, owns the unbuffered result. *)
HandleInv(m, s) ==
  /\ m.stmt[s].read \in {"no_result_set", "no_data", "unbuffered"}
  /\ ~m.stmt[s].cancelled /\ m.stmt[s].columns \in BOOLEAN
  /\ m.owner = s <=> Executed(m, s) /\ m.stmt[s].columns
  /\ m.owner = s <=> m.stmt[s].read = "unbuffered"

(* The handles between two calls. *)
LibInv(m) ==
  /\ IsLib(m) /\ ~m.null
  /\ m.first \in Seq(Datasets) /\ m.owner \in Stmts \cup {None}
  /\ m.status = IF m.owner = None THEN "READY" ELSE "STATEMENT_GET_RESULT"
  /\ \A s \in Stmts : HandleInv(m, s)
  /\ m.cur = <<>> \/ (m.owner # None /\ \E d : m.cur = <<d>> /\ Readable(d))
  /\ m.insert_id \in Counts \cup {0}
  /\ ~m.asked => m.warnings = m.stored

(* The fields that reading and releasing rows leaves alone. *)
SameAnswer(m, n) ==
  /\ n.columns = m.columns /\ n.affected = m.affected /\ n.insert_id = m.insert_id
  /\ n.warnings = m.warnings /\ n.stored = m.stored /\ n.asked = m.asked
  /\ n.null = m.null

OthersSame(m, n, s) == \A t \in Stmts \ {s} : n.stmt[t] = m.stmt[t]
-----------------------------------------------------------------------------
(* n is m after a command the server takes and answers with reply. *)
Sent(m, reply, n) ==
  /\ IsLib(n) /\ n.status = "READY" /\ n.first = reply /\ n.cur = <<>> /\ n.more = m.more
  /\ n.owner = m.owner /\ ~n.columns /\ n.affected = NoCount
  /\ n.insert_id = m.insert_id /\ n.warnings = 0 /\ n.stored = Warns(reply)
  /\ ~n.asked /\ n.stmt = m.stmt /\ n.null = m.null

(* mysql_send_query on a handle that is ready reaches the server. *)
LEMMA CommandReady ==
  ASSUME NEW m, IsLib(m), NEW reply, Ready(m)
  PROVE  Command(m, reply).rc = "ok" /\ Sent(m, reply, Command(m, reply).lib)
BY DEF Command, Returns, IsLib, LibFields, Ready, Sent

(* A refused command has thrown away what was unread. *)
Refused(m, n) ==
  /\ IsLib(n) /\ n.status = m.status /\ n.first = <<>> /\ n.cur = <<>> /\ n.more = m.more
  /\ n.owner = m.owner /\ n.stmt = m.stmt /\ SameAnswer(m, n)

(* On a handle that has rows to read it is refused, and the queue is emptied. *)
LEMMA CommandBusy ==
  ASSUME NEW m, IsLib(m), NEW reply, ~Ready(m)
  PROVE  Command(m, reply).rc = "error" /\ Refused(m, Command(m, reply).lib)
BY DEF Command, Returns, IsLib, LibFields, SameAnswer, Refused

(* The answer d at the head of the queue of m is read. *)
Read(m, d, r) ==
  LET n == r.lib IN
  /\ IsLib(n) /\ n.first = Tail(m.first) /\ n.more = d.more
  /\ n.owner = m.owner /\ n.stmt = m.stmt /\ n.null = m.null
  /\ n.stored = m.stored /\ n.asked = m.asked
  /\ r.rc = IF d.kind = "error" THEN "error" ELSE "ok"
  /\ n.status = IF HasColumns(d) THEN "GET_RESULT" ELSE m.status
  /\ n.cur = IF HasColumns(d) THEN <<d>> ELSE m.cur
  /\ d.kind # "error" => (n.columns <=> HasColumns(d))
  /\ n.warnings = IF d.kind = "error" THEN m.warnings ELSE d.warns
  /\ n.affected = IF d.kind = "ok" THEN d.n ELSE m.affected
  /\ n.insert_id = IF d.kind = "ok" THEN d.n ELSE m.insert_id

(* read_query_result takes the next answer off the queue. *)
LEMMA ReadIs ==
  ASSUME NEW m, IsLib(m), m.first # <<>>, Head(m.first).kind \in Kinds
  PROVE  Read(m, Head(m.first), ReadQueryResult(m))
<1> DEFINE d == Head(m.first)
<1> USE DEF ReadQueryResult, Returns, IsLib, LibFields, HasColumns, Read
<1>1. CASE d.kind = "error"
  BY <1>1
<1>2. CASE d.kind = "ok"
  BY <1>2
<1>3. CASE d.kind \in {"rows", "bad"}
  BY <1>3
<1> QED BY <1>1, <1>2, <1>3 DEF Kinds

(* mysql_real_query on a connection that is ready. *)
LEMMA QueryReady ==
  ASSUME NEW m, IsLib(m), Ready(m), NEW reply, reply # <<>>, Head(reply).kind \in Kinds
  PROVE  \E n : Sent(m, reply, n) /\ Read(n, Head(reply), Query(m, reply))
<1> DEFINE sent == Command(m, reply)
<1>1. sent.rc = "ok" /\ Sent(m, reply, sent.lib)
  BY CommandReady
<1>2. Query(m, reply) = ReadQueryResult(sent.lib)
  BY <1>1 DEF Query
<1>3. IsLib(sent.lib) /\ sent.lib.first = reply
  BY <1>1 DEF Sent
<1>4. Read(sent.lib, Head(reply), ReadQueryResult(sent.lib))
  BY <1>3, ReadIs
<1> QED BY <1>1, <1>2, <1>4

(* mysql_real_query is refused like any command. *)
LEMMA QueryBusy ==
  ASSUME NEW m, IsLib(m), ~Ready(m), NEW reply
  PROVE  Query(m, reply).rc = "error" /\ Refused(m, Query(m, reply).lib)
BY CommandBusy DEF Query

(* The result set d of m is stored. *)
Stored(m, d, r) ==
  LET n == r.lib IN
  /\ IsLib(n) /\ n.status = "READY" /\ n.cur = <<>> /\ n.first = m.first
  /\ n.stmt = m.stmt /\ n.null = m.null /\ n.columns = m.columns
  /\ n.insert_id = m.insert_id /\ n.warnings = m.warnings
  /\ n.stored = m.stored /\ n.asked = m.asked
  /\ r.rc = IF d.kind = "bad" THEN "error" ELSE "ok"
  /\ n.more = IF d.kind = "bad" THEN d.more ELSE m.more
  /\ n.owner = IF d.kind = "bad" THEN m.owner ELSE None
  /\ n.affected = IF d.kind = "bad" THEN m.affected ELSE d.n

(* mysql_store_result reads the rows a query has announced. *)
LEMMA StoreIs ==
  ASSUME NEW m, IsLib(m), m.status = "GET_RESULT", NEW d, m.cur = <<d>>
  PROVE  Stored(m, d, StoreResult(m))
<1>1. m.cur[1] = d
  BY SMT
<1> QED BY <1>1 DEF StoreResult, Returns, IsLib, LibFields, Stored

(* Without announced rows mysql_store_result changes nothing. *)
LEMMA StoreNothing ==
  ASSUME NEW m, m.status # "GET_RESULT"
  PROVE  StoreResult(m).rc = "none" /\ StoreResult(m).lib = m
BY DEF StoreResult, Returns

(* Nothing follows: mysql_next_result only forgets the count. *)
Forgets(m, n) ==
  /\ IsLib(n) /\ n.affected = NoCount /\ n.status = m.status /\ n.first = m.first
  /\ n.cur = m.cur /\ n.more = m.more /\ n.owner = m.owner /\ n.columns = m.columns
  /\ n.insert_id = m.insert_id /\ n.warnings = m.warnings /\ n.stored = m.stored
  /\ n.asked = m.asked /\ n.stmt = m.stmt /\ n.null = m.null

(* mysql_next_result after the last answer reports the end. *)
LEMMA NextNothing ==
  ASSUME NEW m, IsLib(m), Ready(m), ~m.more
  PROVE  NextResult(m).rc = "end" /\ Forgets(m, NextResult(m).lib)
BY DEF NextResult, Returns, IsLib, LibFields, Forgets

(* mysql_next_result on a handle with rows to read is an error. *)
LEMMA NextBusy ==
  ASSUME NEW m, ~Ready(m)
  PROVE  NextResult(m).rc = "error" /\ NextResult(m).lib = m
BY DEF NextResult, Returns

(* One answer in the reply. *)
LEMMA Single ==
  ASSUME NEW d
  PROVE  /\ <<d>> # <<>> /\ Head(<<d>>) = d /\ Tail(<<d>>) = <<>> /\ Len(<<d>>) = 1
         /\ <<d>>[1] = d /\ Warns(<<d>>) = d.warns /\ DOMAIN <<d>> = {1}
BY SMT DEF Warns
-----------------------------------------------------------------------------
(* The rows of s, and no others, are released; h is what becomes of its      *)
(* handle.                                                                   *)
Releases(m, s, h, n) ==
  /\ IsLib(n) /\ SameAnswer(m, n) /\ (n.more <=> m.more)
  /\ n.first \in {m.first, Tail(m.first)} /\ (m.first = <<>> => n.first = m.first)
  /\ OthersSame(m, n, s) /\ n.stmt[s] = h
  /\ n.owner = IF m.owner = s THEN None ELSE m.owner
  /\ n.status = IF m.owner = s THEN "READY" ELSE m.status
  /\ n.cur = IF m.owner = s THEN <<>> ELSE m.cur

(* The client side of reset_stmt_handle releases the rows of its statement only. *)
LEMMA ResetClientIs ==
  ASSUME NEW m, LibInv(m), NEW s \in Stmts
  PROVE  Releases(m, s, [m.stmt[s] EXCEPT !.read = "no_result_set"], ResetClientSide(m, s))
<1> DEFINE gone == [m EXCEPT !.stmt[s].read = "no_result_set"]
           h == [m.stmt[s] EXCEPT !.read = "no_result_set"]
<1>1. /\ IsLib(m) /\ (m.owner = s <=> Executed(m, s) /\ m.stmt[s].columns)
      /\ m.owner = s => ~Ready(m) /\ m.owner # None
  BY LibraryAssumption DEF LibInv, HandleInv, Ready
<1>2. /\ IsLib(gone) /\ SameAnswer(m, gone) /\ gone.more = m.more /\ gone.owner = m.owner
      /\ gone.status = m.status /\ gone.cur = m.cur /\ gone.first = m.first
      /\ OthersSame(m, gone, s)
      /\ gone.stmt[s] = h
  BY <1>1 DEF IsLib, LibFields, StmtFields, SameAnswer, OthersSame
<1> HIDE DEF gone, h
<1>3. CASE m.owner # s
  <2>1. ResetClientSide(m, s) = gone
    BY <1>1, <1>2, <1>3 DEF ResetClientSide, Disown, gone
  <2> QED BY <1>2, <1>3, <2>1 DEF Releases, h
<1>4. CASE m.owner = s
  <2> DEFINE mine == [gone EXCEPT !.owner = None]
             flushed == [FlushUseResult(mine) EXCEPT !.status = "READY"]
  <2>1. /\ IsLib(mine) /\ SameAnswer(m, mine) /\ mine.more = m.more /\ mine.owner = None
        /\ mine.cur = m.cur /\ mine.first = m.first /\ OthersSame(m, mine, s)
        /\ mine.stmt[s] = h
    BY <1>2 DEF IsLib, LibFields, SameAnswer, OthersSame
  <2>2. ResetClientSide(m, s) = flushed
    BY <1>1, <1>2, <1>4, <2>1 DEF ResetClientSide, Disown, gone
  <2> HIDE DEF mine
  <2>3. /\ IsLib(flushed) /\ SameAnswer(m, flushed) /\ flushed.more = m.more
        /\ flushed.owner = None /\ flushed.cur = <<>> /\ flushed.status = "READY"
        /\ flushed.first \in {m.first, Tail(m.first)}
        /\ m.first = <<>> => flushed.first = m.first
        /\ OthersSame(m, flushed, s) /\ flushed.stmt[s] = h
    BY <2>1 DEF FlushUseResult, IsLib, LibFields, SameAnswer, OthersSame
  <2> QED BY <1>4, <2>2, <2>3 DEF Releases, h
<1> QED BY <1>3, <1>4

(* The queue of answers stays a sequence of answers. *)
LEMMA Queues ==
  /\ <<>> \in Seq(Datasets)
  /\ \A d \in Datasets : <<d>> \in Seq(Datasets)
  /\ \A q \in Seq(Datasets) : Len(q) \in Nat /\ (q # <<>> => Tail(q) \in Seq(Datasets))
BY SMT

(* A handle that owns no rows. *)
Resting(h) ==
  /\ DOMAIN h = StmtFields /\ h.read \in {"no_result_set", "no_data"} /\ ~h.cancelled
  /\ h.columns \in BOOLEAN
  /\ h.state \in {"EXECUTE", "FETCH"} => ~h.columns

(* Releasing the rows of a statement keeps the handles consistent. *)
LEMMA ReleasesKeeps ==
  ASSUME NEW m, LibInv(m), NEW s \in Stmts, NEW h, Resting(h), NEW n, Releases(m, s, h, n)
  PROVE  LibInv(n) /\ n.owner # s /\ (n.more <=> m.more)
<1>1. n.owner # s /\ n.owner \in Stmts \cup {None} /\ (n.more <=> m.more) /\ n.stmt[s] = h
  BY LibraryAssumption DEF Releases, LibInv
<1>2. n.first \in Seq(Datasets)
  BY Queues DEF Releases, LibInv
<1>3. HandleInv(n, s)
  BY <1>1 DEF HandleInv, Resting, Executed
<1>4. ASSUME NEW t \in Stmts, t # s PROVE HandleInv(n, t)
  <2>1. HandleInv(m, t) /\ n.stmt[t] = m.stmt[t] /\ (n.owner = t <=> m.owner = t)
    BY <1>4, LibraryAssumption DEF Releases, LibInv, OthersSame
  <2> QED BY <2>1 DEF HandleInv, Executed
<1>5. /\ n.status = IF n.owner = None THEN "READY" ELSE "STATEMENT_GET_RESULT"
      /\ n.cur = <<>> \/ (n.owner # None /\ \E d : n.cur = <<d>> /\ Readable(d))
  BY DEF Releases, LibInv
<1>6. IsLib(n) /\ SameAnswer(m, n)
  BY DEF Releases
<1> QED BY <1>1, <1>2, <1>3, <1>4, <1>5, <1>6 DEF LibInv, SameAnswer

(* mysql_stmt_free_result. *)
FreedHandle(h, clear) ==
  [h EXCEPT !.read = "no_result_set", !.state = "PREPARE", !.error = @ /\ ~clear]

(* mysql_stmt_free_result releases the rows of its statement only. *)
LEMMA FreeIs ==
  ASSUME NEW m, LibInv(m), NEW s \in Stmts, m.stmt[s].state # "INIT", NEW clear
  PROVE  Releases(m, s, FreedHandle(m.stmt[s], clear), FreeResult(m, s, clear))
<1> DEFINE h == [m.stmt[s] EXCEPT !.read = "no_result_set"]
           k == ResetClientSide(m, s)
           n == [k EXCEPT !.stmt[s] = [@ EXCEPT !.state = "PREPARE", !.error = m.stmt[s].error /\ ~clear]]
<1>1. Releases(m, s, h, k)
  BY ResetClientIs
<1>2. FreeResult(m, s, clear) = n
  BY DEF FreeResult
<1>3. IsLib(m) /\ DOMAIN m.stmt[s] = StmtFields
  BY DEF LibInv, IsLib
<1>4. k.stmt[s] = h /\ IsLib(k)
  BY <1>1 DEF Releases
<1>5. [h EXCEPT !.state = "PREPARE", !.error = m.stmt[s].error /\ ~clear] = FreedHandle(m.stmt[s], clear)
  BY <1>3 DEF FreedHandle, StmtFields
<1> HIDE DEF k, h
<1>6. /\ IsLib(n) /\ n.stmt[s] = FreedHandle(m.stmt[s], clear) /\ OthersSame(k, n, s)
      /\ n.status = k.status /\ n.first = k.first /\ n.cur = k.cur /\ n.more = k.more
      /\ n.owner = k.owner /\ SameAnswer(k, n)
  BY <1>4, <1>5 DEF IsLib, LibFields, StmtFields, OthersSame, SameAnswer
<1> HIDE DEF n
<1>7. SameAnswer(m, n) /\ OthersSame(m, n, s)
  BY <1>1, <1>6 DEF Releases, SameAnswer, OthersSame
<1> QED BY <1>1, <1>2, <1>6, <1>7 DEF Releases

(* After it the statement has no rows. *)
LEMMA FreedRests ==
  ASSUME NEW m, LibInv(m), NEW s \in Stmts, NEW clear
  PROVE  Resting(FreedHandle(m.stmt[s], clear))
<1>1. /\ DOMAIN m.stmt[s] = StmtFields /\ ~m.stmt[s].cancelled
      /\ m.stmt[s].columns \in BOOLEAN
  BY DEF LibInv, HandleInv, IsLib
<1> QED BY <1>1 DEF StmtFields, FreedHandle, Resting
-----------------------------------------------------------------------------
(* A call that takes no rows of s: the owner, and so the status, stays. *)
Settles(m, s, n) ==
  /\ IsLib(n) /\ ~n.null /\ n.first \in Seq(Datasets)
  /\ n.owner = m.owner /\ n.status = m.status /\ n.cur \in {<<>>, m.cur}
  /\ OthersSame(m, n, s)
  /\ s \in Stmts => m.owner # s /\ Resting(n.stmt[s])
  /\ n.insert_id \in Counts \cup {0}
  /\ ~n.asked => n.warnings = n.stored

(* A call that takes no rows keeps the handles consistent. *)
LEMMA SettlesKeeps ==
  ASSUME NEW m, LibInv(m), NEW s \in Stmts \cup {None}, NEW n, Settles(m, s, n)
  PROVE  LibInv(n)
<1>1. ASSUME NEW t \in Stmts, t = s PROVE HandleInv(n, t)
  BY <1>1 DEF HandleInv, Resting, Executed, Settles
<1>2. ASSUME NEW t \in Stmts, t # s PROVE HandleInv(n, t)
  <2>1. HandleInv(m, t) /\ n.stmt[t] = m.stmt[t] /\ n.owner = m.owner
    BY <1>2 DEF Settles, LibInv, OthersSame
  <2> QED BY <2>1 DEF HandleInv, Executed
<1>3. /\ n.status = IF n.owner = None THEN "READY" ELSE "STATEMENT_GET_RESULT"
      /\ n.cur = <<>> \/ (n.owner # None /\ \E d : n.cur = <<d>> /\ Readable(d))
      /\ n.owner \in Stmts \cup {None}
  BY DEF Settles, LibInv
<1> QED BY <1>1, <1>2, <1>3 DEF LibInv, Settles

(* s starts to read the rows of d. *)
Claims(m, s, d, n) ==
  /\ IsLib(n) /\ ~n.null /\ n.first \in Seq(Datasets)
  /\ n.owner = s /\ n.status = "STATEMENT_GET_RESULT" /\ n.cur = <<d>> /\ Readable(d)
  /\ OthersSame(m, n, s)
  /\ DOMAIN n.stmt[s] = StmtFields /\ n.stmt[s].columns = TRUE /\ ~n.stmt[s].cancelled
  /\ n.stmt[s].state \in {"EXECUTE", "FETCH"} /\ n.stmt[s].read = "unbuffered"
  /\ n.insert_id \in Counts \cup {0}
  /\ ~n.asked => n.warnings = n.stored

(* So does one with which a statement starts to read. *)
LEMMA ClaimsKeeps ==
  ASSUME NEW m, LibInv(m), NEW s \in Stmts, m.owner \in {s, None}, NEW d, NEW n, Claims(m, s, d, n)
  PROVE  LibInv(n)
<1>1. HandleInv(n, s)
  BY DEF HandleInv, Executed, Claims
<1>2. ASSUME NEW t \in Stmts, t # s PROVE HandleInv(n, t)
  <2>1. HandleInv(m, t) /\ n.stmt[t] = m.stmt[t] /\ n.owner # t /\ m.owner # t
    BY <1>2, LibraryAssumption DEF Claims, LibInv, OthersSame
  <2> QED BY <2>1 DEF HandleInv, Executed
<1>3. /\ n.status = IF n.owner = None THEN "READY" ELSE "STATEMENT_GET_RESULT"
      /\ n.owner # None /\ \E e : n.cur = <<e>> /\ Readable(e)
      /\ n.owner \in Stmts \cup {None}
  BY LibraryAssumption DEF Claims
<1> QED BY <1>1, <1>2, <1>3 DEF LibInv, Claims
-----------------------------------------------------------------------------
(* What the server may answer to a prepared statement. *)
Answers(d, columns) ==
  /\ d \in Datasets /\ ~d.more
  /\ d.kind = "ok" => ~columns /\ d.n \in Counts
  /\ HasColumns(d) => columns
  /\ d.kind = "bad" => d.n = 0
  /\ d.kind = "error" => d.warns = 0

(* mysql_stmt_free_result on a statement that reads no rows. *)
Frees(m, s, n) ==
  /\ LibInv(n) /\ n.owner = m.owner /\ n.status = m.status /\ (n.more <=> m.more)
  /\ OthersSame(m, n, s) /\ n.cur = m.cur /\ SameAnswer(m, n)
  /\ Resting(n.stmt[s]) /\ n.stmt[s].columns = m.stmt[s].columns
  /\ m.stmt[s].state # "INIT" => n.stmt[s].state = "PREPARE" /\ ~n.stmt[s].error
  /\ m.stmt[s].state = "INIT" => n.stmt[s] = m.stmt[s]

(* A statement that does not own the result reads no rows. *)
LEMMA RestingIs ==
  ASSUME NEW m, LibInv(m), NEW s \in Stmts, m.owner # s
  PROVE  Resting(m.stmt[s])
BY DEF LibInv, IsLib, HandleInv, Executed, Resting

(* mysql_stmt_free_result of such a statement leaves the owner alone. *)
LEMMA FreeOfResting ==
  ASSUME NEW m, LibInv(m), NEW s \in Stmts, m.owner # s
  PROVE  Frees(m, s, FreeResult(m, s, TRUE))
<1> DEFINE n == FreeResult(m, s, TRUE)
           h == FreedHandle(m.stmt[s], TRUE)
<1>1. CASE m.stmt[s].state = "INIT"
  <2>1. n = m
    BY <1>1 DEF FreeResult
  <2>2. Resting(m.stmt[s])
    BY RestingIs
  <2> QED BY <1>1, <2>1, <2>2 DEF Frees, OthersSame, SameAnswer
<1>2. CASE m.stmt[s].state # "INIT"
  <2>1. Releases(m, s, h, n) /\ Resting(h)
    BY <1>2, FreeIs, FreedRests
  <2> HIDE DEF n
  <2>2. LibInv(n) /\ (n.more <=> m.more)
    BY <2>1, ReleasesKeeps
  <2>3. h.columns = m.stmt[s].columns /\ h.state = "PREPARE" /\ ~h.error
    BY DEF FreedHandle, LibInv, IsLib, StmtFields
  <2>4. Frees(m, s, n)
    BY <1>2, <2>1, <2>2, <2>3, LibraryAssumption DEF Frees, Releases
  <2> QED BY <2>4 DEF n
<1> QED BY <1>1, <1>2

(* mysql_stmt_execute. *)
Executes(m, s, d, r) ==
  LET n == r.lib IN
  /\ LibInv(n) /\ ~n.more /\ OthersSame(m, n, s) /\ r.rc \in {"ok", "error"}
  /\ n.stmt[s].columns <=> m.stmt[s].columns
  /\ m.stmt[s].state # "INIT" => n.stmt[s].state # "INIT"
  /\ ~Ready(m) => r.rc = "error" /\ n.owner = m.owner /\ n.cur = <<>>
  /\ Ready(m) => n.owner = IF HasColumns(d) THEN s ELSE None
  /\ Ready(m) /\ HasColumns(d) => n.cur = <<d>>
  /\ Ready(m) /\ d.kind = "ok" => n.affected = d.n /\ n.insert_id = d.n
  /\ Ready(m) /\ d.kind # "error" /\ m.stmt[s].state # "INIT" => r.rc = "ok"
  /\ r.rc = "ok" => d.kind # "error" /\ ~n.stmt[s].error

(* mysql_stmt_execute with any answer of the server, or refused. *)
LEMMA StmtExecuteIs ==
  ASSUME NEW m, LibInv(m), ~m.more, NEW s \in Stmts, m.owner # s,
         NEW d, Answers(d, m.stmt[s].columns)
  PROVE  Executes(m, s, d, StmtExecute(m, s, <<d>>))
<1> DEFINE f == FreeResult(m, s, TRUE)
           got == Query(f, <<d>>)
           r == StmtExecute(m, s, <<d>>)
           n == r.lib
           done == [got.lib EXCEPT !.stmt[s].state = "EXECUTE"]
<1>1. Frees(m, s, f)
  BY FreeOfResting
<1> HIDE DEF f
<1>2. /\ r = IF got.rc = "error" THEN Returns(SetError(got.lib, s), "error")
             ELSE Returns(IF done.columns THEN PrepareToFetch(done, s) ELSE done,
                          IF done.stmt[s].error THEN "error" ELSE "ok")
  BY DEF StmtExecute, f
<1>3. LibInv(f) /\ IsLib(f) /\ (Ready(f) <=> Ready(m)) /\ OthersSame(m, f, s)
      /\ DOMAIN f.stmt[s] = StmtFields /\ Resting(f.stmt[s]) /\ f.owner = m.owner
  BY <1>1 DEF Frees, LibInv, Ready, Resting
<1> HIDE DEF r
<1>4. CASE ~Ready(m)
  <2>1. got.rc = "error" /\ Refused(f, got.lib)
    BY <1>3, <1>4, QueryBusy
  <2> HIDE DEF got
  <2>2. r.rc = "error" /\ n = SetError(got.lib, s)
    BY <1>2, <2>1 DEF Returns
  <2> HIDE DEF n
  <2>3. /\ IsLib(n) /\ n.status = f.status /\ n.first = <<>> /\ n.cur = <<>> /\ n.more = f.more
        /\ n.owner = f.owner /\ SameAnswer(f, n) /\ OthersSame(f, n, s)
        /\ n.stmt[s] = [f.stmt[s] EXCEPT !.error = TRUE]
    BY <1>3, <2>1, <2>2
       DEF SetError, Refused, IsLib, LibFields, SameAnswer, OthersSame, StmtFields
  <2>4. Resting(n.stmt[s]) /\ n.stmt[s].columns = f.stmt[s].columns
        /\ n.stmt[s].state = f.stmt[s].state
    BY <1>3, <2>3 DEF Resting, StmtFields
  <2>5. Settles(f, s, n)
    BY <1>3, <2>3, <2>4, Queues DEF Settles, LibInv, SameAnswer
  <2>6. LibInv(n)
    BY <1>3, <2>5, SettlesKeeps
  <2>7. OthersSame(m, n, s)
    BY <1>3, <2>3 DEF OthersSame
  <2>8. Executes(m, s, d, r)
    BY <1>1, <1>4, <2>2, <2>3, <2>4, <2>6, <2>7 DEF Executes, Frees, n
  <2> QED BY <2>8 DEF r
<1>5. CASE Ready(m)
  <2>1. /\ Head(<<d>>) = d /\ <<d>> # <<>> /\ Tail(<<d>>) = <<>> /\ Warns(<<d>>) = d.warns
        /\ d.kind \in Kinds /\ d.n \in Nat
    BY Single DEF Answers, Datasets
  <2>2. PICK q : Sent(f, <<d>>, q) /\ Read(q, d, got)
    BY <1>3, <1>5, <2>1, QueryReady
  <2> HIDE DEF got
  <2>3. /\ IsLib(got.lib) /\ got.lib.first = <<>> /\ ~got.lib.more /\ got.lib.owner = None
        /\ got.lib.stmt = f.stmt /\ ~got.lib.null /\ ~got.lib.asked
        /\ got.lib.warnings = got.lib.stored
        /\ got.rc = IF d.kind = "error" THEN "error" ELSE "ok"
        /\ got.lib.status = IF HasColumns(d) THEN "GET_RESULT" ELSE "READY"
        /\ got.lib.cur = IF HasColumns(d) THEN <<d>> ELSE <<>>
        /\ d.kind # "error" => (got.lib.columns <=> HasColumns(d))
        /\ d.kind = "ok" => got.lib.affected = d.n /\ got.lib.insert_id = d.n
        /\ got.lib.insert_id \in Counts \cup {0}
    <3>1. /\ q.first = <<d>> /\ q.owner = None /\ q.stmt = f.stmt /\ ~q.null /\ ~q.asked
          /\ q.stored = d.warns /\ q.warnings = 0 /\ q.status = "READY" /\ q.cur = <<>>
          /\ q.insert_id \in Counts \cup {0}
      BY <1>3, <1>5, <2>1, <2>2 DEF Sent, LibInv, Ready
    <3> QED BY <2>1, <2>2, <3>1 DEF Read, Answers
  <2>4. CASE d.kind = "error"
    <3>1. r.rc = "error" /\ n = SetError(got.lib, s) /\ ~HasColumns(d)
      BY <1>2, <2>3, <2>4 DEF Returns, HasColumns
    <3> HIDE DEF n
    <3>2. /\ IsLib(n) /\ n.status = "READY" /\ n.first = <<>> /\ n.cur = <<>> /\ ~n.more
          /\ n.owner = None /\ ~n.null /\ ~n.asked /\ n.warnings = n.stored
          /\ n.insert_id \in Counts \cup {0} /\ OthersSame(f, n, s)
          /\ n.stmt[s] = [f.stmt[s] EXCEPT !.error = TRUE]
      BY <1>3, <2>3, <3>1 DEF SetError, IsLib, LibFields, OthersSame, StmtFields
    <3>3. Resting(n.stmt[s]) /\ n.stmt[s].columns = f.stmt[s].columns
          /\ n.stmt[s].state = f.stmt[s].state
      BY <1>3, <3>2 DEF Resting, StmtFields
    <3>4. Settles(f, s, n)
      BY <1>3, <1>5, <3>2, <3>3, Queues DEF Settles, LibInv, Ready
    <3>5. LibInv(n)
      BY <1>3, <3>4, SettlesKeeps
    <3>6. OthersSame(m, n, s)
      BY <1>3, <3>2 DEF OthersSame
    <3>7. Executes(m, s, d, r)
      BY <1>1, <1>5, <2>4, <3>1, <3>2, <3>3, <3>5, <3>6 DEF Executes, Frees, n
    <3> QED BY <3>7 DEF r
  <2>5. CASE d.kind = "ok"
    <3>1. /\ n = done /\ ~HasColumns(d)
          /\ r.rc = IF f.stmt[s].error THEN "error" ELSE "ok"
      <4>1. got.rc = "ok" /\ ~got.lib.columns /\ ~HasColumns(d)
        BY <2>3, <2>5 DEF HasColumns
      <4>2. ~done.columns /\ done.stmt[s].error = f.stmt[s].error
        BY <4>1, <1>3, <2>3 DEF IsLib, LibFields, StmtFields
      <4> HIDE DEF done
      <4> QED BY <1>2, <4>1, <4>2 DEF Returns
    <3> HIDE DEF n
    <3>2. /\ IsLib(n) /\ n.status = "READY" /\ n.first = <<>> /\ n.cur = <<>> /\ ~n.more
          /\ n.owner = None /\ ~n.null /\ ~n.asked /\ n.warnings = n.stored
          /\ n.insert_id \in Counts \cup {0} /\ OthersSame(f, n, s)
          /\ n.affected = d.n /\ n.insert_id = d.n
          /\ n.stmt[s] = [f.stmt[s] EXCEPT !.state = "EXECUTE"]
      BY <1>3, <2>3, <2>5, <3>1 DEF IsLib, LibFields, OthersSame, StmtFields
    <3>3. /\ ~f.stmt[s].columns /\ n.stmt[s].error = f.stmt[s].error
          /\ Resting(n.stmt[s]) /\ n.stmt[s].columns = f.stmt[s].columns
          /\ n.stmt[s].state = "EXECUTE"
      BY <1>1, <1>3, <2>5, <3>2 DEF Resting, StmtFields, Answers, Frees
    <3>4. Settles(f, s, n)
      BY <1>3, <1>5, <3>2, <3>3, Queues DEF Settles, LibInv, Ready
    <3>5. LibInv(n)
      BY <1>3, <3>4, SettlesKeeps
    <3>6. OthersSame(m, n, s)
      BY <1>3, <3>2 DEF OthersSame
    <3>7. Executes(m, s, d, r)
      BY <1>1, <1>5, <2>5, <3>1, <3>2, <3>3, <3>5, <3>6 DEF Executes, Frees, n
    <3> QED BY <3>7 DEF r
  <2>6. CASE HasColumns(d)
    <3>1. /\ n = PrepareToFetch(done, s) /\ d.kind \notin {"ok", "error"}
          /\ r.rc = IF f.stmt[s].error THEN "error" ELSE "ok"
      <4>1. got.rc = "ok" /\ got.lib.columns /\ d.kind \notin {"ok", "error"}
        BY <2>3, <2>6 DEF HasColumns
      <4>2. done.columns /\ done.stmt[s].error = f.stmt[s].error
        BY <4>1, <1>3, <2>3 DEF IsLib, LibFields, StmtFields
      <4> HIDE DEF done
      <4> QED BY <1>2, <4>1, <4>2 DEF Returns
    <3>2. /\ IsLib(done) /\ done.first = <<>> /\ done.cur = <<d>> /\ ~done.more
          /\ ~done.null /\ ~done.asked /\ done.warnings = done.stored
          /\ done.insert_id \in Counts \cup {0} /\ OthersSame(f, done, s)
          /\ done.stmt[s] = [f.stmt[s] EXCEPT !.state = "EXECUTE"]
      BY <1>3, <2>3, <2>6, <3>1 DEF IsLib, LibFields, OthersSame, StmtFields
    <3> HIDE DEF n, done
    <3>3. /\ IsLib(n) /\ n.status = "STATEMENT_GET_RESULT" /\ n.first = <<>> /\ n.cur = <<d>>
          /\ n.owner = s /\ ~n.more /\ ~n.null /\ ~n.asked /\ n.warnings = n.stored
          /\ n.insert_id \in Counts \cup {0} /\ OthersSame(f, n, s)
          /\ n.stmt[s] = [f.stmt[s] EXCEPT !.state = "EXECUTE", !.cancelled = FALSE,
                                           !.columns = TRUE, !.read = "unbuffered"]
      BY <1>3, <3>1, <3>2
         DEF PrepareToFetch, IsLib, LibFields, OthersSame, StmtFields
    <3>4. /\ DOMAIN n.stmt[s] = StmtFields /\ n.stmt[s].columns = TRUE /\ ~n.stmt[s].cancelled
          /\ n.stmt[s].state = "EXECUTE" /\ n.stmt[s].read = "unbuffered"
          /\ n.stmt[s].error = f.stmt[s].error /\ m.stmt[s].columns
      BY <1>3, <2>6, <3>3 DEF StmtFields, Answers
    <3>5. Claims(f, s, d, n)
      BY <2>6, <3>3, <3>4, Queues DEF Claims, Readable, Answers
    <3>6. LibInv(n)
      BY <1>3, <1>5, <3>5, ClaimsKeeps DEF LibInv, Ready
    <3>7. OthersSame(m, n, s)
      BY <1>3, <3>3 DEF OthersSame
    <3>8. Executes(m, s, d, r)
      BY <1>1, <1>5, <2>6, <3>1, <3>3, <3>4, <3>6, <3>7 DEF Executes, Frees, n
    <3> QED BY <3>8 DEF r
  <2> QED BY <2>1, <2>4, <2>5, <2>6 DEF Kinds, HasColumns
<1> QED BY <1>4, <1>5
-----------------------------------------------------------------------------
(* The rows of other statements are as they were. *)
Quiet(m, s, n) ==
  /\ OthersSame(m, n, s)
  /\ \A t \in Stmts \ {s} : n.owner = t <=> m.owner = t
  /\ m.owner \in Stmts \ {s} => n.cur = m.cur

(* mysql_stmt_fetch. *)
Fetches(m, s, r) ==
  LET n == r.lib IN
  /\ LibInv(n) /\ ~n.more /\ Quiet(m, s, n) /\ r.rc \in {"row", "end", "error"}
  /\ n.stmt[s].columns = m.stmt[s].columns /\ n.stmt[s].state # "INIT"
  /\ n.insert_id = m.insert_id
  /\ r.rc = "row" => \E d : /\ m.owner = s /\ m.cur = <<d>> /\ d.n \in Nat \ {0}
                            /\ n.owner = s /\ n.cur = <<[d EXCEPT !.n = d.n - 1]>>
  /\ r.rc # "row" => n.owner # s
  /\ r.rc # "row" /\ m.owner = s =>
       /\ n.owner = None
       /\ m.cur = <<>> \/ \E d : m.cur = <<d>> /\ d.n = 0
  /\ r.rc = "end" => n.stmt[s].error = m.stmt[s].error /\ n.stmt[s].read = "no_data"
  /\ r.rc = "error" => /\ m.owner # s \/ \E d : m.cur = <<d>> /\ d.kind = "bad"
                       /\ n.stmt[s].read = "no_result_set"
  /\ m.owner = s /\ (\E d : m.cur = <<d>> /\ d.kind = "bad") => r.rc = "error"
  /\ m.stmt[s].read = "no_data" => r.rc = "end"
  /\ m.stmt[s].read = "no_result_set" => r.rc = "error"

(* Only the handle of s changes. *)
OnlyHandle(m, s, h, n) ==
  /\ IsLib(n) /\ n.status = m.status /\ n.first = m.first /\ n.cur = m.cur
  /\ n.more = m.more /\ n.owner = m.owner /\ SameAnswer(m, n) /\ OthersSame(m, n, s)
  /\ n.stmt[s] = h

(* Setting the handle of one statement changes nothing else. *)
LEMMA HandleSet ==
  ASSUME NEW m, IsLib(m), NEW s \in Stmts, NEW h, DOMAIN h = StmtFields,
         NEW n, n = [m EXCEPT !.stmt[s] = h]
  PROVE  OnlyHandle(m, s, h, n)
BY DEF OnlyHandle, IsLib, LibFields, SameAnswer, OthersSame

(* No change is such a change. *)
LEMMA HandleStays ==
  ASSUME NEW m, IsLib(m), NEW s \in Stmts
  PROVE  OnlyHandle(m, s, m.stmt[s], m)
BY DEF OnlyHandle, SameAnswer, OthersSame

(* A statement without rows that stays without rows keeps the handles consistent. *)
LEMMA HandleSettles ==
  ASSUME NEW m, LibInv(m), NEW s \in Stmts, m.owner # s, NEW h, Resting(h), NEW n,
         OnlyHandle(m, s, h, n)
  PROVE  LibInv(n)
<1>1. Settles(m, s, n)
  BY DEF Settles, OnlyHandle, LibInv, SameAnswer
<1> QED BY <1>1, SettlesKeeps

(* Recording an error changes the handle of its statement only. *)
LEMMA SetErrorIs ==
  ASSUME NEW m, IsLib(m), NEW s \in Stmts
  PROVE  OnlyHandle(m, s, [m.stmt[s] EXCEPT !.error = TRUE], SetError(m, s))
BY DEF SetError, OnlyHandle, IsLib, LibFields, StmtFields, SameAnswer, OthersSame

(* mysql_stmt_fetch of a statement that has no rows to read. *)
LEMMA FetchRests ==
  ASSUME NEW m, LibInv(m), ~m.more, NEW s \in Stmts, m.owner # s
  PROVE  Fetches(m, s, StmtFetch(m, s))
<1> DEFINE r == StmtFetch(m, s)
           n == r.lib
<1>1. IsLib(m) /\ Resting(m.stmt[s]) /\ DOMAIN m.stmt[s] = StmtFields
  BY RestingIs DEF LibInv, IsLib
<1>2. CASE m.stmt[s].read = "no_data"
  <2> DEFINE h == [m.stmt[s] EXCEPT !.state = "PREPARE", !.read = "no_data"]
  <2>1. r.rc = "end" /\ n = [m EXCEPT !.stmt[s] = h]
    BY <1>2 DEF StmtFetch, Returns
  <2> HIDE DEF r
  <2>2. /\ Resting(h) /\ h.columns = m.stmt[s].columns /\ DOMAIN h = StmtFields
        /\ h.error = m.stmt[s].error /\ h.state = "PREPARE" /\ h.read = "no_data"
    BY <1>1 DEF StmtFields, Resting
  <2> HIDE DEF h
  <2>3. OnlyHandle(m, s, h, n)
    BY <1>1, <2>1, <2>2, HandleSet
  <2>4. LibInv(n)
    BY <2>2, <2>3, HandleSettles
  <2>5. Fetches(m, s, r)
    BY <1>2, <2>1, <2>2, <2>3, <2>4 DEF Fetches, Quiet, SameAnswer, OnlyHandle
  <2> QED BY <2>5 DEF r
<1>3. CASE m.stmt[s].read = "no_result_set"
  <2> DEFINE k == [m.stmt[s] EXCEPT !.error = TRUE]
             h == [k EXCEPT !.state = "PREPARE", !.read = "no_result_set"]
  <2>1. OnlyHandle(m, s, k, SetError(m, s))
    BY <1>1, SetErrorIs
  <2>2. IsLib(SetError(m, s))
    BY <2>1 DEF OnlyHandle
  <2>3. SetError(m, s).stmt[s] = k
    BY <2>1 DEF OnlyHandle
  <2>4. r.rc = "error" /\ n = [SetError(m, s) EXCEPT !.stmt[s] = h]
    BY <1>3, <2>3 DEF StmtFetch, Returns
  <2>5. /\ Resting(h) /\ h.columns = m.stmt[s].columns /\ DOMAIN h = StmtFields
        /\ h.state = "PREPARE" /\ h.read = "no_result_set"
    BY <1>1 DEF StmtFields, Resting
  <2> HIDE DEF r, h, k
  <2>6. OnlyHandle(SetError(m, s), s, h, n)
    BY <2>4, <2>5, <2>2, HandleSet
  <2>7. OnlyHandle(m, s, h, n)
    BY <2>1, <2>6 DEF OnlyHandle, SameAnswer, OthersSame
  <2>8. LibInv(n)
    BY <2>5, <2>7, HandleSettles
  <2>9. Fetches(m, s, r)
    BY <1>3, <2>4, <2>5, <2>7, <2>8 DEF Fetches, Quiet, SameAnswer, OnlyHandle
  <2> QED BY <2>9 DEF r
<1> QED BY <1>1, <1>2, <1>3 DEF Resting

(* The rows are read to their end. *)
Ended(m, n) ==
  /\ IsLib(n) /\ n.status = "READY" /\ n.cur = <<>> /\ n.owner = None
  /\ n.first = m.first /\ (n.more <=> m.more) /\ SameAnswer(m, n) /\ n.stmt = m.stmt

(* mysql_stmt_fetch of the statement that reads: a row, the end or an error. *)
LEMMA FetchOwn ==
  ASSUME NEW m, LibInv(m), ~m.more, NEW s \in Stmts, m.owner = s
  PROVE  Fetches(m, s, StmtFetch(m, s))
<1> DEFINE r == StmtFetch(m, s)
           n == r.lib
           ended == [m EXCEPT !.status = "READY", !.cur = <<>>, !.owner = None]
           read == ReadRowUnbuffered(m, s)
           at(state, next) ==
             [read.lib EXCEPT !.stmt[s] = [@ EXCEPT !.state = state, !.read = next]]
<1>1. /\ IsLib(m) /\ DOMAIN m.stmt[s] = StmtFields /\ m.stmt[s].read = "unbuffered"
      /\ m.status = "STATEMENT_GET_RESULT" /\ ~m.stmt[s].cancelled
      /\ m.stmt[s].columns = TRUE
      /\ s # None
      /\ m.cur = <<>> \/ \E d : m.cur = <<d>> /\ Readable(d)
  BY LibraryAssumption DEF LibInv, IsLib, HandleInv
<1>2. r = CASE read.rc = "row" -> Returns(at("FETCH", m.stmt[s].read), "row")
            [] read.rc = "end" -> Returns(at("PREPARE", "no_data"), "end")
            [] read.rc = "error" -> Returns(at("PREPARE", "no_result_set"), "error")
  BY <1>1 DEF StmtFetch
<1>3. /\ Disown([m EXCEPT !.status = "READY", !.cur = <<>>], s) = ended
  BY <1>1 DEF Disown, IsLib, LibFields
<1> HIDE DEF r
<1>4. Ended(m, ended)
  BY <1>1 DEF Ended, IsLib, LibFields, SameAnswer
<1> HIDE DEF ended
<1>5. ASSUME read.rc \in {"end", "error"}, NEW k, DOMAIN k = StmtFields,
             k.columns = m.stmt[s].columns, ~k.cancelled, k.columns \in BOOLEAN,
             NEW e, Ended(m, e), OnlyHandle(e, s, k, read.lib),
             read.rc = "end" => k.error = m.stmt[s].error,
             m.cur = <<>> \/ \E d : m.cur = <<d>> /\ d.n = 0,
             read.rc = "error" <=> \E d : m.cur = <<d>> /\ d.kind = "bad"
      PROVE  Fetches(m, s, r)
  <2> DEFINE h == [k EXCEPT !.state = "PREPARE",
                            !.read = IF read.rc = "end" THEN "no_data" ELSE "no_result_set"]
  <2>1. /\ DOMAIN h = StmtFields /\ h.columns = m.stmt[s].columns /\ h.state = "PREPARE"
        /\ h.error = k.error /\ Resting(h)
        /\ h.read = IF read.rc = "end" THEN "no_data" ELSE "no_result_set"
    BY <1>5 DEF Resting, StmtFields
  <2>2. n = [read.lib EXCEPT !.stmt[s] = h] /\ r.rc = read.rc
    BY <1>2, <1>5 DEF Returns, OnlyHandle
  <2> HIDE DEF h, read
  <2>3. IsLib(read.lib)
    BY <1>5 DEF OnlyHandle
  <2>4. OnlyHandle(read.lib, s, h, n)
    BY <2>1, <2>2, <2>3, HandleSet
  <2>5. OnlyHandle(e, s, h, n)
    BY <1>5, <2>4 DEF OnlyHandle, SameAnswer, OthersSame
  <2>6. Releases(m, s, h, n)
    <3>1. /\ IsLib(n) /\ n.status = e.status /\ n.first = e.first /\ n.cur = e.cur
          /\ n.more = e.more /\ n.owner = e.owner /\ SameAnswer(e, n) /\ OthersSame(e, n, s)
          /\ n.stmt[s] = h
      BY <2>5 DEF OnlyHandle
    <3>2. SameAnswer(m, n) /\ OthersSame(m, n, s)
      BY <1>5, <3>1 DEF Ended, SameAnswer, OthersSame
    <3> QED BY <1>5, <3>1, <3>2 DEF Ended, Releases
  <2>7. Resting(h)
    BY <2>1
  <2>8. LibInv(n) /\ n.owner # s /\ (n.more <=> m.more)
    BY <2>7, <2>6, ReleasesKeeps
  <2>9. Quiet(m, s, n) /\ n.owner = None /\ n.stmt[s] = h /\ n.insert_id = m.insert_id
    BY <2>6, LibraryAssumption DEF Releases, Quiet, SameAnswer
  <2>10. m.stmt[s].read \notin {"no_data", "no_result_set"}
    BY <1>1
  <2> QED BY <1>5, <2>1, <2>2, <2>8, <2>9, <2>10 DEF Fetches
<1>6. OnlyHandle(ended, s, m.stmt[s], ended)
  BY <1>4, HandleStays DEF Ended
<1>7. ASSUME read.lib = ended, read.rc = "end",
             m.cur = <<>> \/ \E d : m.cur = <<d>> /\ d.n = 0,
             ~\E d : m.cur = <<d>> /\ d.kind = "bad"
      PROVE  Fetches(m, s, r)
  <2>1. read.rc = "end" /\ OnlyHandle(ended, s, m.stmt[s], read.lib)
    BY <1>6, <1>7
  <2> HIDE DEF read
  <2> QED BY <1>1, <1>4, <1>5, <1>7, <2>1
<1>8. CASE m.cur = <<>>
  <2>1. read.lib = ended /\ read.rc = "end"
    BY <1>1, <1>3, <1>8 DEF ReadRowUnbuffered, Returns
  <2>2. Fetches(m, s, r)
    BY <1>7, <1>8, <2>1, Single
  <2> QED BY <2>2 DEF r
<1>9. CASE m.cur # <<>>
  <2>1. PICK d : m.cur = <<d>> /\ Readable(d)
    BY <1>1, <1>9
  <2>2. m.cur[1] = d /\ \A b : m.cur = <<b>> => b = d
    <3>1. \A b : <<b>>[1] = b
      BY Single
    <3> QED BY <2>1, <3>1
  <2>3. CASE d.kind = "bad"
    <3> DEFINE over == [ended EXCEPT !.more = d.more]
               k == [m.stmt[s] EXCEPT !.error = TRUE]
    <3>1. read.lib = SetError(over, s) /\ read.rc = "error"
      BY <1>1, <1>3, <1>9, <2>2, <2>3 DEF ReadRowUnbuffered, Returns
    <3>2. Ended(m, over)
      BY <1>4, <2>1 DEF Readable, IsLib, LibFields, Ended, SameAnswer
    <3> HIDE DEF over
    <3>3. OnlyHandle(over, s, k, SetError(over, s))
      BY <3>2, SetErrorIs DEF Ended
    <3>4. read.rc = "error" /\ OnlyHandle(over, s, k, read.lib)
      BY <3>1, <3>3
    <3>5. /\ DOMAIN k = StmtFields /\ k.columns = m.stmt[s].columns /\ ~k.cancelled
          /\ k.columns \in BOOLEAN
      BY <1>1 DEF StmtFields
    <3> HIDE DEF read, k
    <3>6. d.n = 0
      BY <2>1, <2>3 DEF Readable
    <3>7. Fetches(m, s, r)
      BY <1>5, <2>1, <2>3, <3>2, <3>4, <3>5, <3>6
    <3> QED BY <3>7 DEF r
  <2>4. CASE d.kind = "rows" /\ d.n = 0
    <3>1. read.lib = ended /\ read.rc = "end"
      BY <1>1, <1>3, <1>9, <2>2, <2>4 DEF ReadRowUnbuffered, Returns
    <3>2. Fetches(m, s, r)
      BY <1>7, <2>1, <2>2, <2>4, <3>1
    <3> QED BY <3>2 DEF r
  <2>5. CASE d.kind = "rows" /\ d.n # 0
    <3> DEFINE e == [d EXCEPT !.n = d.n - 1]
               k == [m EXCEPT !.cur = <<e>>]
               h == [m.stmt[s] EXCEPT !.state = "FETCH", !.read = "unbuffered"]
    <3>1. read.lib = k /\ read.rc = "row"
      BY <1>1, <1>9, <2>2, <2>5 DEF ReadRowUnbuffered, Returns
    <3>2. Readable(e) /\ d.n \in Nat \ {0}
      BY <2>1, <2>5, SMT DEF Readable, Datasets, HasColumns, Kinds
    <3> HIDE DEF e
    <3>3. /\ IsLib(k) /\ k.cur = <<e>> /\ k.status = m.status /\ k.first = m.first
          /\ k.more = m.more /\ k.owner = m.owner /\ SameAnswer(m, k) /\ k.stmt = m.stmt
      BY <1>1 DEF IsLib, LibFields, SameAnswer
    <3> HIDE DEF k
    <3>4. /\ DOMAIN h = StmtFields /\ h.columns = m.stmt[s].columns /\ h.columns = TRUE
          /\ ~h.cancelled /\ h.state = "FETCH" /\ h.read = "unbuffered"
      BY <1>1 DEF StmtFields
    <3>5. n = [k EXCEPT !.stmt[s] = h] /\ r.rc = "row"
      BY <1>1, <1>2, <3>1, <3>3 DEF Returns
    <3> HIDE DEF h
    <3>6. OnlyHandle(k, s, h, n)
      BY <3>3, <3>4, <3>5, HandleSet
    <3>7. SameAnswer(m, n) /\ OthersSame(m, n, s)
      BY <3>3, <3>6 DEF OnlyHandle, SameAnswer, OthersSame
    <3>8. ~n.null /\ n.first \in Seq(Datasets) /\ n.insert_id \in Counts \cup {0}
           /\ (~n.asked => n.warnings = n.stored)
      BY <3>3, <3>6, <3>7 DEF OnlyHandle, SameAnswer, LibInv
    <3>9. Claims(m, s, e, n)
      BY <1>1, <3>2, <3>3, <3>4, <3>6, <3>7, <3>8 DEF Claims, OnlyHandle
    <3>10. LibInv(n)
      BY <3>9, ClaimsKeeps
    <3>11. /\ OthersSame(m, n, s) /\ n.owner = s /\ n.cur = <<e>> /\ n.stmt[s] = h
          /\ ~n.more /\ n.insert_id = m.insert_id
      BY <3>3, <3>6 DEF OnlyHandle, SameAnswer, OthersSame
    <3>12. Fetches(m, s, r)
      BY <1>1, <2>1, <2>2, <2>5, <3>2, <3>4, <3>5, <3>10, <3>11 DEF Fetches, Quiet, e
    <3> QED BY <3>12 DEF r
  <2> QED BY <2>1, <2>3, <2>4, <2>5 DEF Readable, HasColumns
<1> QED BY <1>8, <1>9
-----------------------------------------------------------------------------
(* Every set of natural numbers has a least element. *)
LEMMA Least ==
  ASSUME NEW T \in SUBSET Nat, T # {}
  PROVE  \E x \in T : \A y \in T : x <= y
<1> DEFINE R == OpToRel(<, Nat)
<1>1. IsWellFoundedOn(R, Nat)
  BY NatLessThanWellFounded
<1>2. R = {ss \in Nat \X Nat : ss[1] < ss[2]}
  BY SMT DEF OpToRel
<1> HIDE DEF R
<1>3. PICK x \in T : \A y \in T : <<y, x>> \notin R
  BY <1>1, WFMin
<1>4. \A y \in T : ~(y < x)
  BY <1>2, <1>3
<1> QED BY <1>4, SMT

(* Induction over the turns of a loop. *)
LEMMA Turns ==
  ASSUME NEW n \in Nat, NEW G, 0 \in G, \A i \in 0..n - 1 : i \in G => i + 1 \in G
  PROVE  \A i \in 0..n : i \in G
<1> DEFINE T == (0..n) \ G
<1>1. SUFFICES ASSUME T # {} PROVE FALSE
  OBVIOUS
<1>2. T \in SUBSET Nat
  BY SMT
<1> HIDE DEF T
<1>3. PICK x \in T : \A y \in T : x <= y
  BY <1>1, <1>2, Least
<1>4. x \in 1..n /\ x \notin G
  BY <1>3, SMT DEF T
<1>5. x - 1 \in 0..n - 1 /\ (x - 1) + 1 = x /\ x - 1 \in 0..n /\ ~(x <= x - 1)
  BY <1>4, SMT
<1>6. x - 1 \notin T
  BY <1>3, <1>5
<1>7. x - 1 \in G
  BY <1>5, <1>6 DEF T
<1>8. (x - 1) + 1 \in G
  BY <1>5, <1>7
<1> QED BY <1>4, <1>5, <1>8

(* The loop of RESET_ALL_BUFFERS when the server has sent nothing more. *)
LEMMA ReadAllNothing ==
  ASSUME NEW m, Len(m.first) \in Nat, ~m.more, NEW s
  PROVE  ReadAllResults(m, s) = m
<1> DEFINE start == Returns(m, "ok")
           N == Len(m.first) + 1
           body(f) == [i \in 0..N |-> IF i = 0 THEN start ELSE ReadAllTurn(f[i - 1], s)]
           after == CHOOSE f : f = body(f)
           g == [i \in 0..N |-> start]
           G == {i \in 0..N : after[i] = start}
<1>1. ReadAllResults(m, s) = after[N].lib
  BY DEF ReadAllResults
<1>2. /\ N \in Nat \ {0} /\ N \in 0..N /\ 0 \in 0..N
      /\ \A i \in 0..N : i # 0 => i - 1 \in 0..N
      /\ \A i \in 0..N - 1 : i \in 0..N /\ i + 1 \in 0..N /\ i + 1 # 0 /\ (i + 1) - 1 = i
  BY SMT
<1>3. ReadAllTurn(start, s) = start
  BY DEF ReadAllTurn, Returns
<1> HIDE DEF N, start
<1>4. g = body(g)
  BY <1>2, <1>3
<1>5. after = body(after)
  BY <1>4
<1> HIDE DEF after
<1>6. \A i \in 0..N : after[i] = IF i = 0 THEN start ELSE ReadAllTurn(after[i - 1], s)
  BY <1>5
<1>7. 0 \in G /\ \A i \in 0..N - 1 : i \in G => i + 1 \in G
  BY <1>2, <1>3, <1>6
<1> HIDE DEF G
<1>8. N \in G
  BY <1>2, <1>7, Turns
<1>9. after[N] = start
  BY <1>8 DEF G
<1>10. start.lib = m
  BY DEF start, Returns
<1> QED BY <1>1, <1>9, <1>10
-----------------------------------------------------------------------------
(* mysql_stmt_next_result, when the server has sent nothing more. *)
NextIsEnd(m, s, r) ==
  LET n == r.lib IN
  /\ LibInv(n) /\ ~n.more /\ OthersSame(m, n, s) /\ n.owner = m.owner /\ n.cur = m.cur
  /\ n.stmt[s].columns = m.stmt[s].columns /\ n.stmt[s].state = m.stmt[s].state
  /\ n.insert_id = m.insert_id /\ n.stmt[s].read = m.stmt[s].read
  /\ r.rc = "error" => n.stmt[s].error
  /\ r.rc \in {"end", "error"} /\ (r.rc = "error" <=> m.stmt[s].error \/ ~Ready(m))

(* After a single result set mysql_stmt_next_result reports the end. *)
LEMMA StmtNextIsEnd ==
  ASSUME NEW m, LibInv(m), ~m.more, NEW s \in Stmts, m.owner # s
  PROVE  NextIsEnd(m, s, StmtNextResult(m, s))
<1> DEFINE r == StmtNextResult(m, s)
           n == r.lib
           next == NextResult(m)
<1>1. IsLib(m) /\ Resting(m.stmt[s]) /\ DOMAIN m.stmt[s] = StmtFields
  BY RestingIs DEF LibInv, IsLib
<1>2. CASE m.stmt[s].error
  <2>1. r.rc = "error" /\ n = m
    BY <1>2 DEF StmtNextResult, Returns
  <2> HIDE DEF r
  <2>2. NextIsEnd(m, s, r)
    BY <1>2, <2>1 DEF NextIsEnd, OthersSame
  <2> QED BY <2>2 DEF r
<1>3. CASE ~m.stmt[s].error /\ ~Ready(m)
  <2> DEFINE h == [m.stmt[s] EXCEPT !.error = TRUE]
  <2>1. next.rc = "error" /\ next.lib = m
    BY <1>3, NextBusy
  <2>2. r.rc = "error" /\ n = SetError(m, s)
    BY <1>3, <2>1 DEF StmtNextResult, Returns
  <2> HIDE DEF r
  <2>3. /\ Resting(h) /\ h.columns = m.stmt[s].columns /\ h.state = m.stmt[s].state
        /\ h.read = m.stmt[s].read /\ h.error
    BY <1>1 DEF Resting, StmtFields
  <2> HIDE DEF h
  <2>4. OnlyHandle(m, s, h, n)
    BY <1>1, <2>2, SetErrorIs DEF h
  <2>5. LibInv(n)
    BY <2>3, <2>4, HandleSettles
  <2>6. NextIsEnd(m, s, r)
    BY <1>3, <2>2, <2>3, <2>4, <2>5 DEF NextIsEnd, OnlyHandle, SameAnswer
  <2> QED BY <2>6 DEF r
<1>4. CASE ~m.stmt[s].error /\ Ready(m)
  <2>1. next.rc = "end" /\ Forgets(m, next.lib)
    BY <1>1, <1>4, NextNothing
  <2>2. r = next
    BY <1>4, <2>1 DEF StmtNextResult
  <2>3. r.rc = "end" /\ Forgets(m, n)
    BY <2>1, <2>2
  <2> HIDE DEF r
  <2>4. n.stmt[s] = m.stmt[s] /\ OthersSame(m, n, s) /\ n.owner = m.owner /\ n.cur = m.cur
        /\ n.insert_id = m.insert_id /\ ~n.more
    BY <2>3 DEF Forgets, OthersSame
  <2>5. Settles(m, s, n)
    BY <1>1, <2>3, <2>4 DEF Settles, Forgets, LibInv
  <2>6. LibInv(n)
    BY <2>5, SettlesKeeps
  <2>7. NextIsEnd(m, s, r)
    BY <1>4, <2>3, <2>4, <2>6 DEF NextIsEnd
  <2> QED BY <2>7 DEF r
<1> QED BY <1>2, <1>3, <1>4
-----------------------------------------------------------------------------
(* reset_stmt_handle with RESET_ALL_BUFFERS on a statement that reads no rows. *)
LEMMA ResetBuffersIs ==
  ASSUME NEW m, LibInv(m), ~m.more, NEW s \in Stmts, m.owner # s
  PROVE  LET h == [m.stmt[s] EXCEPT !.read = "no_result_set"]
             n == ResetAllBuffers(m, s)
         IN Releases(m, s, h, n) /\ Resting(h) /\ LibInv(n) /\ ~n.more /\ n.owner = m.owner
<1> DEFINE h == [m.stmt[s] EXCEPT !.read = "no_result_set"]
           n == ResetClientSide(m, s)
<1>1. IsLib(m) /\ Resting(m.stmt[s]) /\ DOMAIN m.stmt[s] = StmtFields
  BY RestingIs DEF LibInv, IsLib
<1>2. Resting(h)
  BY <1>1 DEF Resting, StmtFields
<1> HIDE DEF h
<1>3. Releases(m, s, h, n)
  BY ResetClientIs DEF h
<1>4. LibInv(n) /\ ~n.more
  BY <1>2, <1>3, ReleasesKeeps
<1>5. n.owner = m.owner
  BY <1>3 DEF Releases
<1>6. ReadAllResults(n, s) = n
  BY <1>4, Queues, ReadAllNothing DEF LibInv
<1>7. ResetAllBuffers(m, s) = n
  BY <1>6 DEF ResetAllBuffers
<1> QED BY <1>2, <1>3, <1>4, <1>5, <1>7 DEF h

(* A command whose answer is not read. *)
Commands(m, r) ==
  LET n == r.lib IN
  /\ LibInv(n) /\ ~n.more /\ n.owner = m.owner /\ n.cur = <<>> /\ n.stmt = m.stmt
  /\ r.rc = IF Ready(m) THEN "ok" ELSE "error"

(* A command whose answer nobody reads keeps the handles consistent. *)
LEMMA CommandKeeps ==
  ASSUME NEW m, LibInv(m), ~m.more, NEW reply \in Seq(Datasets), Warns(reply) = 0
  PROVE  Commands(m, Command(m, reply))
<1> DEFINE r == Command(m, reply)
           n == r.lib
<1>1. IsLib(m)
  BY DEF LibInv
<1>2. CASE Ready(m)
  <2>1. r.rc = "ok" /\ Sent(m, reply, n)
    BY <1>1, <1>2, CommandReady
  <2> HIDE DEF r
  <2>2. Settles(m, None, n)
    BY <1>2, <2>1, LibraryAssumption DEF Settles, Sent, LibInv, OthersSame, Ready
  <2>3. LibInv(n)
    BY <2>2, SettlesKeeps
  <2>4. Commands(m, r)
    BY <1>2, <2>1, <2>3 DEF Commands, Sent
  <2> QED BY <2>4 DEF r
<1>3. CASE ~Ready(m)
  <2>1. r.rc = "error" /\ Refused(m, n)
    BY <1>1, <1>3, CommandBusy
  <2> HIDE DEF r
  <2>2. Settles(m, None, n)
    BY <2>1, LibraryAssumption, Queues
       DEF Settles, Refused, LibInv, OthersSame, SameAnswer
  <2>3. LibInv(n)
    BY <2>2, SettlesKeeps
  <2>4. Commands(m, r)
    BY <1>3, <2>1, <2>3 DEF Commands, Refused
  <2> QED BY <2>4 DEF r
<1> QED BY <1>2, <1>3

(* A call for s that leaves the reading of other statements to them. *)
Leaves(m, s, n) ==
  /\ LibInv(n) /\ ~n.more /\ OthersSame(m, n, s)
  /\ n.owner = m.owner /\ n.cur \in {<<>>, m.cur}

(* mysql_stmt_reset and mysql_stmt_close of a statement that reads no rows. *)
LEMMA StmtResetIs ==
  ASSUME NEW m, LibInv(m), ~m.more, NEW s \in Stmts, m.owner # s
  PROVE  LET r == StmtReset(m, s)
             h == r.lib.stmt[s]
         IN /\ Leaves(m, s, r.lib) /\ r.rc \in {"ok", "error"}
            /\ h.columns = m.stmt[s].columns
            /\ r.rc = "ok" /\ m.stmt[s].state # "INIT" => h.state # "INIT"
            /\ Ready(m) => r.rc = "ok"
<1> DEFINE r == StmtReset(m, s)
           n == r.lib
           b == ResetAllBuffers(m, s)
           k == [m.stmt[s] EXCEPT !.read = "no_result_set"]
           sent == Command(b, <<Dataset("ok", 0, 0, FALSE)>>)
<1>1. CASE m.stmt[s].state = "INIT"
  <2>1. r.rc = "ok" /\ n = m
    BY <1>1 DEF StmtReset, Returns
  <2> HIDE DEF r
  <2>2. Leaves(m, s, n)
    BY <2>1 DEF Leaves, OthersSame
  <2> QED BY <1>1, <2>1, <2>2 DEF r
<1>2. CASE m.stmt[s].state # "INIT"
  <2>1. Releases(m, s, k, b) /\ Resting(k) /\ LibInv(b) /\ ~b.more /\ b.owner = m.owner
    BY ResetBuffersIs
  <2>2. <<Dataset("ok", 0, 0, FALSE)>> \in Seq(Datasets) /\ Warns(<<Dataset("ok", 0, 0, FALSE)>>) = 0
    BY SMT DEF Dataset, Datasets, Kinds, Warns
  <2> HIDE DEF b
  <2>3. Commands(b, sent)
    BY <2>1, <2>2, CommandKeeps
  <2> DEFINE h == IF sent.rc = "error" THEN [k EXCEPT !.error = TRUE, !.state = "INIT"]
                  ELSE [k EXCEPT !.error = FALSE, !.state = "PREPARE"]
  <2>4. b.stmt[s] = k /\ sent.lib.stmt = b.stmt /\ sent.rc \in {"ok", "error"} /\ IsLib(sent.lib)
    BY <2>1, <2>3 DEF Releases, Commands, LibInv
  <2>5. n = [sent.lib EXCEPT !.stmt[s] = h] /\ r.rc = sent.rc
    BY <1>2, <2>4 DEF StmtReset, Returns, b
  <2>6. /\ DOMAIN m.stmt[s] = StmtFields
    BY DEF LibInv, IsLib
  <2>7. /\ Resting(h) /\ DOMAIN h = StmtFields /\ h.columns = m.stmt[s].columns
        /\ h.state = IF sent.rc = "error" THEN "INIT" ELSE "PREPARE"
    BY <2>1, <2>6 DEF Resting, StmtFields
  <2> HIDE DEF h, sent, k, r
  <2>8. OnlyHandle(sent.lib, s, h, n)
    BY <2>4, <2>5, <2>7, HandleSet
  <2>9. LibInv(sent.lib) /\ sent.lib.owner # s
    BY <2>1, <2>3 DEF Commands
  <2>10. LibInv(n)
    BY <2>7, <2>8, <2>9, HandleSettles
  <2>11. OthersSame(m, n, s)
    BY <2>1, <2>4, <2>8 DEF Releases, OnlyHandle, OthersSame
  <2>12. Leaves(m, s, n) /\ n.stmt[s] = h
    BY <2>1, <2>3, <2>8, <2>10, <2>11 DEF Leaves, OnlyHandle, Commands
  <2>13. Ready(m) => r.rc = "ok"
    BY <2>1, <2>3, <2>5 DEF Releases, Commands, Ready
  <2> QED BY <1>2, <2>4, <2>5, <2>7, <2>12, <2>13 DEF r
<1> QED BY <1>1, <1>2
-----------------------------------------------------------------------------
(* A new statement handle has no rows. *)
LEMMA FreshRests == Resting(FreshStmt) /\ DOMAIN FreshStmt = StmtFields
BY DEF FreshStmt, Resting, StmtFields

(* mysql_stmt_close of a statement without rows. *)
LEMMA StmtCloseIs ==
  ASSUME NEW m, LibInv(m), ~m.more, NEW s \in Stmts, m.owner # s
  PROVE  Leaves(m, s, StmtClose(m, s).lib) /\ StmtClose(m, s).lib.stmt[s] = FreshStmt
<1> DEFINE b == ResetAllBuffers(m, s)
           k == [m.stmt[s] EXCEPT !.read = "no_result_set"]
           sent == IF m.stmt[s].state = "INIT" THEN Returns(m, "ok") ELSE Command(b, <<>>)
           n == StmtClose(m, s).lib
<1>1. /\ LibInv(sent.lib) /\ ~sent.lib.more /\ OthersSame(m, sent.lib, s)
      /\ sent.lib.owner = m.owner /\ sent.lib.cur \in {<<>>, m.cur}
  <2>1. CASE m.stmt[s].state = "INIT"
    <3>1. sent.lib = m
      BY <2>1 DEF Returns
    <3> QED BY <3>1 DEF OthersSame
  <2>2. CASE m.stmt[s].state # "INIT"
    <3>1. Releases(m, s, k, b) /\ Resting(k) /\ LibInv(b) /\ ~b.more /\ b.owner = m.owner
      BY ResetBuffersIs
    <3>2. <<>> \in Seq(Datasets) /\ Warns(<<>>) = 0
      BY Queues DEF Warns
    <3> HIDE DEF b
    <3>3. Commands(b, Command(b, <<>>))
      BY <3>1, <3>2, CommandKeeps
    <3>4. sent = Command(b, <<>>)
      BY <2>2
    <3>5. OthersSame(m, b, s)
      BY <3>1 DEF Releases
    <3> HIDE DEF sent
    <3> QED BY <3>1, <3>3, <3>4, <3>5 DEF Commands, OthersSame
  <2> QED BY <2>1, <2>2
<1>2. n = [sent.lib EXCEPT !.stmt[s] = FreshStmt]
  BY DEF StmtClose, Returns
<1> HIDE DEF sent, n
<1>3. OnlyHandle(sent.lib, s, FreshStmt, n)
  BY <1>1, <1>2, FreshRests, HandleSet DEF LibInv
<1>4. LibInv(n)
  BY <1>1, <1>3, FreshRests, HandleSettles
<1> QED BY <1>1, <1>3, <1>4 DEF Leaves, OnlyHandle, OthersSame, n

(* An answer was read, and the rows it may have announced are not kept. *)
Answered(m, n) ==
  /\ IsLib(n) /\ ~n.null /\ n.first \in Seq(Datasets) /\ ~n.more /\ n.owner = m.owner
  /\ n.stmt = m.stmt /\ n.insert_id \in Counts \cup {0}
  /\ ~n.asked => n.warnings = n.stored

(* mysql_stmt_prepare on a new handle. *)
LEMMA StmtPrepareIs ==
  ASSUME NEW m, LibInv(m), ~m.more, NEW s \in Stmts, m.owner # s,
         NEW reply \in {<<>>, <<Dataset("rows", 0, 0, FALSE)>>} \cup ErrorReply
  PROVE  LET r == StmtPrepare(m, s, reply)
             h == r.lib.stmt[s]
         IN /\ Leaves(m, s, r.lib)
            /\ r.rc = "error" => h = FreshStmt
            /\ r.rc # "error" => /\ h.state = "PREPARE" /\ Resting(h)
                                 /\ h.columns <=> reply # <<>>
<1> DEFINE r == StmtPrepare(m, s, reply)
           n == r.lib
           k == [m EXCEPT !.stmt[s] = FreshStmt]
           sent == Command(k, reply)
           got == IF reply = <<>> THEN sent ELSE ReadQueryResult(sent.lib)
<1>1. OnlyHandle(m, s, FreshStmt, k)
  BY FreshRests, HandleSet DEF LibInv
<1>2. r = IF sent.rc = "error" THEN sent ELSE IF got.rc = "error" THEN got
          ELSE Returns([got.lib EXCEPT
                 !.status = "READY", !.cur = <<>>,
                 !.stmt[s] = [@ EXCEPT !.state = "PREPARE", !.columns = reply # <<>>]], "ok")
  BY DEF StmtPrepare
<1> HIDE DEF k, r
<1>3. /\ LibInv(k) /\ ~k.more /\ k.owner = m.owner /\ OthersSame(m, k, s) /\ k.cur = m.cur
      /\ k.stmt[s] = FreshStmt /\ IsLib(k)
  BY <1>1, FreshRests, HandleSettles DEF OnlyHandle
<1>4. \A kind \in {"rows", "error"} :
        LET d == Dataset(kind, 0, 0, FALSE)
        IN d \in Datasets /\ d.kind = kind /\ ~d.more /\ d.warns = 0
  BY SMT DEF Dataset, Datasets, Kinds
<1>5. PICK d \in Datasets : /\ reply \in {<<>>, <<d>>} /\ d.kind \in {"rows", "error"}
                            /\ ~d.more /\ d.warns = 0
  BY <1>4 DEF ErrorReply
<1>6. reply \in Seq(Datasets) /\ Warns(reply) = 0
  BY <1>5, Queues, Single DEF Warns
<1>7. Commands(k, sent)
  BY <1>3, <1>6, CommandKeeps
<1>8. CASE sent.rc = "error"
  <2>1. n = sent.lib /\ r.rc = "error"
    BY <1>2, <1>8
  <2> HIDE DEF sent
  <2> QED BY <1>3, <1>7, <2>1 DEF Commands, Leaves, OthersSame, r
<1>9. CASE sent.rc # "error"
  <2> DEFINE h == [FreshStmt EXCEPT !.state = "PREPARE", !.columns = reply # <<>>]
             g == got.lib
  <2>1. Ready(k) /\ k.owner = None /\ k.status = "READY"
    BY <1>3, <1>7, <1>9 DEF Commands, Ready, LibInv
  <2>2. /\ Answered(k, g) /\ got.rc \in {"ok", "error"}
        /\ got.rc = "error" => g.status = "READY" /\ g.cur = <<>>
    <3>1. CASE reply = <<>>
      <4>1. got = sent
        BY <3>1
      <4> HIDE DEF sent, got
      <4> QED BY <1>3, <1>7, <2>1, <4>1 DEF Commands, Answered, LibInv
    <3>2. CASE reply # <<>>
      <4>1. got = ReadQueryResult(sent.lib) /\ reply = <<d>>
        BY <1>5, <3>2
      <4>2. Head(<<d>>) = d /\ Tail(<<d>>) = <<>>
        BY Single
      <4>3. d.kind \in Kinds
        BY <1>5 DEF Kinds
      <4>4. Head(reply) = d /\ Tail(reply) = <<>>
        BY <4>1, <4>2
      <4>5. Sent(k, reply, sent.lib)
        BY <1>3, <2>1, CommandReady
      <4> HIDE DEF sent, got
      <4>6. IsLib(sent.lib) /\ sent.lib.first = reply
        BY <4>5 DEF Sent
      <4>7. Read(sent.lib, d, got)
        BY <3>2, <4>4, <4>6, <4>1, <4>3, ReadIs
      <4>8. got.rc = "error" => ~HasColumns(d)
        BY <1>5, <4>7 DEF Read, HasColumns
      <4>9. d.kind # "ok"
        BY <1>5
      <4>10. IsLib(g) /\ g.first = <<>> /\ ~g.more /\ g.owner = k.owner /\ g.stmt = k.stmt
             /\ ~g.null /\ ~g.asked /\ g.insert_id = k.insert_id /\ got.rc \in {"ok", "error"}
        BY <1>3, <1>5, <4>4, <4>5, <4>7, <4>9 DEF Sent, Read, LibInv
      <4>11. g.warnings = 0 /\ g.stored = 0
        BY <1>5, <1>6, <4>5, <4>7 DEF Sent, Read
      <4>12. got.rc = "error" => g.status = "READY" /\ g.cur = <<>>
        BY <4>5, <4>7, <4>8 DEF Sent, Read
      <4> QED BY <1>3, <4>10, <4>11, <4>12, Queues DEF Answered, LibInv
    <3> QED BY <3>1, <3>2
  <2> HIDE DEF got
  <2>3. CASE got.rc = "error"
    <3>1. n = g /\ r.rc = "error"
      BY <1>2, <1>9, <2>3
    <3>2. Settles(k, None, n)
      BY <2>1, <2>2, <2>3, <3>1, LibraryAssumption DEF Settles, Answered, OthersSame
    <3>3. LibInv(n)
      BY <1>3, <3>2, SettlesKeeps
    <3> QED BY <1>3, <2>2, <2>3, <3>1, <3>3 DEF Answered, Leaves, OthersSame, r
  <2>4. CASE got.rc # "error"
    <3> DEFINE q == [g EXCEPT !.status = "READY", !.cur = <<>>]
    <3>1. g.stmt[s] = FreshStmt /\ IsLib(g)
      BY <1>3, <2>2 DEF Answered
    <3>2. n = [q EXCEPT !.stmt[s] = h] /\ r.rc = "ok"
      BY <1>2, <1>9, <2>4, <3>1 DEF Returns, IsLib, LibFields
    <3>3. /\ IsLib(q) /\ q.status = "READY" /\ q.cur = <<>>
          /\ Answered(k, q)
      BY <2>2, <3>1 DEF IsLib, LibFields, Answered
    <3>4. Resting(h) /\ DOMAIN h = StmtFields /\ h.state = "PREPARE" /\ (h.columns <=> reply # <<>>)
      BY DEF FreshStmt, Resting, StmtFields
    <3> HIDE DEF q, h
    <3>5. OnlyHandle(q, s, h, n)
      BY <3>2, <3>3, <3>4, HandleSet
    <3>6. SameAnswer(q, n) /\ OthersSame(k, n, s)
      BY <3>3, <3>5 DEF OnlyHandle, Answered, OthersSame
    <3>7. Settles(k, s, n)
      BY <1>3, <2>1, <3>3, <3>4, <3>5, <3>6, LibraryAssumption
         DEF Settles, OnlyHandle, Answered, SameAnswer
    <3>8. LibInv(n)
      BY <1>3, <3>7, SettlesKeeps
    <3>9. n.stmt[s] = h /\ n.owner = m.owner /\ n.cur = <<>> /\ ~n.more /\ OthersSame(m, n, s)
      BY <1>3, <3>3, <3>5, <3>6 DEF OnlyHandle, Answered, OthersSame
    <3> QED BY <3>2, <3>4, <3>8, <3>9 DEF Leaves, r
  <2> QED BY <2>3, <2>4
<1> QED BY <1>8, <1>9
-----------------------------------------------------------------------------
(* The turns of drain_remaining_query_results. *)
LEMMA DrainTurns ==
  ASSUME NEW m, Len(m.first) \in Nat
  PROVE  LET N == Len(m.first) + 1
         IN \E f : /\ f[0] = Returns(m, "ok")
                   /\ \A i \in 0..N - 1 : f[i + 1] = DrainTurn(f[i])
                   /\ DrainRemainingQueryResults(m) = f[N]
<1> DEFINE start == Returns(m, "ok")
           N == Len(m.first) + 1
           body(f) == [i \in 0..N |-> IF i = 0 THEN start ELSE DrainTurn(f[i - 1])]
           after == CHOOSE f : f = body(f)
           Runs(f, n) == /\ f = [i \in 0..n |-> f[i]] /\ f[0] = start
                         /\ \A i \in 0..n : i # 0 => f[i] = DrainTurn(f[i - 1])
           G == {n \in 0..N : \E f : Runs(f, n)}
<1>1. DrainRemainingQueryResults(m) = after[N]
  BY DEF DrainRemainingQueryResults
<1>2. /\ N \in Nat \ {0} /\ N \in 0..N /\ 0 \in 0..N
      /\ \A i \in 0..N - 1 : i \in 0..N /\ i + 1 \in 0..N /\ i + 1 # 0 /\ (i + 1) - 1 = i
  BY SMT
<1> HIDE DEF N, start
<1>3. 0 \in G
  <2> DEFINE f == [i \in 0..0 |-> start]
  <2>1. 0 \in 0..0 /\ \A i \in 0..0 : i = 0
    BY SMT
  <2>2. Runs(f, 0)
    BY <2>1
  <2> QED BY <1>2, <2>2
<1>4. ASSUME NEW n \in 0..N - 1, n \in G PROVE n + 1 \in G
  <2>1. PICK f : Runs(f, n)
    BY <1>4
  <2> DEFINE g == [i \in 0..n + 1 |-> IF i = n + 1 THEN DrainTurn(f[n]) ELSE f[i]]
  <2>2. /\ 0 \in 0..n + 1 /\ 0 # n + 1 /\ n + 1 \in 0..n + 1 /\ n \in 0..n + 1 /\ n # n + 1
        /\ (n + 1) - 1 = n
        /\ \A i \in 0..n + 1 : i # n + 1 => i \in 0..n
        /\ \A i \in 0..n : i # 0 => i - 1 \in 0..n + 1 /\ i - 1 # n + 1
    BY <1>2, <1>4, SMT
  <2>3. g[0] = f[0] /\ g[n] = f[n] /\ g[n + 1] = DrainTurn(f[n])
    BY <2>2
  <2>4. ASSUME NEW i \in 0..n + 1, i # 0 PROVE g[i] = DrainTurn(g[i - 1])
    <3>1. CASE i = n + 1
      BY <2>2, <2>3, <3>1
    <3>2. CASE i # n + 1
      <4>1. i \in 0..n /\ i - 1 \in 0..n + 1 /\ i - 1 # n + 1
        BY <2>2, <2>4, <3>2
      <4>2. g[i] = f[i] /\ g[i - 1] = f[i - 1]
        BY <2>4, <3>2, <4>1
      <4> QED BY <2>1, <2>4, <4>1, <4>2
    <3> QED BY <3>1, <3>2
  <2>5. Runs(g, n + 1)
    BY <2>1, <2>3, <2>4
  <2> QED BY <1>2, <2>5
<1> HIDE DEF G
<1>5. N \in G
  BY <1>2, <1>3, <1>4, Turns
<1>6. PICK f : Runs(f, N)
  BY <1>5 DEF G
<1>7. f = body(f)
  <2>1. f = [i \in 0..N |-> f[i]]
    BY <1>6
  <2>2. \A i \in 0..N : f[i] = IF i = 0 THEN start ELSE DrainTurn(f[i - 1])
    BY <1>6
  <2> QED BY <2>1, <2>2, SMT
<1>8. after = body(after)
  BY <1>7
<1> HIDE DEF after
<1>9. after[0] = start /\ \A i \in 0..N - 1 : after[i + 1] = DrainTurn(after[i])
  BY <1>2, <1>8
<1> QED BY <1>1, <1>9 DEF start, N

(* With nothing to drain, the drain reports the end, or the error of a busy handle. *)
LEMMA DrainIdle ==
  ASSUME NEW m, LibInv(m), ~m.more
  PROVE  LET r == DrainRemainingQueryResults(m)
         IN /\ Ready(m) => r.rc = "end" /\ Forgets(m, r.lib)
            /\ ~Ready(m) => r.rc = "error" /\ r.lib = m
<1> DEFINE start == Returns(m, "ok")
           t == NextResult(m)
           N == Len(m.first) + 1
           r == DrainRemainingQueryResults(m)
<1>1. /\ Ready(m) => t.rc = "end" /\ Forgets(m, t.lib)
      /\ ~Ready(m) => t.rc = "error" /\ t.lib = m
  BY NextNothing, NextBusy DEF LibInv
<1>2. t.rc # "ok"
  BY <1>1
<1>3. start.rc = "ok" /\ start.lib = m
  BY DEF Returns
<1> HIDE DEF start
<1>4. DrainTurn(start) = t
  BY <1>2, <1>3 DEF DrainTurn
<1> HIDE DEF t
<1>5. DrainTurn(t) = t
  BY <1>2 DEF DrainTurn
<1>6. Len(m.first) \in Nat
  BY Queues DEF LibInv
<1>7. /\ N \in Nat /\ N # 0 /\ N \in 0..N /\ 0 \in 0..N
      /\ \A i \in 0..N - 1 : i + 1 \in 0..N /\ i + 1 # 0
  BY <1>6, SMT
<1>8. PICK f : /\ f[0] = start /\ \A i \in 0..N - 1 : f[i + 1] = DrainTurn(f[i]) 
               /\ r = f[N]
  BY <1>6, DrainTurns DEF start
<1> HIDE DEF N, r
<1> DEFINE G == {i \in 0..N : i # 0 => f[i] = t}
<1>9. 0 \in G /\ \A i \in 0..N - 1 : i \in G => i + 1 \in G
  BY <1>4, <1>5, <1>7, <1>8
<1> HIDE DEF G
<1>10. N \in G
  BY <1>7, <1>9, Turns
<1>11. r = t
  BY <1>7, <1>8, <1>10 DEF G
<1> QED BY <1>1, <1>11 DEF r
-----------------------------------------------------------------------------
(* What is left of the reply to a CALL, and whether its outcome is a success. *)
CallTail(q, ran) ==
  /\ q \in Seq(Datasets) /\ q # <<>>
  /\ \A i \in 1..Len(q) - 1 : q[i] = Dataset("rows", 1, 0, TRUE)
  /\ q[Len(q)] = Dataset(IF ran THEN "ok" ELSE "error", 0, 0, FALSE)

(* The rest of a reply to a CALL: result sets, then the outcome. *)
LEMMA CallTailIs ==
  ASSUME NEW q, NEW ran, CallTail(q, ran)
  PROVE  /\ Len(q) \in Nat \ {0} /\ Tail(q) \in Seq(Datasets) /\ Len(Tail(q)) = Len(q) - 1
         /\ Len(q) = 1 => Head(q) = Dataset(IF ran THEN "ok" ELSE "error", 0, 0, FALSE)
         /\ Len(q) > 1 => Head(q) = Dataset("rows", 1, 0, TRUE) /\ CallTail(Tail(q), ran)
<1>1. /\ q \in Seq(Datasets) /\ q # <<>> /\ Len(q) \in Nat \ {0} /\ Head(q) = q[1]
      /\ Tail(q) \in Seq(Datasets) /\ Len(Tail(q)) = Len(q) - 1
      /\ \A i \in 1..Len(q) - 1 : Tail(q)[i] = q[i + 1]
  BY SMT DEF CallTail
<1>2. Len(q) = 1 => Head(q) = Dataset(IF ran THEN "ok" ELSE "error", 0, 0, FALSE)
  BY <1>1 DEF CallTail
<1>3. ASSUME Len(q) > 1 PROVE Head(q) = Dataset("rows", 1, 0, TRUE) /\ CallTail(Tail(q), ran)
  <2>1. /\ 1 \in 1..Len(q) - 1 /\ Len(q) - 1 \in 1..Len(q) - 1 /\ (Len(q) - 1) + 1 = Len(q)
        /\ \A i \in 1..(Len(q) - 1) - 1 : i \in 1..Len(q) - 1 /\ i + 1 \in 1..Len(q) - 1
    <3> DEFINE L == Len(q)
    <3>1. L \in Nat /\ L > 1
      BY <1>1, <1>3
    <3> HIDE DEF L
    <3>2. /\ 1 \in 1..L - 1 /\ L - 1 \in 1..L - 1 /\ (L - 1) + 1 = L
          /\ \A i \in 1..(L - 1) - 1 : i \in 1..L - 1 /\ i + 1 \in 1..L - 1
      BY <3>1, SMT
    <3> QED BY <3>2 DEF L
  <2>2. Tail(q) # <<>>
    <3>1. Len(Tail(q)) # 0
      BY <1>1, <1>3, SMT
    <3>2. Len(<<>>) = 0
      OBVIOUS
    <3> QED BY <3>1, <3>2
  <2>3. \A i \in 1..Len(Tail(q)) - 1 : Tail(q)[i] = Dataset("rows", 1, 0, TRUE)
    BY <1>1, <2>1 DEF CallTail
  <2>4. Tail(q)[Len(Tail(q))] = Dataset(IF ran THEN "ok" ELSE "error", 0, 0, FALSE)
    BY <1>1, <2>1 DEF CallTail
  <2>5. Head(q) = Dataset("rows", 1, 0, TRUE)
    BY <1>1, <2>1 DEF CallTail
  <2> QED BY <1>1, <2>2, <2>3, <2>4, <2>5 DEF CallTail
<1> QED BY <1>1, <1>2, <1>3

(* A reply to a CALL is being read, and no statement reads rows. *)
InReply(m, n) ==
  LibInv(n) /\ n.owner = None /\ n.stmt = m.stmt /\ n.stored = 0 /\ n.cur = <<>>

(* mysql_next_result takes the answer d from the queue. *)
LEMMA NextTakes ==
  ASSUME NEW m, IsLib(m), Ready(m), m.more, m.first # <<>>, NEW d, d = Head(m.first),
         d.kind \in Kinds
  PROVE  \E c : Forgets(m, c) /\ Read(c, d, NextResult(m))
<1> DEFINE c == [m EXCEPT !.affected = NoCount]
<1>1. Forgets(m, c)
  BY DEF Forgets, IsLib, LibFields
<1>2. NextResult(m) = ReadQueryResult(c)
  BY DEF NextResult
<1> HIDE DEF c
<1>3. IsLib(c) /\ c.first = m.first
  BY <1>1 DEF Forgets
<1>4. Read(c, d, ReadQueryResult(c))
  BY <1>3, ReadIs
<1> QED BY <1>1, <1>2, <1>4

(* A turn of the drain that reads a result set of a CALL. *)
LEMMA DrainRows ==
  ASSUME NEW m, NEW x, x.rc = "ok", InReply(m, x.lib), x.lib.more, NEW ran,
         CallTail(x.lib.first, ran), Len(x.lib.first) > 1
  PROVE  LET y == DrainTurn(x)
         IN /\ y.rc = "ok" /\ InReply(m, y.lib) /\ y.lib.more
            /\ CallTail(y.lib.first, ran) /\ Len(y.lib.first) = Len(x.lib.first) - 1
<1> DEFINE n == x.lib
           q == n.first
           d == Dataset("rows", 1, 0, TRUE)
           next == NextResult(n)
           read == StoreResult(next.lib)
           y == DrainTurn(x)
<1>1. /\ Head(q) = d /\ CallTail(Tail(q), ran) /\ Len(Tail(q)) = Len(q) - 1
      /\ Tail(q) \in Seq(Datasets) /\ q # <<>>
  BY CallTailIs DEF CallTail
<1>2. /\ d.kind = "rows" /\ d.warns = 0 /\ d.more /\ d.kind \in Kinds /\ HasColumns(d)
  BY DEF Dataset, Kinds, HasColumns
<1>3. LibInv(n) /\ IsLib(n) /\ Ready(n) /\ n.owner = None /\ n.stored = 0 /\ n.status = "READY"
      /\ n.cur = <<>> /\ n.stmt = m.stmt
  BY DEF InReply, LibInv, Ready
<1> HIDE DEF d
<1>4. PICK c : Forgets(n, c) /\ Read(c, d, next)
  BY <1>1, <1>2, <1>3, NextTakes
<1> HIDE DEF next
<1>5. /\ IsLib(next.lib) /\ next.rc = "ok" /\ next.lib.status = "GET_RESULT"
      /\ next.lib.cur = <<d>>
  BY <1>2, <1>4 DEF Read
<1>6. Stored(next.lib, d, read)
  BY <1>5, StoreIs
<1>7. y.lib = read.lib /\ y.rc = IF read.rc = "error" THEN "error" ELSE "ok"
  BY <1>5 DEF DrainTurn, Returns, next
<1> HIDE DEF read, y
<1>8. y.rc = "ok"
  BY <1>2, <1>6, <1>7 DEF Stored
<1>9. /\ IsLib(y.lib) /\ y.lib.first = Tail(q) /\ y.lib.more /\ y.lib.owner = None
      /\ y.lib.status = "READY" /\ y.lib.cur = <<>> /\ y.lib.stmt = n.stmt
      /\ y.lib.stored = 0 /\ y.lib.warnings = 0 /\ ~y.lib.null
      /\ y.lib.insert_id = n.insert_id
  <2>1. /\ c.first = q /\ c.owner = None /\ c.stmt = n.stmt /\ c.stored = 0 /\ ~c.null
        /\ c.insert_id = n.insert_id
    BY <1>3, <1>4 DEF Forgets, LibInv
  <2>2. /\ next.lib.first = Tail(q) /\ next.lib.more /\ next.lib.owner = None
        /\ next.lib.stmt = n.stmt /\ next.lib.stored = 0 /\ next.lib.warnings = 0
        /\ ~next.lib.null /\ next.lib.insert_id = n.insert_id
    BY <1>2, <1>4, <2>1 DEF Read
  <2> QED BY <1>2, <1>6, <1>7, <2>2 DEF Stored
<1>10. Settles(n, None, y.lib)
  BY <1>1, <1>3, <1>9, LibraryAssumption DEF Settles, OthersSame, LibInv
<1>11. LibInv(y.lib)
  BY <1>3, <1>10, SettlesKeeps
<1> QED BY <1>1, <1>3, <1>8, <1>9, <1>11 DEF InReply, y

(* The turn that reads the outcome of a CALL. *)
LEMMA DrainOutcome ==
  ASSUME NEW m, NEW x, x.rc = "ok", InReply(m, x.lib), x.lib.more, NEW ran,
         CallTail(x.lib.first, ran), Len(x.lib.first) = 1
  PROVE  LET y == DrainTurn(x)
         IN /\ y.rc = IF ran THEN "ok" ELSE "error"
            /\ InReply(m, y.lib) /\ ~y.lib.more
<1> DEFINE n == x.lib
           q == n.first
           d == Dataset(IF ran THEN "ok" ELSE "error", 0, 0, FALSE)
           next == NextResult(n)
           y == DrainTurn(x)
<1>1. Head(q) = d /\ Tail(q) \in Seq(Datasets) /\ q # <<>>
  BY CallTailIs DEF CallTail
<1>2. /\ d.kind = (IF ran THEN "ok" ELSE "error") /\ d.warns = 0 /\ ~d.more /\ d.n = 0
      /\ d.kind \in Kinds /\ ~HasColumns(d)
  BY DEF Dataset, Kinds, HasColumns
<1>3. LibInv(n) /\ IsLib(n) /\ Ready(n) /\ n.owner = None /\ n.stored = 0 /\ n.status = "READY"
      /\ n.cur = <<>> /\ n.stmt = m.stmt
  BY DEF InReply, LibInv, Ready
<1> HIDE DEF d
<1>4. PICK c : Forgets(n, c) /\ Read(c, d, next)
  BY <1>1, <1>2, <1>3, NextTakes
<1> HIDE DEF next
<1>5. /\ IsLib(next.lib) /\ next.lib.status = "READY" /\ next.lib.cur = <<>>
      /\ next.rc = IF ran THEN "ok" ELSE "error"
  BY <1>2, <1>3, <1>4 DEF Read, Forgets
<1>6. StoreResult(next.lib).rc = "none" /\ StoreResult(next.lib).lib = next.lib
  BY <1>5, StoreNothing
<1>7. y.lib = next.lib /\ y.rc = next.rc
  BY <1>5, <1>6 DEF DrainTurn, Returns, next
<1> HIDE DEF y
<1>8. /\ IsLib(y.lib) /\ y.lib.first = Tail(q) /\ ~y.lib.more /\ y.lib.owner = None
      /\ y.lib.status = "READY" /\ y.lib.cur = <<>> /\ y.lib.stmt = n.stmt
      /\ y.lib.stored = 0 /\ ~y.lib.null
      /\ y.lib.insert_id \in Counts \cup {0} /\ (~y.lib.asked => y.lib.warnings = 0)
  <2>1. /\ c.first = q /\ c.owner = None /\ c.stmt = n.stmt /\ c.stored = 0 /\ ~c.null
        /\ c.insert_id \in Counts \cup {0} /\ (~c.asked => c.warnings = 0)
    BY <1>3, <1>4 DEF Forgets, LibInv
  <2>2. /\ next.lib.first = Tail(q) /\ ~next.lib.more /\ next.lib.owner = None
        /\ next.lib.stmt = n.stmt /\ next.lib.stored = 0 /\ ~next.lib.null
        /\ next.lib.asked = c.asked
    BY <1>2, <1>4, <2>1 DEF Read
  <2>3. next.lib.insert_id \in Counts \cup {0} /\ (~next.lib.asked => next.lib.warnings = 0)
    BY <1>2, <1>4, <2>1 DEF Read
  <2> QED BY <1>5, <1>7, <2>2, <2>3
<1>9. Settles(n, None, y.lib)
  BY <1>1, <1>3, <1>8, LibraryAssumption DEF Settles, OthersSame, LibInv
<1>10. LibInv(y.lib)
  BY <1>3, <1>9, SettlesKeeps
<1> QED BY <1>3, <1>5, <1>7, <1>8, <1>10 DEF InReply, y

(* drain_remaining_query_results in a CALL reads the outcome of the procedure. *)
LEMMA DrainCall ==
  ASSUME NEW m, LibInv(m), m.owner = None, m.stored = 0, m.more, NEW ran,
         CallTail(m.first, ran)
  PROVE  LET r == DrainRemainingQueryResults(m)
         IN /\ InReply(m, r.lib) /\ ~r.lib.more
            /\ r.rc = IF ran THEN "end" ELSE "error"
<1> DEFINE start == Returns(m, "ok")
           L == Len(m.first)
           N == L + 1
           r == DrainRemainingQueryResults(m)
           Reads(x, i) == /\ x.rc = "ok" /\ InReply(m, x.lib) /\ x.lib.more
                          /\ CallTail(x.lib.first, ran) /\ Len(x.lib.first) = L - i
           Over(x) == /\ InReply(m, x.lib) /\ ~x.lib.more
                      /\ x.rc = IF ran THEN "ok" ELSE "error"
           Ends(x) == /\ InReply(m, x.lib) /\ ~x.lib.more
                      /\ x.rc = IF ran THEN "end" ELSE "error"
<1>1. L \in Nat \ {0}
  BY CallTailIs
<1> HIDE DEF L
<1>2. /\ N \in Nat /\ 0 \in 0..N /\ N \in 0..N /\ ~(N < L) /\ N # L /\ L - 0 = L
      /\ 0 # L /\ 0 # N /\ \A i \in 0..N - 1 : i + 1 \in 0..N
  BY <1>1, SMT
<1>3. PICK f : /\ f[0] = start /\ \A i \in 0..N - 1 : f[i + 1] = DrainTurn(f[i])
               /\ r = f[N]
  BY <1>1, DrainTurns DEF L
<1> DEFINE Turn(i) == /\ i < L => Reads(f[i], i)
                      /\ i = L => Over(f[i])
                      /\ i = N => Ends(f[i])
           G == {i \in 0..N : Turn(i)}
<1>4. 0 \in G
  <2>0. m.cur = <<>>
    BY DEF LibInv
  <2>1. start.rc = "ok" /\ start.lib = m
    BY DEF Returns
  <2>2. InReply(m, m)
    BY <2>0 DEF InReply
  <2> HIDE DEF start
  <2>3. Len(start.lib.first) = L - 0
    BY <1>2, <2>1 DEF L
  <2>4. Reads(f[0], 0)
    BY <1>3, <2>1, <2>2, <2>3
  <2> HIDE DEF Reads, Over, Ends, N
  <2>5. Turn(0)
    BY <1>2, <2>4
  <2> QED BY <1>2, <2>5
<1>5. ASSUME NEW i \in 0..N - 1, i \in G PROVE i + 1 \in G
  <2>1. f[i + 1] = DrainTurn(f[i])
    BY <1>3
  <2>2. Turn(i)
    <3> HIDE DEF Turn
    <3> QED BY <1>5
  <2>3. Turn(i + 1)
    <3>1. CASE L - i > 1
      <4>1. /\ i < L /\ (L - i) - 1 = L - (i + 1) /\ i + 1 # L /\ i + 1 # N
        BY <1>1, <3>1, SMT
      <4>2. Reads(f[i], i)
        <5> HIDE DEF Reads, Over, Ends
        <5> QED BY <2>2, <4>1
      <4>3. Len(f[i].lib.first) > 1
        BY <3>1, <4>2
      <4>4. Reads(DrainTurn(f[i]), i + 1)
        BY <4>1, <4>2, <4>3, DrainRows
      <4> HIDE DEF Reads, Over, Ends, N
      <4> QED BY <2>1, <4>1, <4>4
    <3>2. CASE L - i = 1
      <4>1. /\ i < L /\ ~(i + 1 < L) /\ i + 1 # N
        BY <1>1, <3>2, SMT
      <4>2. Reads(f[i], i)
        <5> HIDE DEF Reads, Over, Ends
        <5> QED BY <2>2, <4>1
      <4>3. Len(f[i].lib.first) = 1
        BY <3>2, <4>2
      <4>4. Over(DrainTurn(f[i]))
        BY <4>2, <4>3, DrainOutcome
      <4> HIDE DEF Reads, Over, Ends, N
      <4> QED BY <2>1, <4>1, <4>4
    <3>3. CASE i = L
      <4>1. ~(i + 1 < L) /\ i + 1 # L
        BY <1>1, <3>3, SMT
      <4>2. Over(f[i])
        <5> HIDE DEF Reads, Over, Ends
        <5> QED BY <2>2, <3>3
      <4>3. Ends(DrainTurn(f[i]))
        <5> DEFINE x == f[i]
        <5>1. CASE ~ran
          <6>1. DrainTurn(x) = x
            BY <4>2, <5>1 DEF DrainTurn
          <6> QED BY <4>2, <5>1, <6>1
        <5>2. CASE ran
          <6> DEFINE k == x.lib
                     next == NextResult(k)
          <6>1. x.rc = "ok" /\ LibInv(k) /\ IsLib(k) /\ Ready(k) /\ ~k.more
            BY <4>2, <5>2 DEF InReply, LibInv, Ready
          <6>2. next.rc = "end" /\ Forgets(k, next.lib)
            BY <6>1, NextNothing
          <6>3. DrainTurn(x) = next
            BY <6>1, <6>2 DEF DrainTurn
          <6> HIDE DEF next, x
          <6>4. Settles(k, None, next.lib)
            BY <6>1, <6>2, LibraryAssumption DEF Settles, Forgets, LibInv, OthersSame
          <6>5. LibInv(next.lib)
            BY <6>1, <6>4, SettlesKeeps
          <6>6. InReply(m, next.lib) /\ ~next.lib.more
            BY <4>2, <6>1, <6>2, <6>5 DEF Forgets, InReply, x
          <6> QED BY <5>2, <6>2, <6>3, <6>6 DEF x
        <5> QED BY <5>1, <5>2
      <4> HIDE DEF Reads, Over, Ends, N
      <4> QED BY <2>1, <4>1, <4>3
    <3>4. L - i > 1 \/ L - i = 1 \/ i = L
      BY <1>1, SMT
    <3> HIDE DEF Turn
    <3> QED BY <3>1, <3>2, <3>3, <3>4
  <2> HIDE DEF Turn, N
  <2> QED BY <1>2, <2>3
<1> HIDE DEF G, N, r
<1>6. N \in G
  BY <1>2, <1>4, <1>5, Turns
<1>7. Ends(r)
  <2> HIDE DEF Reads, Over, Ends
  <2> QED BY <1>3, <1>6 DEF G
<1> QED BY <1>7 DEF r
-----------------------------------------------------------------------------
Count0 == Counts \cup {0}

IsConn(c) == DOMAIN c = {"lib", "my", "errcode", "changes", "last_insert_id"}

(***************************************************************************)
(* A mylite_stmt and its handle: the rows of an execution are accounted for *)
(* as long as no other call has thrown them away.                           *)
(***************************************************************************)
StmtInv(c, s) ==
  LET h == c.lib.stmt[s]
      my == c.my[s]
  IN /\ ~my.live => my.left = 0
     /\ my.live => (h.columns <=> my.select)
     /\ my.live /\ ~my.broken => h.state # "INIT"
     /\ c.lib.owner = s => /\ my.live /\ my.has_result
                           /\ c.lib.cur # <<>> => my.left = c.lib.cur[1].n
     /\ my.left > 0 /\ ~my.disturbed => c.lib.owner = s /\ c.lib.cur # <<>>

(* A connection between two calls. *)
ConnOK(c) ==
  /\ IsConn(c) /\ LibInv(c.lib) /\ c.my \in [Stmts -> StmtType]
  /\ \A s \in Stmts : StmtInv(c, s)
  /\ c.changes \in Count0 /\ c.last_insert_id \in Count0

(* The reading of other statements is left to them, but their rows may be lost. *)
Foreign(m, s, n) ==
  /\ OthersSame(m, n, s)
  /\ \A t \in Stmts \ {s} : n.owner = t <=> m.owner = t
  /\ m.owner \in Stmts \ {s} => n.cur \in {<<>>, m.cur}

(* A call that touches no other rows loses none of them. *)
LEMMA QuietIsForeign ==
  ASSUME NEW m, NEW s, NEW n, Quiet(m, s, n)
  PROVE  Foreign(m, s, n)
BY DEF Quiet, Foreign

(* Two calls for one statement in a row leave the reading of the others to them. *)
LEMMA ForeignTwice ==
  ASSUME NEW k, NEW m, NEW n, NEW s, Foreign(k, s, m), Foreign(m, s, n)
  PROVE  Foreign(k, s, n)
<1>1. OthersSame(k, n, s)
  BY DEF Foreign, OthersSame
<1>2. \A t \in Stmts \ {s} : n.owner = t <=> k.owner = t
  BY DEF Foreign
<1>3. ASSUME k.owner \in Stmts \ {s} PROVE n.cur \in {<<>>, k.cur}
  <2>1. m.owner = k.owner
    BY <1>3 DEF Foreign
  <2> QED BY <1>3, <2>1 DEF Foreign
<1> QED BY <1>1, <1>2, <1>3 DEF Foreign

(* So does one call of the client library for a statement without rows. *)
LEMMA LeavesIsForeign ==
  ASSUME NEW m, NEW s, NEW n, Leaves(m, s, n)
  PROVE  Foreign(m, s, n)
BY DEF Leaves, Foreign

(* n is c after a change of s and its handle, and perhaps of the counts. *)
Changes(c, s, n) ==
  /\ IsConn(n) /\ LibInv(n.lib) /\ n.my \in [Stmts -> StmtType]
  /\ \A t \in Stmts \ {s} : n.my[t] = c.my[t]
  /\ n.changes \in Count0 /\ n.last_insert_id \in Count0
  /\ s \in Stmts => StmtInv(n, s)

(* A call that touches no other rows keeps the connection consistent. *)
LEMMA QuietKeeps ==
  ASSUME NEW c, ConnOK(c), NEW s, NEW n, Changes(c, s, n), Quiet(c.lib, s, n.lib)
  PROVE  ConnOK(n)
<1>1. ASSUME NEW t \in Stmts, t # s PROVE StmtInv(n, t)
  <2>1. /\ StmtInv(c, t) /\ n.my[t] = c.my[t] /\ n.lib.stmt[t] = c.lib.stmt[t]
        /\ (n.lib.owner = t <=> c.lib.owner = t) /\ (c.lib.owner = t => n.lib.cur = c.lib.cur)
    BY <1>1 DEF ConnOK, Changes, Quiet, OthersSame
  <2> QED BY <2>1 DEF StmtInv
<1> QED BY <1>1 DEF ConnOK, Changes

(* What a call observed from outside returns. *)
Observed(c, s, r, o) ==
  /\ o.rc = r.rc /\ o.ran = r.ran /\ IsConn(o.conn) /\ o.conn.lib = r.conn.lib
  /\ o.conn.changes = r.conn.changes /\ o.conn.last_insert_id = r.conn.last_insert_id
  /\ o.conn.errcode = r.conn.errcode /\ o.conn.my \in [Stmts -> StmtType]
  /\ \A t \in Stmts :
       LET y == o.conn.my[t]
           x == r.conn.my[t]
       IN /\ y.live = x.live /\ y.select = x.select /\ y.executed = x.executed
          /\ y.has_result = x.has_result /\ y.left = x.left /\ y.broken = x.broken
          /\ y.disturbed <=> \/ x.disturbed
                             \/ /\ t # s /\ c.my[t].left > 0
                                /\ c.lib.cur # <<>> /\ r.conn.lib.cur = <<>>

(* Observe marks the statements whose rows a call has thrown away. *)
LEMMA ObserveIs ==
  ASSUME NEW c, NEW s, NEW r, DOMAIN r = {"conn", "rc", "ran"}, IsConn(r.conn),
         r.conn.my \in [Stmts -> StmtType]
  PROVE  Observed(c, s, r, Observe(c, s, r))
<1> DEFINE lost(t) == t # s /\ c.my[t].left > 0 /\ c.lib.cur # <<>> /\ r.conn.lib.cur = <<>>
           my == [t \in Stmts |-> [r.conn.my[t] EXCEPT !.disturbed = r.conn.my[t].disturbed \/ lost(t)]]
           o == Observe(c, s, r)
<1>1. o = [r EXCEPT !.conn.my = my]
  BY DEF Observe
<1>2. ASSUME NEW t \in Stmts
      PROVE  /\ my[t] \in StmtType
             /\ my[t].live = r.conn.my[t].live /\ my[t].select = r.conn.my[t].select
             /\ my[t].executed = r.conn.my[t].executed
             /\ my[t].has_result = r.conn.my[t].has_result
             /\ my[t].left = r.conn.my[t].left /\ my[t].broken = r.conn.my[t].broken
             /\ my[t].disturbed <=> r.conn.my[t].disturbed \/ lost(t)
  <2>1. r.conn.my[t] \in StmtType
    OBVIOUS
  <2>2. (r.conn.my[t].disturbed \/ lost(t)) \in BOOLEAN
    OBVIOUS
  <2> QED BY <2>1, <2>2 DEF StmtType
<1>3. my \in [Stmts -> StmtType]
  <2> DEFINE y(t) == [r.conn.my[t] EXCEPT !.disturbed = r.conn.my[t].disturbed \/ lost(t)]
  <2>1. \A t \in Stmts : y(t) \in StmtType
    BY <1>2
  <2> HIDE DEF y
  <2>2. [t \in Stmts |-> y(t)] \in [Stmts -> StmtType]
    BY <2>1
  <2> QED BY <2>2 DEF y
<1> HIDE DEF my, o
<1>4. /\ o.rc = r.rc /\ o.ran = r.ran /\ IsConn(o.conn) /\ o.conn.lib = r.conn.lib
      /\ o.conn.changes = r.conn.changes /\ o.conn.last_insert_id = r.conn.last_insert_id
      /\ o.conn.errcode = r.conn.errcode /\ o.conn.my = my
  BY <1>1 DEF IsConn
<1> QED BY <1>2, <1>3, <1>4 DEF Observed, o

(* With these marks every call for one statement keeps the others accounted for. *)
LEMMA ObserveKeeps ==
  ASSUME NEW c, ConnOK(c), NEW s, NEW r, Changes(c, s, r.conn), Foreign(c.lib, s, r.conn.lib),
         NEW o, Observed(c, s, r, o)
  PROVE  ConnOK(o.conn)
<1> DEFINE n == o.conn
<1>1. LibInv(n.lib) /\ n.lib = r.conn.lib
  BY DEF Observed, Changes
<1>2. ASSUME NEW t \in Stmts, t # s PROVE StmtInv(n, t)
  <2>1. /\ StmtInv(c, t) /\ r.conn.my[t] = c.my[t] /\ n.lib.stmt[t] = c.lib.stmt[t]
        /\ (n.lib.owner = t <=> c.lib.owner = t)
        /\ (c.lib.owner = t => n.lib.cur \in {<<>>, c.lib.cur})
    BY <1>1, <1>2 DEF ConnOK, Changes, Foreign, OthersSame
  <2>2. /\ n.my[t].live = c.my[t].live /\ n.my[t].select = c.my[t].select
        /\ n.my[t].has_result = c.my[t].has_result /\ n.my[t].left = c.my[t].left
        /\ n.my[t].broken = c.my[t].broken
        /\ n.my[t].disturbed <=> \/ c.my[t].disturbed
                                 \/ c.my[t].left > 0 /\ c.lib.cur # <<>> /\ n.lib.cur = <<>>
    <3>1. /\ n.my[t].live = r.conn.my[t].live /\ n.my[t].select = r.conn.my[t].select
          /\ n.my[t].has_result = r.conn.my[t].has_result /\ n.my[t].left = r.conn.my[t].left
          /\ n.my[t].broken = r.conn.my[t].broken
          /\ n.my[t].disturbed <=>
               \/ r.conn.my[t].disturbed
               \/ t # s /\ c.my[t].left > 0 /\ c.lib.cur # <<>> /\ r.conn.lib.cur = <<>>
      BY DEF Observed
    <3> QED BY <1>1, <1>2, <2>1, <3>1
  <2>3. n.my[t].left > 0 /\ ~n.my[t].disturbed => n.lib.owner = t /\ n.lib.cur # <<>>
    BY <2>1, <2>2 DEF StmtInv
  <2> QED BY <2>1, <2>2, <2>3 DEF StmtInv
<1>3. ASSUME s \in Stmts PROVE StmtInv(n, s)
  <2>1. /\ StmtInv(r.conn, s)
        /\ n.my[s].live = r.conn.my[s].live /\ n.my[s].select = r.conn.my[s].select
        /\ n.my[s].has_result = r.conn.my[s].has_result /\ n.my[s].left = r.conn.my[s].left
        /\ n.my[s].broken = r.conn.my[s].broken
        /\ (n.my[s].disturbed <=> r.conn.my[s].disturbed)
    BY <1>3 DEF Observed, Changes
  <2> QED BY <1>1, <2>1 DEF StmtInv
<1>4. ASSUME NEW t \in Stmts PROVE StmtInv(n, t)
  BY <1>2, <1>3
<1> QED BY <1>1, <1>4 DEF ConnOK, Observed, Changes

(* What a call for s does to the other statements: it may throw away rows of *)
(* theirs, which is marked, and nothing else.                                *)
Spares(c, s, n) ==
  \A t \in Stmts \ {s} :
    /\ n.lib.stmt[t] = c.lib.stmt[t] /\ (n.lib.owner = t <=> c.lib.owner = t)
    /\ n.my[t].live = c.my[t].live /\ n.my[t].executed = c.my[t].executed
    /\ n.my[t].has_result = c.my[t].has_result /\ n.my[t].left = c.my[t].left
    /\ n.my[t].broken = c.my[t].broken /\ (c.my[t].disturbed => n.my[t].disturbed)

(* Every call for one statement spares the others. *)
LEMMA ObserveSpares ==
  ASSUME NEW c, NEW s, NEW r, Changes(c, s, r.conn), Foreign(c.lib, s, r.conn.lib),
         NEW o, Observed(c, s, r, o)
  PROVE  Spares(c, s, o.conn)
<1> SUFFICES ASSUME NEW t \in Stmts \ {s}
             PROVE  /\ o.conn.lib.stmt[t] = c.lib.stmt[t]
                    /\ (o.conn.lib.owner = t <=> c.lib.owner = t)
                    /\ o.conn.my[t].live = c.my[t].live
                    /\ o.conn.my[t].executed = c.my[t].executed
                    /\ o.conn.my[t].has_result = c.my[t].has_result
                    /\ o.conn.my[t].left = c.my[t].left /\ o.conn.my[t].broken = c.my[t].broken
                    /\ (c.my[t].disturbed => o.conn.my[t].disturbed)
  BY DEF Spares
<1>1. /\ o.conn.lib = r.conn.lib /\ r.conn.my[t] = c.my[t]
      /\ r.conn.lib.stmt[t] = c.lib.stmt[t] /\ (r.conn.lib.owner = t <=> c.lib.owner = t)
  BY DEF Observed, Changes, Foreign, OthersSame
<1>2. LET y == o.conn.my[t]
          x == r.conn.my[t]
      IN /\ y.live = x.live /\ y.executed = x.executed /\ y.has_result = x.has_result
         /\ y.left = x.left /\ y.broken = x.broken /\ (x.disturbed => y.disturbed)
  BY DEF Observed
<1> QED BY <1>1, <1>2

(* So does a call that touches no other rows. *)
LEMMA QuietSpares ==
  ASSUME NEW c, NEW s, NEW n, Changes(c, s, n), Quiet(c.lib, s, n.lib)
  PROVE  Spares(c, s, n)
BY DEF Changes, Quiet, OthersSame, Spares
-----------------------------------------------------------------------------
(* set_ok changes the diagnostics only. *)
LEMMA SetOkKeeps ==
  ASSUME NEW c, ConnOK(c)
  PROVE  /\ ConnOK(SetOk(c)) /\ SetOk(c).lib = c.lib /\ SetOk(c).my = c.my
         /\ SetOk(c).changes = c.changes /\ SetOk(c).last_insert_id = c.last_insert_id
<1> DEFINE n == SetOk(c)
<1>1. /\ n.lib = c.lib /\ n.my = c.my /\ n.changes = c.changes
      /\ n.last_insert_id = c.last_insert_id /\ IsConn(n)
  BY DEF SetOk, ConnOK, IsConn
<1> HIDE DEF n
<1>2. ASSUME NEW s \in Stmts PROVE StmtInv(n, s)
  <2>1. StmtInv(c, s)
    BY DEF ConnOK
  <2> QED BY <1>1, <2>1 DEF StmtInv
<1>3. ConnOK(n)
  BY <1>1, <1>2 DEF ConnOK
<1> QED BY <1>1, <1>3 DEF n

(* Only the library's handles and the mylite_stmt of s change. *)
OnlyStmt(c, s, lib, y, n) ==
  /\ IsConn(n) /\ n.lib = lib /\ n.my \in [Stmts -> StmtType] /\ n.my[s] = y
  /\ \A t \in Stmts \ {s} : n.my[t] = c.my[t]
  /\ n.changes = c.changes /\ n.last_insert_id = c.last_insert_id

(* A change of one mylite_stmt and of the handles. *)
LEMMA StmtSet ==
  ASSUME NEW c, IsConn(c), c.my \in [Stmts -> StmtType], NEW s \in Stmts, NEW lib,
         NEW y \in StmtType, NEW n, n = [c EXCEPT !.lib = lib, !.my[s] = y]
  PROVE  OnlyStmt(c, s, lib, y, n)
BY DEF OnlyStmt, IsConn

(* release_statement_results: s reads no rows any more, and has none left. *)
Lets(c, s, n) ==
  /\ ConnOK(n) /\ ~n.lib.more /\ n.lib.owner # s /\ Quiet(c.lib, s, n.lib)
  /\ (c.lib.owner = s => n.lib.owner = None)
  /\ n.lib.stmt[s].columns = c.lib.stmt[s].columns
  /\ n.my[s] = [c.my[s] EXCEPT !.has_result = FALSE, !.has_row = FALSE,
                               !.left = 0, !.disturbed = FALSE]
  /\ \A t \in Stmts \ {s} : n.my[t] = c.my[t]
  /\ n.changes = c.changes /\ n.last_insert_id = c.last_insert_id /\ n.errcode = c.errcode

(* release_statement_results ends the reading of its statement. *)
LEMMA ReleaseIs ==
  ASSUME NEW c, ConnOK(c), ~c.lib.more, NEW s \in Stmts
  PROVE  Lets(c, s, ReleaseStatementResults(c, s))
<1> DEFINE lib == IF c.my[s].has_result THEN FreeResult(c.lib, s, TRUE) ELSE c.lib
           y == [c.my[s] EXCEPT !.has_result = FALSE, !.has_row = FALSE,
                                !.left = 0, !.disturbed = FALSE]
           n == ReleaseStatementResults(c, s)
           m == c.lib
           h == FreedHandle(m.stmt[s], TRUE)
<1>1. /\ IsConn(c) /\ LibInv(m) /\ StmtInv(c, s) /\ c.my[s] \in StmtType
      /\ c.my \in [Stmts -> StmtType]
  BY DEF ConnOK
<1>2. m.owner = s => m.stmt[s].state # "INIT" /\ c.my[s].has_result
  BY <1>1 DEF LibInv, HandleInv, Executed, StmtInv
<1>3. /\ LibInv(lib) /\ ~lib.more /\ lib.owner # s /\ Quiet(m, s, lib)
      /\ lib.stmt[s].columns = m.stmt[s].columns
      /\ (m.owner = s => lib.owner = None)
      /\ (m.stmt[s].state # "INIT" => lib.stmt[s].state # "INIT")
  <2>1. CASE c.my[s].has_result /\ m.stmt[s].state # "INIT"
    <3>1. lib = FreeResult(m, s, TRUE)
      BY <2>1
    <3>2. Releases(m, s, h, lib) /\ Resting(h)
      BY <1>1, <2>1, <3>1, FreeIs, FreedRests
    <3> HIDE DEF lib
    <3>3. LibInv(lib) /\ lib.owner # s /\ (lib.more <=> m.more)
      BY <1>1, <3>2, ReleasesKeeps
    <3>4. h.columns = m.stmt[s].columns /\ h.state = "PREPARE"
      BY <1>1 DEF FreedHandle, LibInv, IsLib, StmtFields
    <3>5. lib.stmt[s] = h /\ (m.owner = s => lib.owner = None)
      BY <3>2 DEF Releases
    <3>6. Quiet(m, s, lib)
      <4>1. OthersSame(m, lib, s) /\ (m.owner # s => lib.owner = m.owner /\ lib.cur = m.cur)
        BY <3>2 DEF Releases
      <4>2. m.owner = s \/ m.owner # s
        OBVIOUS
      <4> QED BY <3>5, <4>1, <4>2, LibraryAssumption DEF Quiet
    <3> QED BY <3>3, <3>4, <3>5, <3>6
  <2>2. CASE ~c.my[s].has_result \/ m.stmt[s].state = "INIT"
    <3>1. lib = m /\ m.owner # s
      BY <1>2, <2>2 DEF FreeResult
    <3> HIDE DEF lib
    <3> QED BY <1>1, <3>1 DEF Quiet, OthersSame
  <2> QED BY <2>1, <2>2
<1>4. n = [c EXCEPT !.lib = lib, !.my[s] = y]
  BY DEF ReleaseStatementResults
<1>5. /\ y \in StmtType /\ y.left = 0 /\ y.live = c.my[s].live /\ y.select = c.my[s].select
      /\ y.broken = c.my[s].broken
  BY <1>1 DEF StmtType
<1> HIDE DEF lib, y, n
<1>6. OnlyStmt(c, s, lib, y, n) /\ n.errcode = c.errcode
  <2>1. n.errcode = c.errcode
    BY <1>1, <1>4 DEF IsConn
  <2> QED BY <1>1, <1>4, <1>5, <2>1, StmtSet
<1>7. StmtInv(n, s)
  <2>1. /\ n.my[s] = y /\ n.lib = lib
    BY <1>6 DEF OnlyStmt
  <2>2. ~(0 > 0)
    BY SMT
  <2> QED BY <1>1, <1>3, <1>5, <2>1, <2>2 DEF StmtInv
<1>8. Changes(c, s, n)
  BY <1>3, <1>6, <1>7 DEF Changes, OnlyStmt, ConnOK
<1>9. ConnOK(n)
  BY <1>3, <1>6, <1>8, QuietKeeps DEF OnlyStmt
<1> QED BY <1>3, <1>6, <1>9 DEF Lets, OnlyStmt, y, n
-----------------------------------------------------------------------------
(* A failed call changes the handles and the diagnostics only. *)
LEMMA FailureIs ==
  ASSUME NEW c, IsConn(c), c.my \in [Stmts -> StmtType], NEW s \in Stmts, NEW lib,
         NEW n, n = Failure(c, lib)
  PROVE  OnlyStmt(c, s, lib, c.my[s], n) /\ n.errcode
BY DEF Failure, OnlyStmt, IsConn

(* The rows of s are over: what is left of them was taken by another call. *)
LEMMA RowsAreOver ==
  ASSUME NEW c, NEW s \in Stmts, StmtInv(c, s),
         c.lib.owner = s => c.lib.cur = <<>> \/ \E d : c.lib.cur = <<d>> /\ d.n = 0
  PROVE  ~(c.my[s].left > 0 /\ ~c.my[s].disturbed)
<1> SUFFICES ASSUME c.my[s].left > 0, ~c.my[s].disturbed PROVE FALSE
  OBVIOUS
<1>1. c.lib.owner = s /\ c.lib.cur # <<>> /\ c.my[s].left = c.lib.cur[1].n
  BY DEF StmtInv
<1>2. PICK d : c.lib.cur = <<d>> /\ d.n = 0
  BY <1>1
<1>3. c.lib.cur[1] = d
  BY <1>2, SMT
<1>4. c.my[s].left = 0
  BY <1>1, <1>2, <1>3
<1> QED BY <1>4, SMT

(* fetch_statement_row. *)
FetchesRow(c, s, ran, r) ==
  LET n == r.conn IN
  /\ DOMAIN r = {"conn", "rc", "ran"} /\ r.ran = ran /\ r.rc \in {"ROW", "DONE", "ERROR"}
  /\ Changes(c, s, n) /\ ~n.lib.more /\ Quiet(c.lib, s, n.lib)
  /\ n.changes = c.changes /\ n.last_insert_id = c.last_insert_id
  /\ r.rc = "DONE" => n.lib.owner # s
  /\ r.rc = "ERROR" => \/ c.lib.owner # s
                       \/ \E d : c.lib.cur = <<d>> /\ d.kind = "bad"
                       \/ c.lib.stmt[s].error

(* A handle whose next fetch fails. *)
Faulty(h) == h.read = "no_result_set" \/ (h.read = "no_data" /\ h.error)

(* What fetch_statement_row gives: a row of its own, or the end once there    *)
(* are no more of them, or an error that the next fetch meets again.          *)
Delivers(c, s, r) ==
  LET n == r.conn IN
  /\ n.my[s].live = c.my[s].live /\ n.my[s].executed = c.my[s].executed
  /\ n.my[s].broken = c.my[s].broken /\ n.my[s].disturbed = c.my[s].disturbed
  /\ r.rc = "ROW" => /\ c.lib.owner = s /\ n.lib.owner = s
                     /\ c.my[s].left > 0 /\ n.my[s].left = c.my[s].left - 1
  /\ r.rc # "ROW" => n.lib.owner # s /\ ~(c.my[s].left > 0 /\ ~c.my[s].disturbed)
  /\ r.rc = "ERROR" => /\ n.errcode /\ n.my[s].has_result = c.my[s].has_result
                       /\ Faulty(n.lib.stmt[s])
  /\ Faulty(c.lib.stmt[s]) => r.rc = "ERROR"
  /\ c.lib.owner = s /\ (\E d : c.lib.cur = <<d>> /\ d.kind = "bad") => r.rc = "ERROR"

(* fetch_statement_row: a row, the end or an error. *)
LEMMA FetchRowIs ==
  ASSUME NEW c, IsConn(c), LibInv(c.lib), c.my \in [Stmts -> StmtType],
         c.changes \in Count0, c.last_insert_id \in Count0, ~c.lib.more,
         NEW s \in Stmts, StmtInv(c, s), c.my[s].live, NEW ran
  PROVE  /\ FetchesRow(c, s, ran, FetchStatementRow(c, s, ran))
         /\ Delivers(c, s, FetchStatementRow(c, s, ran))
<1> DEFINE m == c.lib
           fetch == StmtFetch(m, s)
           drain == StmtNextResult(fetch.lib, s)
           over == [c EXCEPT !.my[s].has_row = FALSE]
           r == FetchStatementRow(c, s, ran)
           n == r.conn
           my == c.my[s]
<1>1. Fetches(m, s, fetch)
  BY FetchRests, FetchOwn
<1>2. my \in StmtType
  OBVIOUS
<1>3. CASE fetch.rc = "row"
  <2> DEFINE y == [my EXCEPT !.has_row = TRUE, !.left = my.left - 1]
  <2>1. /\ r.rc = "ROW" /\ r.ran = ran /\ DOMAIN r = {"conn", "rc", "ran"}
        /\ n = [c EXCEPT !.lib = fetch.lib, !.my[s] = y]
    BY <1>3 DEF FetchStatementRow, Result
  <2>2. PICK d : /\ m.owner = s /\ m.cur = <<d>> /\ d.n \in Nat \ {0} /\ fetch.lib.owner = s
                 /\ fetch.lib.cur = <<[d EXCEPT !.n = d.n - 1]>>
    BY <1>1, <1>3 DEF Fetches
  <2> HIDE DEF r, fetch
  <2>3. <<d>> # <<>> /\ <<d>>[1] = d /\ \A e : <<e>>[1] = e
    BY Single
  <2>4. my.left = d.n
    BY <2>2, <2>3 DEF StmtInv
  <2>5. my.left - 1 \in Nat
    BY <2>2, <2>4, SMT
  <2>6. /\ y \in StmtType /\ y.left = my.left - 1 /\ y.live = my.live /\ y.select = my.select
        /\ y.broken = my.broken /\ y.has_result = my.has_result
        /\ y.executed = my.executed /\ y.disturbed = my.disturbed
    BY <1>2, <2>5 DEF StmtType
  <2> HIDE DEF y
  <2>7. OnlyStmt(c, s, fetch.lib, y, n)
    BY <2>1, <2>6, StmtSet
  <2>8. n.lib = fetch.lib /\ n.my[s] = y
    BY <2>7 DEF OnlyStmt
  <2>9. [d EXCEPT !.n = d.n - 1].n = d.n - 1
    <3>1. PICK e : m.cur = <<e>> /\ Readable(e)
      BY <2>2, Single DEF LibInv
    <3>2. m.cur[1] = e /\ m.cur[1] = d
      BY <2>2, <3>1, SMT
    <3> QED BY <3>1, <3>2, SMT DEF Readable, Datasets
  <2>10. fetch.lib.cur[1].n = d.n - 1
    BY <2>2, <2>3, <2>9
  <2>11. StmtInv(n, s)
    <3>1. fetch.lib.cur # <<>>
      BY <2>2, Single
    <3>2. /\ fetch.lib.stmt[s].columns = m.stmt[s].columns
          /\ fetch.lib.stmt[s].state # "INIT"
      BY <1>1 DEF Fetches
    <3>3. my.has_result
      BY <2>2 DEF StmtInv
    <3> QED BY <2>2, <2>4, <2>6, <2>8, <2>10, <3>1, <3>2, <3>3 DEF StmtInv
  <2>12. LibInv(fetch.lib) /\ ~fetch.lib.more /\ Quiet(m, s, fetch.lib)
    BY <1>1 DEF Fetches
  <2>13. Changes(c, s, n)
    BY <2>7, <2>11, <2>12 DEF Changes, OnlyStmt
  <2>14. FetchesRow(c, s, ran, r)
    BY <2>1, <2>7, <2>12, <2>13 DEF FetchesRow, OnlyStmt
  <2>15. Delivers(c, s, r)
    <3>1. my.left > 0
      BY <2>2, <2>4, SMT
    <3>2. ~Faulty(m.stmt[s]) /\ ~(m.owner = s /\ \E b : m.cur = <<b>> /\ b.kind = "bad")
      BY <1>1, <1>3 DEF Fetches, Faulty
    <3> QED BY <2>1, <2>2, <2>6, <2>8, <3>1, <3>2 DEF Delivers
  <2> QED BY <2>14, <2>15 DEF r
<1>4. ASSUME fetch.rc # "row", NEW y \in StmtType, NEW lib,
             OnlyStmt(c, s, lib, y, n),
             y.live = my.live, y.select = my.select, y.left = my.left,
             y.executed = my.executed, y.disturbed = my.disturbed, y.broken = my.broken,
             LibInv(lib), ~lib.more, lib.owner # s, lib.stmt[s].columns <=> m.stmt[s].columns,
             lib.stmt[s].state # "INIT", Quiet(m, s, lib)
      PROVE  /\ Changes(c, s, n) /\ ~n.lib.more /\ Quiet(m, s, n.lib) /\ n.lib.owner # s
             /\ n.changes = c.changes /\ n.last_insert_id = c.last_insert_id
             /\ ~(my.left > 0 /\ ~my.disturbed) /\ n.my[s] = y /\ n.lib = lib
             /\ n.my[s].live = my.live /\ n.my[s].executed = my.executed
             /\ n.my[s].disturbed = my.disturbed /\ n.my[s].broken = my.broken
  <2> HIDE DEF r
  <2>1. n.lib = lib /\ n.my[s] = y
    BY <1>4 DEF OnlyStmt
  <2>2. c.lib.owner = s => c.lib.cur = <<>> \/ \E d : c.lib.cur = <<d>> /\ d.n = 0
    BY <1>1, <1>4 DEF Fetches
  <2>3. ~(my.left > 0 /\ ~my.disturbed)
    BY <2>2, RowsAreOver
  <2>4. StmtInv(n, s)
    BY <1>4, <2>1, <2>3 DEF StmtInv
  <2> QED BY <1>4, <2>1, <2>3, <2>4 DEF Changes, OnlyStmt
<1>5. CASE fetch.rc = "error"
  <2>1. /\ r.rc = "ERROR" /\ r.ran = ran /\ DOMAIN r = {"conn", "rc", "ran"}
        /\ n = Failure(c, fetch.lib)
    BY <1>5 DEF FetchStatementRow, Result
  <2>2. /\ fetch.rc # "row" /\ LibInv(fetch.lib) /\ ~fetch.lib.more /\ fetch.lib.owner # s
        /\ (fetch.lib.stmt[s].columns <=> m.stmt[s].columns)
        /\ fetch.lib.stmt[s].state # "INIT" /\ Quiet(m, s, fetch.lib)
        /\ c.lib.owner # s \/ \E d : c.lib.cur = <<d>> /\ d.kind = "bad"
        /\ Faulty(fetch.lib.stmt[s])
    BY <1>1, <1>5 DEF Fetches, Faulty
  <2> HIDE DEF r, fetch
  <2>3. OnlyStmt(c, s, fetch.lib, my, n) /\ n.errcode
    BY <2>1, FailureIs
  <2>4. /\ Changes(c, s, n) /\ ~n.lib.more /\ Quiet(m, s, n.lib) /\ n.lib.owner # s
        /\ n.changes = c.changes /\ n.last_insert_id = c.last_insert_id
        /\ ~(my.left > 0 /\ ~my.disturbed) /\ n.my[s] = my /\ n.lib = fetch.lib
    BY <1>2, <1>4, <2>2, <2>3
  <2>5. FetchesRow(c, s, ran, r)
    BY <2>1, <2>2, <2>4 DEF FetchesRow
  <2>6. Delivers(c, s, r)
    BY <2>1, <2>2, <2>3, <2>4 DEF Delivers
  <2> QED BY <2>5, <2>6 DEF r
<1>6. CASE fetch.rc = "end"
  <2>1. /\ fetch.rc # "row" /\ LibInv(fetch.lib) /\ ~fetch.lib.more /\ fetch.lib.owner # s
        /\ (fetch.lib.stmt[s].columns <=> m.stmt[s].columns)
        /\ fetch.lib.stmt[s].state # "INIT" /\ Quiet(m, s, fetch.lib)
        /\ fetch.lib.stmt[s].error = m.stmt[s].error
        /\ (m.owner = s => fetch.lib.owner = None) /\ fetch.lib.stmt[s].read = "no_data"
        /\ m.stmt[s].read # "no_result_set"
        /\ ~(m.owner = s /\ \E d : m.cur = <<d>> /\ d.kind = "bad")
    BY <1>1, <1>6 DEF Fetches
  <2>2. NextIsEnd(fetch.lib, s, drain)
    BY <2>1, StmtNextIsEnd
  <2>3. /\ r.ran = ran /\ DOMAIN r = {"conn", "rc", "ran"}
        /\ r.rc = IF drain.rc = "error" THEN "ERROR" ELSE "DONE"
        /\ n = IF drain.rc = "error" THEN Failure(over, drain.lib)
               ELSE [over EXCEPT !.lib = drain.lib, !.my[s].has_result = FALSE]
    BY <1>6 DEF FetchStatementRow, Result
  <2>4. /\ IsConn(over) /\ over.my \in [Stmts -> StmtType]
        /\ over.my[s] = [my EXCEPT !.has_row = FALSE]
        /\ \A t \in Stmts \ {s} : over.my[t] = c.my[t]
        /\ over.changes = c.changes /\ over.last_insert_id = c.last_insert_id
    <3>1. [my EXCEPT !.has_row = FALSE] \in StmtType
      BY <1>2 DEF StmtType
    <3> DEFINE x == [my EXCEPT !.has_row = FALSE]
    <3>2. over = [c EXCEPT !.my[s] = x]
      OBVIOUS
    <3> HIDE DEF x
    <3> QED BY <3>1, <3>2 DEF IsConn
  <2> HIDE DEF over, r, fetch, drain
  <2> DEFINE x == over.my[s]
             y == IF drain.rc = "error" THEN x ELSE [x EXCEPT !.has_result = FALSE]
  <2>5. /\ x \in StmtType /\ x.live = my.live /\ x.select = my.select /\ x.left = my.left
        /\ x.disturbed = my.disturbed /\ x.broken = my.broken /\ x.executed = my.executed
        /\ x.has_result = my.has_result
    BY <1>2, <2>4 DEF StmtType
  <2> HIDE DEF x
  <2>6. /\ y \in StmtType /\ y.live = my.live /\ y.select = my.select /\ y.left = my.left
        /\ y.disturbed = my.disturbed /\ y.broken = my.broken /\ y.executed = my.executed
        /\ (drain.rc = "error" => y.has_result = my.has_result)
    BY <2>5 DEF StmtType
  <2>7. OnlyStmt(over, s, drain.lib, y, n) /\ (drain.rc = "error" => n.errcode)
    <3>1. CASE drain.rc = "error"
      <4>1. n = Failure(over, drain.lib) /\ y = over.my[s]
        BY <2>3, <3>1 DEF x
      <4> HIDE DEF y
      <4> QED BY <2>4, <4>1, FailureIs
    <3>2. CASE drain.rc # "error"
      <4>1. n = [over EXCEPT !.lib = drain.lib, !.my[s] = [over.my[s] EXCEPT !.has_result = FALSE]]
        BY <2>3, <3>2
      <4>2. n = [over EXCEPT !.lib = drain.lib, !.my[s] = y]
        BY <3>2, <4>1 DEF x
      <4> HIDE DEF y
      <4> QED BY <2>4, <2>6, <3>2, <4>2, StmtSet
    <3> QED BY <3>1, <3>2
  <2> HIDE DEF y
  <2>8. OnlyStmt(c, s, drain.lib, y, n)
    BY <2>4, <2>7 DEF OnlyStmt
  <2>9. /\ LibInv(drain.lib) /\ ~drain.lib.more /\ drain.lib.owner # s
        /\ (drain.lib.stmt[s].columns <=> m.stmt[s].columns)
        /\ drain.lib.stmt[s].state # "INIT"
        /\ drain.rc = "error" => m.owner # s \/ m.stmt[s].error
        /\ drain.rc = "error" => Faulty(drain.lib.stmt[s])
        /\ m.stmt[s].error => drain.rc = "error"
    BY <2>1, <2>2 DEF NextIsEnd, Ready, LibInv, Faulty
  <2>10. Quiet(m, s, drain.lib)
    BY <2>1, <2>2 DEF NextIsEnd, Quiet, OthersSame
  <2>11. /\ Changes(c, s, n) /\ ~n.lib.more /\ Quiet(m, s, n.lib) /\ n.lib.owner # s
         /\ n.changes = c.changes /\ n.last_insert_id = c.last_insert_id
         /\ ~(my.left > 0 /\ ~my.disturbed) /\ n.my[s] = y /\ n.lib = drain.lib
    BY <1>4, <2>1, <2>6, <2>8, <2>9, <2>10
  <2>12. FetchesRow(c, s, ran, r)
    BY <2>3, <2>9, <2>11 DEF FetchesRow
  <2>13. Delivers(c, s, r)
    <3>1. Faulty(m.stmt[s]) => r.rc = "ERROR"
      BY <2>1, <2>3, <2>9 DEF Faulty
    <3> QED BY <2>1, <2>3, <2>6, <2>7, <2>9, <2>11, <3>1 DEF Delivers
  <2> QED BY <2>12, <2>13 DEF r
<1> QED BY <1>1, <1>3, <1>5, <1>6 DEF Fetches
-----------------------------------------------------------------------------
(* mysql_stmt_execute leaves the reading of other statements to them. *)
LEMMA ExecutesIsForeign ==
  ASSUME NEW m, LibInv(m), NEW s \in Stmts, NEW d, NEW r, Executes(m, s, d, r), m.owner # s
  PROVE  Foreign(m, s, r.lib)
<1>1. OthersSame(m, r.lib, s)
  BY DEF Executes
<1>2. CASE Ready(m)
  <2>1. m.owner = None /\ r.lib.owner \in {s, None}
    BY <1>2 DEF Executes, LibInv, Ready
  <2> QED BY <1>1, <2>1, LibraryAssumption DEF Foreign
<1>3. CASE ~Ready(m)
  <2>1. r.lib.owner = m.owner /\ r.lib.cur = <<>>
    BY <1>3 DEF Executes
  <2> QED BY <1>1, <2>1 DEF Foreign
<1> QED BY <1>2, <1>3

(* The first step of an execution, before it is observed from outside. *)
Runs(c, s, d, r) ==
  LET n == r.conn IN
  /\ DOMAIN r = {"conn", "rc", "ran"} /\ r.rc \in {"ROW", "DONE", "ERROR"}
  /\ Changes(c, s, n) /\ ~n.lib.more /\ Foreign(c.lib, s, n.lib)
  /\ r.rc = "DONE" => n.lib.owner # s
  /\ r.rc = "ERROR" /\ r.ran => c.my[s].broken /\ n.my[s].broken
  /\ r.rc = "DONE" /\ d.kind = "ok" => n.changes = d.n /\ n.last_insert_id = d.n

(* What the first step of an execution gives: it is of an answer of this      *)
(* execution, and an error leaves the statement to be executed again or       *)
(* every further fetch of it to fail.                                         *)
Produces(c, s, d, r) ==
  LET n == r.conn IN
  /\ n.my[s].live = c.my[s].live /\ n.my[s].broken = c.my[s].broken
  /\ r.rc # "ERROR" => r.ran /\ n.my[s].executed /\ ~n.my[s].disturbed
  /\ r.rc = "ROW" => /\ HasColumns(d) /\ d.n > 0
                     /\ n.lib.owner = s /\ n.my[s].left = d.n - 1
  /\ r.rc = "DONE" => (HasColumns(d) => d.n = 0)
  /\ r.rc = "ERROR" => /\ n.errcode /\ (c.my[s].broken \/ n.lib.owner # s)
                       /\ n.my[s].executed => \/ c.my[s].executed
                                              \/ n.my[s].has_result /\ Faulty(n.lib.stmt[s])

(* The statement s of n has the rows of d to read, if the server produced any. *)
Begins(k, s, d, n) ==
  /\ k.my[s].live /\ n.my[s].live = k.my[s].live /\ n.my[s].select = k.my[s].select
  /\ n.my[s].broken = k.my[s].broken /\ (k.lib.stmt[s].columns => n.my[s].has_result)
  /\ n.my[s].left = IF Ready(k.lib) /\ d.kind = "rows" THEN d.n ELSE 0

(* After an execution the rows of the statement are accounted for. *)
LEMMA StartsReading ==
  ASSUME NEW k, NEW s \in Stmts, StmtInv(k, s), k.lib.owner # s,
         NEW d, Answers(d, k.lib.stmt[s].columns), NEW x, Executes(k.lib, s, d, x),
         NEW n, n.lib = x.lib, Begins(k, s, d, n)
  PROVE  StmtInv(n, s)
<1> DEFINE m == k.lib
           y == n.my[s]
<1>1. ~(0 > 0)
  BY SMT
<1>2. n.lib.stmt[s].columns <=> y.select
  BY DEF Begins, Executes, StmtInv
<1>3. ~y.broken => n.lib.stmt[s].state # "INIT"
  BY DEF Begins, Executes, StmtInv
<1>4. CASE ~Ready(m)
  <2>1. n.lib.owner # s /\ y.left = 0
    BY <1>4 DEF Begins, Executes
  <2> QED BY <1>1, <1>2, <1>3, <2>1 DEF Begins, StmtInv
<1>5. CASE Ready(m) /\ ~HasColumns(d)
  <2>1. n.lib.owner # s /\ y.left = 0
    BY <1>5, LibraryAssumption DEF Begins, Executes, HasColumns
  <2> QED BY <1>1, <1>2, <1>3, <2>1 DEF Begins, StmtInv
<1>6. CASE Ready(m) /\ HasColumns(d)
  <2>1. n.lib.owner = s /\ n.lib.cur = <<d>> /\ y.has_result
    BY <1>6 DEF Begins, Executes, Answers
  <2>2. y.left = d.n
    BY <1>6 DEF Begins, Answers, HasColumns
  <2>3. n.lib.cur # <<>> /\ n.lib.cur[1] = d
    BY <2>1, SMT
  <2> QED BY <1>2, <1>3, <2>1, <2>2, <2>3 DEF Begins, StmtInv
<1> QED BY <1>4, <1>5, <1>6

(* execute_statement with any answer of the server, or refused. *)
LEMMA ExecuteIs ==
  ASSUME NEW c, ConnOK(c), ~c.lib.more, NEW s \in Stmts, c.my[s].live,
         NEW d, Answers(d, c.my[s].select)
  PROVE  /\ Runs(c, s, d, ExecuteStatement(c, s, <<d>>))
         /\ Produces(c, s, d, ExecuteStatement(c, s, <<d>>))
<1> DEFINE k == ReleaseStatementResults(SetOk(c), s)
           ran == Ready(FreeResult(k.lib, s, TRUE)) /\ Succeeds(<<d>>)
           left == IF ran /\ HasColumns(<<d>>[1]) THEN <<d>>[1].n ELSE 0
           y0 == [k.my[s] EXCEPT !.has_result = k.lib.stmt[s].columns, !.left = left]
           setup == [k EXCEPT !.my[s] = y0]
           exec == StmtExecute(setup.lib, s, <<d>>)
           y1 == [setup.my[s] EXCEPT
                    !.executed = TRUE,
                    !.has_result = setup.my[s].has_result \/ exec.lib.stmt[s].columns]
           done == [setup EXCEPT !.lib = exec.lib, !.changes = 0,
                                 !.last_insert_id = exec.lib.insert_id, !.my[s] = y1]
           r == ExecuteStatement(c, s, <<d>>)
<1>1. r = IF exec.rc = "error" THEN Result(Failure(setup, exec.lib), "ERROR", ran)
          ELSE IF done.my[s].has_result THEN FetchStatementRow(done, s, ran)
          ELSE Result([done EXCEPT !.changes = CountOf(exec.lib.affected)], "DONE", ran)
  BY DEF ExecuteStatement
<1>2. /\ ConnOK(SetOk(c)) /\ SetOk(c).lib = c.lib /\ SetOk(c).my = c.my
  BY SetOkKeeps
<1>3. Lets(SetOk(c), s, k)
  BY <1>2, ReleaseIs
<1> HIDE DEF k, r
<1>4. /\ ConnOK(k) /\ IsConn(k) /\ LibInv(k.lib) /\ ~k.lib.more /\ k.lib.owner # s
      /\ Quiet(c.lib, s, k.lib) /\ k.my \in [Stmts -> StmtType] /\ k.my[s] \in StmtType
      /\ StmtInv(k, s) /\ \A t \in Stmts \ {s} : k.my[t] = c.my[t]
  BY <1>2, <1>3 DEF Lets, ConnOK
<1>5. /\ k.my[s].live = c.my[s].live /\ k.my[s].select = c.my[s].select
      /\ k.my[s].broken = c.my[s].broken /\ k.my[s].executed = c.my[s].executed
      /\ k.my[s].disturbed = FALSE
  <2>1. k.my[s] = [c.my[s] EXCEPT !.has_result = FALSE, !.has_row = FALSE,
                                  !.left = 0, !.disturbed = FALSE]
    BY <1>2, <1>3 DEF Lets
  <2>2. c.my[s] \in StmtType
    BY DEF ConnOK
  <2> QED BY <2>1, <2>2 DEF StmtType
<1>6. /\ k.lib.stmt[s].columns \in BOOLEAN /\ Answers(d, k.lib.stmt[s].columns)
  <2>1. k.lib.stmt[s].columns \in BOOLEAN /\ (k.lib.stmt[s].columns <=> c.my[s].select)
    BY <1>4, <1>5 DEF LibInv, HandleInv, StmtInv
  <2> QED BY <2>1 DEF Answers
<1>7. <<d>>[1] = d /\ DOMAIN <<d>> = {1}
  BY Single
<1>8. ran <=> Ready(k.lib) /\ d.kind \in {"ok", "rows"}
  <2>1. Ready(FreeResult(k.lib, s, TRUE)) <=> Ready(k.lib)
    BY <1>4, FreeOfResting DEF Frees, Ready
  <2>2. Succeeds(<<d>>) <=> d.kind \in {"ok", "rows"}
    BY <1>7 DEF Succeeds
  <2> QED BY <2>1, <2>2
<1> HIDE DEF ran
<1>9. /\ left = IF Ready(k.lib) /\ d.kind = "rows" THEN d.n ELSE 0
      /\ left \in Nat
  <2>1. left = IF Ready(k.lib) /\ d.kind = "rows" THEN d.n ELSE 0
    BY <1>7, <1>8 DEF HasColumns
  <2>2. d.n \in Nat
    BY DEF Answers, Datasets
  <2> HIDE DEF left
  <2> QED BY <2>1, <2>2, SMT
<1> HIDE DEF left
<1>10. /\ y0 \in StmtType /\ y0.has_result = k.lib.stmt[s].columns /\ y0.left = left
       /\ y0.live = c.my[s].live /\ y0.select = c.my[s].select /\ y0.broken = c.my[s].broken
       /\ y0.executed = c.my[s].executed /\ y0.disturbed = FALSE
  BY <1>4, <1>5, <1>6, <1>9 DEF StmtType
<1> HIDE DEF y0
<1>11. /\ IsConn(setup) /\ setup.lib = k.lib /\ setup.my \in [Stmts -> StmtType]
       /\ setup.my[s] = y0 /\ \A t \in Stmts \ {s} : setup.my[t] = c.my[t]
       /\ setup.changes \in Count0 /\ setup.last_insert_id \in Count0
  BY <1>4, <1>10 DEF IsConn, ConnOK
<1> HIDE DEF setup
<1>12. Executes(k.lib, s, d, exec)
  BY <1>4, <1>6, <1>11, StmtExecuteIs
<1> HIDE DEF exec
<1>13. /\ LibInv(exec.lib) /\ ~exec.lib.more /\ (exec.lib.stmt[s].columns <=> y0.has_result)
       /\ exec.lib.insert_id \in Count0
  BY <1>10, <1>12 DEF Executes, LibInv, Count0
<1>14. Foreign(c.lib, s, exec.lib)
  <2>1. Foreign(c.lib, s, k.lib)
    BY <1>4, QuietIsForeign
  <2>2. Foreign(k.lib, s, exec.lib)
    BY <1>4, <1>12, ExecutesIsForeign
  <2> QED BY <2>1, <2>2, ForeignTwice
<1>15. CASE exec.rc = "error"
  <2> DEFINE n == r.conn
  <2>1. n = Failure(setup, exec.lib) /\ r.rc = "ERROR" /\ r.ran = ran
        /\ DOMAIN r = {"conn", "rc", "ran"}
    BY <1>1, <1>15 DEF Result
  <2>2. OnlyStmt(setup, s, exec.lib, y0, n) /\ n.errcode
    BY <1>11, <2>1, FailureIs
  <2>3. n.lib = exec.lib /\ n.my[s] = y0
    BY <2>2 DEF OnlyStmt
  <2>4. StmtInv(n, s)
    <3>1. Begins(k, s, d, n)
      BY <1>5, <1>9, <1>10, <2>3 DEF Begins
    <3> QED BY <1>4, <1>6, <1>12, <2>3, <3>1, StartsReading
  <2>5. Changes(c, s, n)
    BY <1>11, <1>13, <2>2, <2>4 DEF Changes, OnlyStmt
  <2>6. ran => c.my[s].broken
    <3>1. ran => k.lib.stmt[s].state = "INIT"
      BY <1>8, <1>12, <1>15 DEF Executes
    <3> QED BY <1>4, <1>5, <3>1 DEF StmtInv
  <2>7. Runs(c, s, d, r)
    BY <1>10, <1>13, <1>14, <2>1, <2>3, <2>5, <2>6 DEF Runs
  <2>8. Produces(c, s, d, r)
    <3>1. c.my[s].broken \/ exec.lib.owner # s
      <4>1. CASE ~Ready(k.lib) \/ ~HasColumns(d)
        BY <1>4, <1>12, <4>1, LibraryAssumption DEF Executes
      <4>2. CASE Ready(k.lib) /\ HasColumns(d)
        <5>1. d.kind # "error"
          BY <4>2 DEF HasColumns
        <5>2. k.lib.stmt[s].state = "INIT"
          BY <1>12, <1>15, <4>2, <5>1 DEF Executes
        <5> QED BY <1>4, <1>5, <5>2 DEF StmtInv
      <4> QED BY <4>1, <4>2
    <3> QED BY <1>10, <2>1, <2>2, <2>3, <3>1 DEF Produces
  <2> QED BY <2>7, <2>8 DEF r
<1>16. CASE exec.rc # "error"
  <2>1. Ready(k.lib) /\ d.kind # "error" /\ ~exec.lib.stmt[s].error
    BY <1>12, <1>16 DEF Executes
  <2>2. /\ y1 \in StmtType /\ y1.has_result = y0.has_result /\ y1.left = left
        /\ y1.live = c.my[s].live /\ y1.select = c.my[s].select
        /\ y1.broken = c.my[s].broken /\ y1.executed /\ y1.disturbed = FALSE
    <3>1. (setup.my[s].has_result \/ exec.lib.stmt[s].columns) = y0.has_result
      <4>1. y0.has_result \in BOOLEAN
        BY <1>6, <1>10
      <4> QED BY <1>11, <1>13, <4>1
    <3> QED BY <1>10, <1>11, <3>1 DEF StmtType
  <2> HIDE DEF y1
  <2>3. /\ IsConn(done) /\ done.lib = exec.lib /\ done.my \in [Stmts -> StmtType]
        /\ done.my[s] = y1 /\ \A t \in Stmts \ {s} : done.my[t] = c.my[t]
        /\ done.changes = 0 /\ done.last_insert_id = exec.lib.insert_id
    BY <1>11, <2>2 DEF IsConn
  <2> HIDE DEF done
  <2>4. 0 \in Count0
    BY DEF Count0
  <2>5. StmtInv(done, s) /\ done.my[s].live
    <3>1. Begins(k, s, d, done)
      BY <1>5, <1>9, <1>10, <2>2, <2>3 DEF Begins
    <3>2. StmtInv(done, s)
      BY <1>4, <1>6, <1>12, <2>3, <3>1, StartsReading
    <3> QED BY <3>1, <3>2 DEF Begins
  <2>6. CASE y1.has_result
    <3>1. r = FetchStatementRow(done, s, ran)
      BY <1>1, <1>16, <2>3, <2>6
    <3>2. FetchesRow(done, s, ran, r) /\ Delivers(done, s, r)
      BY <1>13, <2>3, <2>4, <2>5, <3>1, FetchRowIs
    <3>3. HasColumns(d) /\ d.kind # "ok"
      BY <1>6, <1>10, <2>1, <2>2, <2>6 DEF Answers, HasColumns, Datasets, Kinds
    <3>4. exec.lib.owner = s /\ exec.lib.cur = <<d>>
      BY <1>12, <2>1, <3>3 DEF Executes
    <3>5. r.rc = "ERROR" => ~ran
      <4>1. \A e : exec.lib.cur = <<e>> => e = d
        <5>1. \A e : <<e>>[1] = e
          BY Single
        <5> QED BY <1>7, <3>4, <5>1
      <4>2. r.rc = "ERROR" => \E e : exec.lib.cur = <<e>> /\ e.kind = "bad"
        BY <2>1, <2>3, <3>2, <3>4 DEF FetchesRow
      <4> QED BY <1>8, <4>1, <4>2
    <3>6. Foreign(c.lib, s, r.conn.lib)
      <4>1. Quiet(exec.lib, s, r.conn.lib)
        BY <2>3, <3>2 DEF FetchesRow
      <4>2. Foreign(exec.lib, s, r.conn.lib)
        BY <4>1, QuietIsForeign
      <4> QED BY <1>14, <4>2, ForeignTwice
    <3>7. Changes(c, s, r.conn)
      <4>1. Changes(done, s, r.conn)
        BY <3>2 DEF FetchesRow
      <4> QED BY <2>3, <4>1 DEF Changes
    <3>8. Runs(c, s, d, r)
      BY <3>2, <3>3, <3>5, <3>6, <3>7 DEF Runs, FetchesRow
    <3>9. d.n \in Nat /\ (d.kind \in {"rows", "bad"}) /\ (d.kind = "bad" => d.n = 0)
      BY <3>3 DEF Answers, Datasets, HasColumns
    <3>10. left = d.n
      BY <1>9, <2>1, <3>9
    <3>11. d.kind = "bad" => r.rc = "ERROR"
      BY <2>3, <3>2, <3>4 DEF Delivers
    <3>12. r.rc # "ERROR" => r.ran
      BY <1>8, <2>1, <3>2, <3>9, <3>11 DEF FetchesRow
    <3>13. r.rc = "ROW" => d.n > 0 /\ r.conn.lib.owner = s /\ r.conn.my[s].left = d.n - 1
      BY <2>2, <2>3, <3>2, <3>10 DEF Delivers
    <3>14. r.rc # "ROW" => d.n = 0
      <4>1. r.rc # "ROW" => ~(d.n > 0)
        BY <2>2, <2>3, <3>2, <3>10 DEF Delivers
      <4> QED BY <3>9, <4>1, SMT
    <3>15. /\ r.conn.my[s].live = c.my[s].live /\ r.conn.my[s].broken = c.my[s].broken
           /\ r.conn.my[s].executed /\ ~r.conn.my[s].disturbed
      BY <2>2, <2>3, <3>2 DEF Delivers
    <3>16. r.rc = "ERROR" => /\ r.conn.errcode /\ r.conn.lib.owner # s
                            /\ r.conn.my[s].has_result /\ Faulty(r.conn.lib.stmt[s])
      BY <2>3, <2>6, <3>2 DEF Delivers
    <3>17. Produces(c, s, d, r)
      BY <3>3, <3>12, <3>13, <3>14, <3>15, <3>16 DEF Produces
    <3> QED BY <3>8, <3>17 DEF r
  <2>7. CASE ~y1.has_result
    <3> DEFINE n == r.conn
    <3>1. /\ n = [done EXCEPT !.changes = CountOf(exec.lib.affected)]
          /\ r.rc = "DONE" /\ r.ran = ran /\ DOMAIN r = {"conn", "rc", "ran"}
      BY <1>1, <1>16, <2>3, <2>7 DEF Result
    <3>2. d.kind = "ok" /\ ~HasColumns(d) /\ d.n \in Counts
      BY <1>6, <1>10, <2>1, <2>2, <2>7 DEF Answers, HasColumns, Datasets, Kinds
    <3>3. exec.lib.owner = None /\ exec.lib.affected = d.n /\ exec.lib.insert_id = d.n
      BY <1>12, <2>1, <3>2 DEF Executes
    <3>4. CountOf(d.n) = d.n
      BY <3>2, CallsAssumption, SMT DEF CountOf, NoCount
    <3>5. /\ IsConn(n) /\ n.lib = exec.lib /\ n.my = done.my /\ n.changes = d.n
          /\ n.last_insert_id = d.n
      BY <2>3, <3>1, <3>3, <3>4 DEF IsConn
    <3>6. StmtInv(n, s)
      BY <2>3, <2>5, <3>5 DEF StmtInv
    <3>7. Changes(c, s, n)
      BY <1>13, <2>3, <3>2, <3>5, <3>6 DEF Changes, Count0
    <3>8. Runs(c, s, d, r)
      BY <1>13, <1>14, <3>1, <3>3, <3>5, <3>7, LibraryAssumption DEF Runs
    <3>9. Produces(c, s, d, r)
      BY <1>8, <2>1, <2>2, <2>3, <3>1, <3>2, <3>5 DEF Produces
    <3> QED BY <3>8, <3>9 DEF r
  <2> QED BY <2>6, <2>7
<1> QED BY <1>15, <1>16
-----------------------------------------------------------------------------
(* The connection may take another call. *)
Serves(c) == ConnOK(c) /\ ~c.lib.more

(* A call for s that leaves the rows of the other statements to them. *)
Calls(c, s, r) ==
  /\ DOMAIN r = {"conn", "rc", "ran"} /\ Changes(c, s, r.conn) /\ ~r.conn.lib.more
  /\ Foreign(c.lib, s, r.conn.lib)

(* After a call, marks included, the next one finds the connection in order. *)
LEMMA CallServes ==
  ASSUME NEW c, Serves(c), NEW s, NEW r, Calls(c, s, r)
  PROVE  Serves(Observe(c, s, r).conn) /\ Observed(c, s, r, Observe(c, s, r))
<1> DEFINE o == Observe(c, s, r)
<1>1. Observed(c, s, r, o)
  BY ObserveIs DEF Calls, Changes
<1> HIDE DEF o
<1>2. ConnOK(o.conn)
  BY <1>1, ObserveKeeps DEF Calls, Serves
<1>3. o.conn.lib = r.conn.lib
  BY <1>1 DEF Observed
<1>4. Serves(o.conn)
  BY <1>2, <1>3 DEF Calls, Serves
<1> QED BY <1>1, <1>4 DEF o

(* mylite_step: what the caller can rely on. *)
Steps(c, s, o) ==
  /\ Serves(o.conn) /\ o.rc \in {"ROW", "DONE", "ERROR"}
  /\ o.rc = "DONE" => o.conn.lib.owner # s
  /\ o.rc = "ERROR" /\ o.ran => c.my[s].broken /\ o.conn.my[s].broken

(* mylite_step of a statement that has not been executed. *)
LEMMA StepRuns ==
  ASSUME NEW c, Serves(c), NEW s \in Stmts, c.my[s].live, ~c.my[s].executed,
         NEW d, Answers(d, c.my[s].select)
  PROVE  LET o == MyliteStep(c, s, <<d>>)
         IN /\ Steps(c, s, o) /\ Produces(c, s, d, o) /\ Spares(c, s, o.conn)
            /\ o.rc = "DONE" /\ d.kind = "ok" =>
                 o.conn.changes = d.n /\ o.conn.last_insert_id = d.n
<1> DEFINE r == ExecuteStatement(c, s, <<d>>)
           o == MyliteStep(c, s, <<d>>)
<1>1. o = Observe(c, s, r)
  BY DEF MyliteStep
<1>2. Runs(c, s, d, r) /\ Produces(c, s, d, r)
  BY ExecuteIs DEF Serves
<1> HIDE DEF r
<1> HIDE DEF o
<1>3. Calls(c, s, r)
  BY <1>2 DEF Runs, Calls
<1>4. Observed(c, s, r, o) /\ Serves(o.conn)
  BY <1>1, <1>3, CallServes
<1>5. /\ o.rc = r.rc /\ o.ran = r.ran /\ o.conn.lib = r.conn.lib
      /\ o.conn.changes = r.conn.changes /\ o.conn.last_insert_id = r.conn.last_insert_id
      /\ o.conn.my[s].broken = r.conn.my[s].broken
  BY <1>4 DEF Observed
<1>6. Steps(c, s, o)
  BY <1>2, <1>4, <1>5 DEF Steps, Runs
<1>7. o.rc = "DONE" /\ d.kind = "ok" => o.conn.changes = d.n /\ o.conn.last_insert_id = d.n
  BY <1>2, <1>5 DEF Runs
<1>8. Spares(c, s, o.conn)
  BY <1>3, <1>4, ObserveSpares DEF Calls
<1>9. /\ o.conn.my[s].live = r.conn.my[s].live /\ o.conn.my[s].executed = r.conn.my[s].executed
      /\ o.conn.my[s].has_result = r.conn.my[s].has_result
      /\ o.conn.my[s].left = r.conn.my[s].left
      /\ (o.conn.my[s].disturbed <=> r.conn.my[s].disturbed)
      /\ o.conn.errcode = r.conn.errcode
  BY <1>4 DEF Observed
<1>10. Produces(c, s, d, o)
  BY <1>2, <1>5, <1>9 DEF Produces
<1> QED BY <1>6, <1>7, <1>8, <1>10 DEF o

(* mylite_step of one that has. *)
LEMMA StepReads ==
  ASSUME NEW c, Serves(c), NEW s \in Stmts, c.my[s].live, c.my[s].executed
  PROVE  LET o == MyliteStep(c, s, <<>>)
         IN /\ Steps(c, s, o) /\ Spares(c, s, o.conn) /\ o.ran = FALSE
            /\ c.my[s].has_result => Delivers(c, s, o)
            /\ ~c.my[s].has_result => /\ o.rc = "DONE" /\ o.conn.lib = c.lib
                                      /\ o.conn.my = c.my
<1> DEFINE k == SetOk(c)
           r == FetchStatementRow(k, s, FALSE)
           o == MyliteStep(c, s, <<>>)
<1>1. ConnOK(k) /\ k.lib = c.lib /\ k.my = c.my
  BY SetOkKeeps DEF Serves
<1>2. o = IF c.my[s].has_result THEN r ELSE Result(k, "DONE", FALSE)
  BY DEF MyliteStep
<1> HIDE DEF k
<1>3. CASE c.my[s].has_result
  <2>1. FetchesRow(k, s, FALSE, r) /\ Delivers(k, s, r)
    BY <1>1, FetchRowIs DEF Serves, ConnOK
  <2>2. o = r
    BY <1>2, <1>3
  <2> HIDE DEF r, o
  <2>3. ConnOK(r.conn)
    BY <1>1, <2>1, QuietKeeps DEF FetchesRow
  <2>4. Steps(c, s, o)
    BY <2>1, <2>2, <2>3 DEF Steps, Serves, FetchesRow
  <2>5. Spares(c, s, o.conn)
    <3>1. Changes(k, s, r.conn) /\ Quiet(k.lib, s, r.conn.lib)
      BY <2>1 DEF FetchesRow
    <3>2. Changes(c, s, r.conn) /\ Quiet(c.lib, s, r.conn.lib)
      BY <1>1, <3>1 DEF Changes
    <3>3. Spares(c, s, r.conn)
      BY <3>2, QuietSpares
    <3> QED BY <2>2, <3>3
  <2>6. Delivers(c, s, o) /\ o.ran = FALSE
    BY <1>1, <2>1, <2>2 DEF Delivers, FetchesRow
  <2> QED BY <1>3, <2>4, <2>5, <2>6 DEF o
<1>4. CASE ~c.my[s].has_result
  <2>1. o.conn = k /\ o.rc = "DONE" /\ o.ran = FALSE
    <3>1. o = Result(k, "DONE", FALSE)
      BY <1>2, <1>4
    <3> HIDE DEF o
    <3> QED BY <3>1 DEF Result
  <2>2. c.lib.owner # s
    BY <1>4 DEF Serves, ConnOK, StmtInv
  <2> HIDE DEF o
  <2>3. Steps(c, s, o)
    BY <1>1, <2>1, <2>2 DEF Steps, Serves
  <2>4. Spares(c, s, o.conn)
    BY <1>1, <2>1 DEF Spares
  <2> QED BY <1>1, <1>4, <2>1, <2>3, <2>4 DEF o
<1> QED BY <1>3, <1>4
-----------------------------------------------------------------------------
(* A statement with y that reads no rows, after s was released from k. *)
LEMMA LeavesKeeps ==
  ASSUME NEW c, NEW s \in Stmts, NEW k, ConnOK(k), Quiet(c.lib, s, k.lib),
         \A t \in Stmts \ {s} : k.my[t] = c.my[t], k.lib.owner # s,
         NEW lib, Leaves(k.lib, s, lib), NEW y \in StmtType, y.left = 0,
         y.live => (lib.stmt[s].columns <=> y.select),
         y.live /\ ~y.broken => lib.stmt[s].state # "INIT",
         NEW n, OnlyStmt(k, s, lib, y, n)
  PROVE  Changes(c, s, n) /\ ~n.lib.more /\ Foreign(c.lib, s, n.lib)
<1>1. n.lib = lib /\ n.my[s] = y
  BY DEF OnlyStmt
<1>2. ~(0 > 0)
  BY SMT
<1>3. lib.owner # s /\ LibInv(lib) /\ ~lib.more
  BY DEF Leaves
<1>4. StmtInv(n, s)
  BY <1>1, <1>2, <1>3 DEF StmtInv
<1>5. Changes(c, s, n)
  BY <1>1, <1>3, <1>4 DEF Changes, OnlyStmt, ConnOK
<1>6. Foreign(c.lib, s, lib)
  <2>1. Foreign(c.lib, s, k.lib)
    BY QuietIsForeign
  <2>2. Foreign(k.lib, s, lib)
    BY LeavesIsForeign
  <2> QED BY <2>1, <2>2, ForeignTwice
<1> QED BY <1>1, <1>3, <1>5, <1>6

(* Once s reads no rows, and no other statement did, none does. *)
LEMMA SparesReady ==
  ASSUME NEW c, ConnOK(c), NEW n, ConnOK(n), NEW s, Spares(c, s, n), n.lib.owner # s \/ s = None,
         Ready(c.lib) \/ c.lib.owner = s
  PROVE  Ready(n.lib) /\ n.lib.owner = None
<1>1. c.lib.owner \in {None, s} /\ n.lib.owner \in Stmts \cup {None}
  BY DEF ConnOK, LibInv, Ready
<1>2. ASSUME NEW t \in Stmts \ {s} PROVE n.lib.owner # t
  <2>1. n.lib.owner = t <=> c.lib.owner = t
    BY DEF Spares
  <2>2. t # None /\ t # s
    BY LibraryAssumption
  <2> QED BY <1>1, <2>1, <2>2
<1>3. n.lib.owner = None
  BY <1>1, <1>2
<1> QED BY <1>3 DEF ConnOK, LibInv, Ready

(* mylite_reset: what the caller can rely on.  It fails only while another    *)
(* statement reads.                                                           *)
Resets(c, s, o) ==
  LET y == o.conn.my[s] IN
  /\ Serves(o.conn) /\ Spares(c, s, o.conn) /\ o.rc \in {"OK", "ERROR"}
  /\ o.conn.lib.owner # s /\ y.live = c.my[s].live /\ ~y.has_result
  /\ Ready(c.lib) \/ c.lib.owner = s => o.rc = "OK"
  /\ o.rc = "OK" => ~y.executed /\ y.broken = c.my[s].broken
  /\ o.rc = "ERROR" => o.conn.errcode /\ y.broken /\ y.executed = c.my[s].executed

(* mylite_reset; if s was the reader, the connection is ready again. *)
LEMMA ResetServes ==
  ASSUME NEW c, Serves(c), NEW s \in Stmts
  PROVE  LET o == MyliteReset(c, s)
         IN Serves(o.conn) /\ (c.lib.owner = s => Ready(o.conn.lib)) /\ Resets(c, s, o)
<1> DEFINE k == ReleaseStatementResults(SetOk(c), s)
           reset == StmtReset(k.lib, s)
           done == [k EXCEPT !.lib = reset.lib, !.my[s].executed = FALSE]
           fail == [Failure(k, reset.lib) EXCEPT !.my[s].broken = TRUE]
           r == IF reset.rc = "ok" THEN Result(done, "OK", FALSE)
                ELSE Result(fail, "ERROR", FALSE)
           o == MyliteReset(c, s)
<1>1. o = Observe(c, s, r)
  BY DEF MyliteReset
<1>2. ConnOK(SetOk(c)) /\ SetOk(c).lib = c.lib /\ SetOk(c).my = c.my
  BY SetOkKeeps DEF Serves
<1>3. Lets(SetOk(c), s, k)
  BY <1>2, ReleaseIs DEF Serves
<1> HIDE DEF k, o
<1>4. /\ ConnOK(k) /\ IsConn(k) /\ LibInv(k.lib) /\ ~k.lib.more /\ k.lib.owner # s
      /\ Quiet(c.lib, s, k.lib) /\ k.my \in [Stmts -> StmtType] /\ k.my[s] \in StmtType
      /\ StmtInv(k, s) /\ (\A t \in Stmts \ {s} : k.my[t] = c.my[t])
      /\ (c.lib.owner = s => k.lib.owner = None)
  BY <1>2, <1>3 DEF Lets, ConnOK
<1>5. /\ k.my[s].left = 0 /\ k.my[s].live = c.my[s].live /\ k.my[s].has_result = FALSE
      /\ k.my[s].executed = c.my[s].executed /\ k.my[s].broken = c.my[s].broken
  <2>1. k.my[s] = [c.my[s] EXCEPT !.has_result = FALSE, !.has_row = FALSE,
                                  !.left = 0, !.disturbed = FALSE]
    BY <1>2, <1>3 DEF Lets
  <2>2. c.my[s] \in StmtType
    BY DEF Serves, ConnOK
  <2> QED BY <2>1, <2>2 DEF StmtType
<1>6. /\ Leaves(k.lib, s, reset.lib) /\ (Ready(k.lib) => reset.rc = "ok")
      /\ reset.lib.stmt[s].columns = k.lib.stmt[s].columns
      /\ (reset.rc = "ok" /\ k.lib.stmt[s].state # "INIT" => reset.lib.stmt[s].state # "INIT")
  BY <1>4, StmtResetIs
<1> HIDE DEF reset
<1>7. ASSUME reset.rc = "ok"
      PROVE  /\ Calls(c, s, r) /\ r.conn.lib = reset.lib /\ r.rc = "OK"
             /\ r.conn.my[s].live = c.my[s].live /\ ~r.conn.my[s].has_result
             /\ ~r.conn.my[s].executed /\ r.conn.my[s].broken = c.my[s].broken
  <2> DEFINE y == [k.my[s] EXCEPT !.executed = FALSE]
  <2>1. /\ y \in StmtType /\ y.left = 0 /\ y.live = k.my[s].live
        /\ y.select = k.my[s].select /\ y.broken = k.my[s].broken
        /\ y.executed = FALSE /\ y.has_result = FALSE
    BY <1>4, <1>5 DEF StmtType
  <2>2. done = [k EXCEPT !.lib = reset.lib, !.my[s] = y]
    OBVIOUS
  <2> HIDE DEF y, done
  <2>3. OnlyStmt(k, s, reset.lib, y, done)
    BY <1>4, <2>1, <2>2, StmtSet
  <2>4. /\ y.live => (reset.lib.stmt[s].columns <=> y.select)
        /\ y.live /\ ~y.broken => reset.lib.stmt[s].state # "INIT"
    BY <1>4, <1>6, <1>7, <2>1 DEF StmtInv
  <2>5. Changes(c, s, done) /\ ~done.lib.more /\ Foreign(c.lib, s, done.lib)
    BY <1>4, <1>6, <2>1, <2>3, <2>4, LeavesKeeps
  <2>6. /\ r.conn = done /\ DOMAIN r = {"conn", "rc", "ran"} /\ done.lib = reset.lib
        /\ r.rc = "OK" /\ done.my[s] = y
    BY <1>7, <2>3 DEF Result, OnlyStmt
  <2> HIDE DEF r
  <2>7. Calls(c, s, r) /\ r.conn.lib = reset.lib
    BY <2>5, <2>6 DEF Calls
  <2>8. /\ r.conn.my[s].live = c.my[s].live /\ ~r.conn.my[s].has_result
        /\ ~r.conn.my[s].executed /\ r.conn.my[s].broken = c.my[s].broken
    BY <1>5, <2>1, <2>6
  <2> QED BY <2>6, <2>7, <2>8 DEF r, done
<1>8. ASSUME reset.rc # "ok"
      PROVE  /\ Calls(c, s, r) /\ r.conn.lib = reset.lib /\ r.rc = "ERROR" /\ r.conn.errcode
             /\ r.conn.my[s].live = c.my[s].live /\ ~r.conn.my[s].has_result
             /\ r.conn.my[s].executed = c.my[s].executed /\ r.conn.my[s].broken
  <2> DEFINE g == Failure(k, reset.lib)
             y == [k.my[s] EXCEPT !.broken = TRUE]
  <2>1. /\ y \in StmtType /\ y.left = 0 /\ y.live = k.my[s].live
        /\ y.select = k.my[s].select /\ y.broken = TRUE
        /\ y.executed = k.my[s].executed /\ y.has_result = FALSE
    BY <1>4, <1>5 DEF StmtType
  <2>2. OnlyStmt(k, s, reset.lib, k.my[s], g) /\ g.errcode
    BY <1>4, FailureIs
  <2>3. /\ IsConn(g) /\ g.my \in [Stmts -> StmtType] /\ g.lib = reset.lib
        /\ g.my[s] = k.my[s] /\ (\A t \in Stmts \ {s} : g.my[t] = k.my[t])
        /\ g.changes = k.changes /\ g.last_insert_id = k.last_insert_id
    BY <2>2 DEF OnlyStmt
  <2>4. fail = [g EXCEPT !.my[s] = y]
    BY <2>3
  <2> HIDE DEF g, y, fail
  <2>5. OnlyStmt(k, s, reset.lib, y, fail) /\ fail.errcode
    BY <2>1, <2>2, <2>3, <2>4 DEF OnlyStmt, IsConn
  <2>6. /\ y.live => (reset.lib.stmt[s].columns <=> y.select)
        /\ y.live /\ ~y.broken => reset.lib.stmt[s].state # "INIT"
    BY <1>4, <1>6, <2>1 DEF StmtInv
  <2>7. Changes(c, s, fail) /\ ~fail.lib.more /\ Foreign(c.lib, s, fail.lib)
    BY <1>4, <1>6, <2>1, <2>5, <2>6, LeavesKeeps
  <2>8. /\ r.conn = fail /\ DOMAIN r = {"conn", "rc", "ran"} /\ fail.lib = reset.lib
        /\ r.rc = "ERROR" /\ fail.my[s] = y
    BY <1>8, <2>5 DEF Result, OnlyStmt
  <2> HIDE DEF r
  <2>9. Calls(c, s, r) /\ r.conn.lib = reset.lib
    BY <2>7, <2>8 DEF Calls
  <2>10. /\ r.conn.errcode /\ r.conn.my[s].live = c.my[s].live /\ ~r.conn.my[s].has_result
         /\ r.conn.my[s].executed = c.my[s].executed /\ r.conn.my[s].broken
    BY <1>5, <2>1, <2>5, <2>8
  <2> QED BY <2>8, <2>9, <2>10 DEF r, fail
<1>9. Ready(c.lib) \/ c.lib.owner = s => reset.rc = "ok"
  <2>1. ASSUME Ready(c.lib) \/ c.lib.owner = s PROVE Ready(k.lib)
    <3>1. CASE c.lib.owner = s
      BY <1>4, <3>1 DEF LibInv, Ready
    <3>2. CASE Ready(c.lib)
      <4>1. c.lib.owner = None
        BY <3>2 DEF Serves, ConnOK, LibInv, Ready
      <4>2. k.lib.owner = None
        BY <1>4, <4>1, LibraryAssumption DEF Quiet, LibInv
      <4> QED BY <1>4, <4>2 DEF LibInv, Ready
    <3> QED BY <2>1, <3>1, <3>2
  <2> QED BY <1>6, <2>1
<1>10. Calls(c, s, r) /\ r.conn.lib = reset.lib
  BY <1>7, <1>8
<1>11. /\ r.rc \in {"OK", "ERROR"} /\ (reset.rc = "ok" => r.rc = "OK")
       /\ r.conn.my[s].live = c.my[s].live /\ ~r.conn.my[s].has_result
       /\ r.rc = "OK" => ~r.conn.my[s].executed /\ r.conn.my[s].broken = c.my[s].broken
       /\ r.rc = "ERROR" => /\ r.conn.errcode /\ r.conn.my[s].broken
                            /\ r.conn.my[s].executed = c.my[s].executed
  <2>1. CASE reset.rc = "ok"
    <3>1. /\ r.rc = "OK" /\ r.conn.my[s].live = c.my[s].live /\ ~r.conn.my[s].has_result
          /\ ~r.conn.my[s].executed /\ r.conn.my[s].broken = c.my[s].broken
      BY <1>7, <2>1
    <3> HIDE DEF r
    <3> QED BY <2>1, <3>1
  <2>2. CASE reset.rc # "ok"
    <3>1. /\ r.rc = "ERROR" /\ r.conn.errcode /\ r.conn.my[s].live = c.my[s].live
          /\ ~r.conn.my[s].has_result /\ r.conn.my[s].executed = c.my[s].executed
          /\ r.conn.my[s].broken
      BY <1>8, <2>2
    <3> HIDE DEF r
    <3> QED BY <2>2, <3>1
  <2> QED BY <2>1, <2>2
<1> HIDE DEF r
<1>12. Serves(o.conn) /\ o.conn.lib = reset.lib /\ Observed(c, s, r, o)
  <2>1. Serves(o.conn) /\ Observed(c, s, r, o)
    BY <1>1, <1>10, CallServes
  <2> QED BY <1>10, <2>1 DEF Observed
<1>13. c.lib.owner = s => Ready(o.conn.lib)
  BY <1>4, <1>6, <1>12 DEF Leaves, LibInv, Ready
<1>14. Spares(c, s, o.conn)
  BY <1>10, <1>12, ObserveSpares DEF Calls
<1>15. /\ o.rc = r.rc /\ o.conn.my[s].live = r.conn.my[s].live
       /\ o.conn.my[s].has_result = r.conn.my[s].has_result
       /\ o.conn.my[s].executed = r.conn.my[s].executed
       /\ o.conn.my[s].broken = r.conn.my[s].broken /\ o.conn.errcode = r.conn.errcode
  BY <1>12 DEF Observed
<1>16. o.conn.lib.owner # s
  BY <1>4, <1>6, <1>12 DEF Leaves
<1>17. Resets(c, s, o)
  BY <1>9, <1>11, <1>12, <1>14, <1>15, <1>16 DEF Resets
<1> QED BY <1>12, <1>13, <1>17 DEF o

(* mylite_finalize: what the caller can rely on.  The diagnostics stay. *)
Finalizes(c, s, n) ==
  /\ Serves(n) /\ Spares(c, s, n) /\ n.lib.owner # s /\ n.errcode = c.errcode
  /\ ~n.my[s].live /\ ~n.my[s].executed /\ ~n.my[s].broken

(* mylite_finalize; if s was the reader, the connection is ready again. *)
LEMMA FinalizeServes ==
  ASSUME NEW c, Serves(c), NEW s \in Stmts
  PROVE  LET o == MyliteFinalize(c, s)
         IN /\ Serves(o.conn) /\ (c.lib.owner = s => Ready(o.conn.lib))
            /\ Finalizes(c, s, o.conn)
<1> DEFINE k == ReleaseStatementResults(c, s)
           close == StmtClose(k.lib, s)
           done == [k EXCEPT !.lib = close.lib, !.my[s] = NewStatement]
           r == Result(done, "OK", FALSE)
           o == MyliteFinalize(c, s)
<1>1. o = Observe(c, s, r)
  BY DEF MyliteFinalize
<1>2. Lets(c, s, k)
  BY ReleaseIs DEF Serves
<1> HIDE DEF k, o
<1>3. /\ ConnOK(k) /\ IsConn(k) /\ LibInv(k.lib) /\ ~k.lib.more /\ k.lib.owner # s
      /\ Quiet(c.lib, s, k.lib) /\ k.my \in [Stmts -> StmtType]
      /\ (\A t \in Stmts \ {s} : k.my[t] = c.my[t])
      /\ (c.lib.owner = s => k.lib.owner = None) /\ k.errcode = c.errcode
  BY <1>2 DEF Lets, ConnOK
<1>4. Leaves(k.lib, s, close.lib)
  BY <1>3, StmtCloseIs
<1> HIDE DEF close
<1>5. /\ NewStatement \in StmtType /\ NewStatement.left = 0 /\ ~NewStatement.live
      /\ ~NewStatement.executed /\ ~NewStatement.broken
  BY SMT DEF NewStatement, StmtType
<1>6. OnlyStmt(k, s, close.lib, NewStatement, done) /\ done.errcode = c.errcode
  <2>1. done.errcode = c.errcode
    BY <1>3 DEF IsConn
  <2> QED BY <1>3, <1>5, <2>1, StmtSet
<1>7. /\ r.conn = done /\ DOMAIN r = {"conn", "rc", "ran"} /\ done.lib = close.lib
      /\ done.my[s] = NewStatement
  BY <1>6 DEF Result, OnlyStmt
<1> HIDE DEF r, done
<1>8. Changes(c, s, done) /\ ~done.lib.more /\ Foreign(c.lib, s, done.lib)
  BY <1>3, <1>4, <1>5, <1>6, LeavesKeeps
<1>9. Calls(c, s, r)
  BY <1>7, <1>8 DEF Calls
<1>10. Serves(o.conn) /\ o.conn.lib = close.lib /\ Observed(c, s, r, o)
  <2>1. Serves(o.conn) /\ Observed(c, s, r, o)
    BY <1>1, <1>9, CallServes
  <2> QED BY <1>7, <2>1 DEF Observed
<1>11. c.lib.owner = s => Ready(o.conn.lib)
  BY <1>3, <1>4, <1>10 DEF Leaves, LibInv, Ready
<1>12. /\ o.conn.errcode = r.conn.errcode /\ o.conn.my[s].live = r.conn.my[s].live
       /\ o.conn.my[s].executed = r.conn.my[s].executed
       /\ o.conn.my[s].broken = r.conn.my[s].broken
  BY <1>10 DEF Observed
<1>13. Spares(c, s, o.conn)
  BY <1>7, <1>8, <1>10, ObserveSpares
<1>14. o.conn.lib.owner # s
  BY <1>3, <1>4, <1>10 DEF Leaves
<1>15. Finalizes(c, s, o.conn)
  BY <1>5, <1>6, <1>7, <1>10, <1>12, <1>13, <1>14 DEF Finalizes
<1> QED BY <1>10, <1>11, <1>15 DEF o
-----------------------------------------------------------------------------
(* mylite_prepare: what the caller can rely on. *)
Prepares(c, s, o) ==
  LET y == o.conn.my[s] IN
  /\ Serves(o.conn) /\ Spares(c, s, o.conn) /\ o.conn.lib.owner # s
  /\ o.rc \in {"OK", "ERROR"} /\ (y.live <=> o.rc = "OK")
  /\ y.executed = c.my[s].executed /\ y.broken = c.my[s].broken
  /\ o.rc = "ERROR" => o.conn.errcode

(* mylite_prepare. *)
LEMMA PrepareServes ==
  ASSUME NEW c, Serves(c), NEW s \in Stmts, ~c.my[s].live,
         NEW reply \in {<<>>, <<Dataset("rows", 0, 0, FALSE)>>} \cup ErrorReply
  PROVE  LET o == MylitePrepare(c, s, reply)
         IN Serves(o.conn) /\ Prepares(c, s, o)
<1> DEFINE p == StmtPrepare(c.lib, s, reply)
           fail == Failure(c, p.lib)
           k == SetOk(c)
           y == [c.my[s] EXCEPT !.live = TRUE, !.select = reply # <<>>]
           done == [k EXCEPT !.lib = p.lib, !.my[s] = [@ EXCEPT !.live = TRUE, !.select = reply # <<>>]]
           r == IF p.rc = "error" THEN Result(fail, "ERROR", FALSE) ELSE Result(done, "OK", FALSE)
           o == MylitePrepare(c, s, reply)
<1>1. o = Observe(c, s, r)
  BY DEF MylitePrepare
<1>2. /\ ConnOK(c) /\ IsConn(c) /\ LibInv(c.lib) /\ c.my \in [Stmts -> StmtType]
      /\ c.my[s] \in StmtType /\ ~c.lib.more /\ c.lib.owner # s /\ c.my[s].left = 0
      /\ Quiet(c.lib, s, c.lib)
  BY DEF Serves, ConnOK, StmtInv, Quiet, OthersSame
<1>3. /\ Leaves(c.lib, s, p.lib)
      /\ p.rc # "error" => /\ p.lib.stmt[s].state = "PREPARE"
                           /\ p.lib.stmt[s].columns <=> reply # <<>>
  <2>1. LibInv(c.lib) /\ ~c.lib.more /\ c.lib.owner # s
    BY <1>2
  <2> QED BY <2>1, StmtPrepareIs
<1> HIDE DEF p, o
<1>4. ASSUME p.rc = "error"
      PROVE  /\ Calls(c, s, r) /\ r.rc = "ERROR" /\ r.conn.lib = p.lib
             /\ r.conn.my[s] = c.my[s] /\ r.conn.errcode
  <2>1. OnlyStmt(c, s, p.lib, c.my[s], fail) /\ fail.errcode
    BY <1>2, FailureIs
  <2> HIDE DEF fail
  <2>2. Changes(c, s, fail) /\ ~fail.lib.more /\ Foreign(c.lib, s, fail.lib)
    BY <1>2, <1>3, <2>1, LeavesKeeps
  <2>3. r.conn = fail /\ DOMAIN r = {"conn", "rc", "ran"} /\ r.rc = "ERROR"
    BY <1>4 DEF Result
  <2> HIDE DEF r
  <2>4. Calls(c, s, r)
    BY <2>2, <2>3 DEF Calls
  <2>5. r.conn.lib = p.lib /\ r.conn.my[s] = c.my[s] /\ r.conn.errcode
    BY <2>1, <2>3 DEF OnlyStmt
  <2> QED BY <2>3, <2>4, <2>5 DEF r, fail
<1>5. ASSUME p.rc # "error"
      PROVE  /\ Calls(c, s, r) /\ r.rc = "OK" /\ r.conn.lib = p.lib /\ r.conn.my[s].live
             /\ r.conn.my[s].executed = c.my[s].executed /\ r.conn.my[s].broken = c.my[s].broken
  <2>1. /\ y \in StmtType /\ y.left = 0 /\ y.live /\ (y.select <=> reply # <<>>)
        /\ y.executed = c.my[s].executed /\ y.broken = c.my[s].broken
    <3>1. (reply # <<>>) \in BOOLEAN
      OBVIOUS
    <3> QED BY <1>2, <3>1 DEF StmtType
  <2>2. ConnOK(k) /\ k.lib = c.lib /\ k.my = c.my
    BY <1>2, SetOkKeeps
  <2> HIDE DEF k
  <2>3. done = [k EXCEPT !.lib = p.lib, !.my[s] = y]
    BY <2>2
  <2> HIDE DEF y, done
  <2>4. OnlyStmt(k, s, p.lib, y, done)
    BY <2>1, <2>2, <2>3, StmtSet DEF ConnOK
  <2>5. Changes(c, s, done) /\ ~done.lib.more /\ Foreign(c.lib, s, done.lib)
    <3>1. /\ y.live => (p.lib.stmt[s].columns <=> y.select)
          /\ y.live /\ ~y.broken => p.lib.stmt[s].state # "INIT"
      BY <1>3, <1>5, <2>1
    <3>2. /\ Quiet(c.lib, s, k.lib) /\ (\A t \in Stmts \ {s} : k.my[t] = c.my[t])
          /\ k.lib.owner # s /\ Leaves(k.lib, s, p.lib)
      BY <1>2, <1>3, <2>2, SMT
    <3> QED BY <2>1, <2>2, <2>4, <3>1, <3>2, LeavesKeeps
  <2>6. r.conn = done /\ DOMAIN r = {"conn", "rc", "ran"} /\ r.rc = "OK"
    BY <1>5 DEF Result
  <2> HIDE DEF r
  <2>7. Calls(c, s, r)
    BY <2>5, <2>6 DEF Calls
  <2>8. r.conn.lib = p.lib /\ r.conn.my[s] = y
    BY <2>4, <2>6 DEF OnlyStmt
  <2>9. /\ r.conn.my[s].live /\ r.conn.my[s].executed = c.my[s].executed
        /\ r.conn.my[s].broken = c.my[s].broken
    BY <2>1, <2>8
  <2> QED BY <2>6, <2>7, <2>8, <2>9 DEF r, done, k
<1>6. /\ Calls(c, s, r) /\ r.conn.lib = p.lib
      /\ r.rc \in {"OK", "ERROR"} /\ (r.conn.my[s].live <=> r.rc = "OK")
      /\ r.conn.my[s].executed = c.my[s].executed /\ r.conn.my[s].broken = c.my[s].broken
      /\ r.rc = "ERROR" => r.conn.errcode
  <2>1. CASE p.rc = "error"
    <3>1. /\ Calls(c, s, r) /\ r.rc = "ERROR" /\ r.conn.lib = p.lib
          /\ r.conn.my[s] = c.my[s] /\ r.conn.errcode
      BY <1>4, <2>1
    <3> HIDE DEF r
    <3> QED BY <3>1
  <2>2. CASE p.rc # "error"
    <3>1. /\ Calls(c, s, r) /\ r.rc = "OK" /\ r.conn.lib = p.lib /\ r.conn.my[s].live
          /\ r.conn.my[s].executed = c.my[s].executed /\ r.conn.my[s].broken = c.my[s].broken
      BY <1>5, <2>2
    <3> HIDE DEF r
    <3> QED BY <3>1
  <2> QED BY <2>1, <2>2
<1> HIDE DEF r
<1>7. Serves(o.conn) /\ Observed(c, s, r, o)
  BY <1>1, <1>6, CallServes
<1>8. /\ o.rc = r.rc /\ o.conn.lib = r.conn.lib /\ o.conn.my[s].live = r.conn.my[s].live
      /\ o.conn.my[s].executed = r.conn.my[s].executed
      /\ o.conn.my[s].broken = r.conn.my[s].broken /\ o.conn.errcode = r.conn.errcode
  BY <1>7 DEF Observed
<1>9. Spares(c, s, o.conn) /\ o.conn.lib.owner # s
  <2>1. Spares(c, s, o.conn)
    BY <1>6, <1>7, ObserveSpares DEF Calls
  <2> QED BY <1>2, <1>3, <1>6, <1>8, <2>1 DEF Leaves
<1>10. Prepares(c, s, o)
  BY <1>6, <1>7, <1>8, <1>9 DEF Prepares
<1> QED BY <1>7, <1>10 DEF o
-----------------------------------------------------------------------------
(* A reply of which the rest can be read: to a CALL that is in its callback, *)
(* or one that has been read and was a success.                              *)
Drainable(m, ran) ==
  /\ LibInv(m)
  /\ m.more => m.owner = None /\ m.stored = 0 /\ CallTail(m.first, ran)
  /\ ~m.more => ran

(* drain_remaining_query_results reports the outcome, if it can read it. *)
Drains(m, ran, r) ==
  /\ LibInv(r.lib) /\ ~r.lib.more /\ Quiet(m, None, r.lib) /\ r.rc \in {"end", "error"}
  /\ r.rc = "end" => ran
  /\ r.rc = "error" /\ ran => ~Ready(m) /\ ~Ready(r.lib)

(* drain_remaining_query_results of any rest of a reply. *)
LEMMA DrainIs ==
  ASSUME NEW m, NEW ran, Drainable(m, ran)
  PROVE  Drains(m, ran, DrainRemainingQueryResults(m))
<1> DEFINE r == DrainRemainingQueryResults(m)
<1>1. LibInv(m)
  BY DEF Drainable
<1>2. CASE m.more
  <2>1. /\ InReply(m, r.lib) /\ ~r.lib.more
        /\ (ran => r.rc = "end") /\ (~ran => r.rc = "error")
    <3>1. m.owner = None /\ m.stored = 0 /\ CallTail(m.first, ran)
      BY <1>2 DEF Drainable
    <3>2. CASE ran
      BY <1>1, <1>2, <3>1, <3>2, DrainCall
    <3>3. CASE ~ran
      BY <1>1, <1>2, <3>1, <3>3, DrainCall, SMT
    <3> QED BY <3>2, <3>3
  <2>2. m.owner = None
    BY <1>2 DEF Drainable
  <2> HIDE DEF r
  <2>3. Quiet(m, None, r.lib)
    BY <2>1, <2>2, LibraryAssumption DEF InReply, Quiet, OthersSame
  <2>4. Drains(m, ran, r)
    <3>1. CASE ran
      BY <2>1, <2>3, <3>1 DEF Drains, InReply
    <3>2. CASE ~ran
      BY <2>1, <2>3, <3>2 DEF Drains, InReply
    <3> QED BY <3>1, <3>2
  <2> QED BY <2>4 DEF r
<1>3. CASE ~m.more
  <2>1. /\ Ready(m) => r.rc = "end" /\ Forgets(m, r.lib)
        /\ ~Ready(m) => r.rc = "error" /\ r.lib = m
    BY <1>1, <1>3, DrainIdle
  <2>2. ran
    BY <1>3 DEF Drainable
  <2> HIDE DEF r
  <2>3. CASE Ready(m)
    <3>1. r.rc = "end" /\ Forgets(m, r.lib)
      BY <2>1, <2>3
    <3>2. Settles(m, None, r.lib)
      BY <1>1, <3>1, LibraryAssumption DEF Settles, Forgets, LibInv, OthersSame
    <3>3. LibInv(r.lib)
      BY <1>1, <3>2, SettlesKeeps
    <3>4. Quiet(m, None, r.lib) /\ ~r.lib.more
      BY <1>3, <3>1 DEF Forgets, Quiet, OthersSame
    <3>5. Drains(m, ran, r)
      BY <2>2, <3>1, <3>3, <3>4 DEF Drains
    <3> QED BY <3>5 DEF r
  <2>4. CASE ~Ready(m)
    <3>1. Drains(m, ran, r)
      BY <1>1, <1>3, <2>1, <2>4 DEF Drains, Quiet, OthersSame
    <3> QED BY <3>1 DEF r
  <2> QED BY <2>3, <2>4
<1> QED BY <1>2, <1>3
-----------------------------------------------------------------------------
(* Nothing of a mylite_stmt changes: the library's handles do, and perhaps   *)
(* the counts.                                                               *)
LEMMA LibChanges ==
  ASSUME NEW c, IsConn(c), c.my \in [Stmts -> StmtType], NEW n, IsConn(n), n.my = c.my,
         LibInv(n.lib), n.changes \in Count0, n.last_insert_id \in Count0
  PROVE  Changes(c, None, n)
BY LibraryAssumption DEF Changes

(* What mylite_exec does once its rows are read, and what it publishes. *)
Finishes(c, f, r) ==
  LET n == r.conn IN
  /\ DOMAIN r = {"conn", "rc", "ran"} /\ r.ran = f.ran /\ r.rc \in {"OK", "ERROR"}
  /\ Changes(c, None, n) /\ ~n.lib.more /\ Quiet(c.lib, None, n.lib)
  /\ r.rc = "OK" => /\ f.ran /\ n.last_insert_id = f.insert_id
                    /\ ~f.has_result => n.changes = f.affected
  /\ r.rc = "ERROR" /\ f.ran => ~Ready(c.lib) /\ ~Ready(n.lib)
  /\ r.rc = "ERROR" => n.errcode

(* The end of mylite_exec: the drain, then the counts and the result code. *)
LEMMA FinishIs ==
  ASSUME NEW c, IsConn(c), c.my \in [Stmts -> StmtType], c.changes \in Count0,
         c.last_insert_id \in Count0, NEW f, Drainable(c.lib, f.ran), f.insert_id \in Count0,
         f.has_result \/ f.affected \in Counts
  PROVE  Finishes(c, f, FinishExec(c, f))
<1> DEFINE drain == DrainRemainingQueryResults(c.lib)
           count == IF f.has_result THEN 0 ELSE CountOf(f.affected)
           fail == Failure(c, drain.lib)
           done == [c EXCEPT !.lib = drain.lib, !.changes = count, !.last_insert_id = f.insert_id]
           r == FinishExec(c, f)
<1>1. r = IF drain.rc = "error" THEN Result(fail, "ERROR", f.ran) ELSE Result(done, "OK", f.ran)
  BY DEF FinishExec
<1>2. Drains(c.lib, f.ran, drain)
  BY DrainIs
<1> HIDE DEF drain, r
<1>3. count \in Count0 /\ (~f.has_result => count = f.affected)
  <2>1. f.affected \in Counts => CountOf(f.affected) = f.affected
    BY CallsAssumption, SMT DEF CountOf, NoCount
  <2> QED BY <2>1 DEF Count0
<1> HIDE DEF count
<1>4. CASE drain.rc = "error"
  <2>1. /\ IsConn(fail) /\ fail.lib = drain.lib /\ fail.my = c.my
        /\ fail.changes = c.changes /\ fail.last_insert_id = c.last_insert_id /\ fail.errcode
    BY DEF Failure, IsConn
  <2> HIDE DEF fail
  <2>2. Changes(c, None, fail)
    BY <1>2, <2>1, LibChanges DEF Drains
  <2>3. r.conn = fail /\ r.rc = "ERROR" /\ r.ran = f.ran /\ DOMAIN r = {"conn", "rc", "ran"}
    BY <1>1, <1>4 DEF Result
  <2>4. Finishes(c, f, r)
    BY <1>2, <1>4, <2>1, <2>2, <2>3 DEF Finishes, Drains
  <2> QED BY <2>4 DEF r
<1>5. CASE drain.rc # "error"
  <2>1. /\ IsConn(done) /\ done.lib = drain.lib /\ done.my = c.my
        /\ done.changes = count /\ done.last_insert_id = f.insert_id
    BY DEF IsConn
  <2> HIDE DEF done
  <2>2. Changes(c, None, done)
    BY <1>2, <1>3, <2>1, LibChanges DEF Drains
  <2>3. r.conn = done /\ r.rc = "OK" /\ r.ran = f.ran /\ DOMAIN r = {"conn", "rc", "ran"}
    BY <1>1, <1>5 DEF Result
  <2>4. Finishes(c, f, r)
    BY <1>2, <1>3, <1>5, <2>1, <2>2, <2>3 DEF Finishes, Drains
  <2> QED BY <2>4 DEF r
<1> QED BY <1>4, <1>5

(* A query whose first answer is a result set, and the storing of it. *)
Shows(m, reply, q, x) ==
  /\ q.rc = "ok" /\ q.lib.insert_id = m.insert_id /\ q.lib.affected = NoCount /\ x.rc = "ok"
  /\ IsLib(x.lib) /\ x.lib.status = "READY" /\ x.lib.cur = <<>> /\ x.lib.first = Tail(reply)
  /\ x.lib.owner = None /\ x.lib.stmt = m.stmt /\ ~x.lib.null
  /\ x.lib.more = Head(reply).more /\ x.lib.insert_id = m.insert_id
  /\ x.lib.warnings = Head(reply).warns /\ x.lib.stored = Warns(reply)

(* A query answered with rows and the mysql_store_result after it. *)
LEMMA ShowIs ==
  ASSUME NEW m, LibInv(m), Ready(m), NEW reply, reply # <<>>, Head(reply).kind = "rows"
  PROVE  Shows(m, reply, Query(m, reply), StoreResult(Query(m, reply).lib))
<1> DEFINE q == Query(m, reply)
           d == Head(reply)
           x == StoreResult(q.lib)
<1>1. PICK n : Sent(m, reply, n) /\ Read(n, d, q)
  BY QueryReady DEF LibInv, Kinds
<1> HIDE DEF q
<1>2. HasColumns(d) /\ d.kind \notin {"ok", "bad", "error"}
  BY DEF HasColumns
<1>3. IsLib(q.lib) /\ q.lib.status = "GET_RESULT" /\ q.lib.cur = <<d>>
  BY <1>1, <1>2 DEF Read
<1>4. Stored(q.lib, d, x)
  BY <1>3, StoreIs
<1> HIDE DEF x
<1>5. /\ q.rc = "ok" /\ q.lib.insert_id = m.insert_id /\ q.lib.warnings = d.warns
      /\ q.lib.affected = NoCount
      /\ q.lib.stored = Warns(reply) /\ q.lib.first = Tail(reply) /\ q.lib.more = d.more
      /\ q.lib.stmt = m.stmt /\ q.lib.null = m.null
  BY <1>1, <1>2 DEF Read, Sent
<1>6. /\ x.rc = "ok" /\ x.lib.more = q.lib.more /\ x.lib.owner = None
  BY <1>2, <1>4 DEF Stored
<1>7. ~m.null
  BY DEF LibInv
<1>8. Shows(m, reply, q, x)
  BY <1>4, <1>5, <1>6, <1>7 DEF Shows, Stored
<1> QED BY <1>8 DEF q, x
-----------------------------------------------------------------------------
(* Between two replies the connection is ready, nothing is left to read. *)
Rests(m, n) ==
  /\ IsLib(n) /\ ~n.null /\ n.first \in Seq(Datasets) /\ n.owner = None /\ n.status = "READY"
  /\ n.cur = <<>> /\ n.stmt = m.stmt /\ n.insert_id \in Count0
  /\ ~n.asked => n.warnings = n.stored

(* A query that is read to its end keeps the handles consistent. *)
LEMMA RestsKeeps ==
  ASSUME NEW m, LibInv(m), Ready(m), NEW n, Rests(m, n)
  PROVE  LibInv(n) /\ Quiet(m, None, n)
<1>1. m.owner = None /\ m.status = "READY"
  BY DEF LibInv, Ready
<1>2. Settles(m, None, n)
  BY <1>1, LibraryAssumption DEF Settles, Rests, OthersSame, Count0
<1>3. LibInv(n)
  BY <1>2, SettlesKeeps
<1>4. Quiet(m, None, n)
  BY <1>1, LibraryAssumption DEF Quiet, Rests, OthersSame
<1> QED BY <1>3, <1>4

(* A query whose rows are stored is read to its end. *)
LEMMA ShowRests ==
  ASSUME NEW m, LibInv(m), NEW reply \in Seq(Datasets), reply # <<>>, NEW q, NEW x,
         Shows(m, reply, q, x), Warns(reply) = Head(reply).warns
  PROVE  Rests(m, x.lib)
<1>1. Tail(reply) \in Seq(Datasets)
  BY Queues
<1> QED BY <1>1 DEF Shows, Rests, LibInv, Count0

(* A call for no statement leaves n: rows that were unread may be lost. *)
Elsewhere(m, n) == LibInv(n) /\ ~n.more /\ Foreign(m, None, n)

(* A command refused because a statement is reading its rows. *)
LEMMA RefusedKeeps ==
  ASSUME NEW m, LibInv(m), ~m.more, NEW n, Refused(m, n)
  PROVE  Elsewhere(m, n)
<1>1. Settles(m, None, n)
  BY Queues, LibraryAssumption DEF Settles, Refused, SameAnswer, OthersSame, LibInv
<1>2. LibInv(n)
  BY <1>1, SettlesKeeps
<1>3. Foreign(m, None, n)
  BY DEF Refused, Foreign, OthersSame
<1> QED BY <1>2, <1>3 DEF Refused, Elsewhere

(* A call that fails while another statement reads. *)
LEMMA FailureCalls ==
  ASSUME NEW c, ConnOK(c), NEW lib, Elsewhere(c.lib, lib), NEW ran
  PROVE  LET r == Result(Failure(c, lib), "ERROR", ran)
         IN Calls(c, None, r) /\ r.conn.errcode
<1> DEFINE n == Failure(c, lib)
           r == Result(n, "ERROR", ran)
<1>1. /\ IsConn(n) /\ n.lib = lib /\ n.my = c.my
      /\ n.changes = c.changes /\ n.last_insert_id = c.last_insert_id /\ n.errcode
  BY DEF Failure, IsConn, ConnOK
<1> HIDE DEF n
<1>2. Changes(c, None, n)
  BY <1>1, LibChanges DEF ConnOK, Elsewhere
<1>3. r.conn = n /\ DOMAIN r = {"conn", "rc", "ran"}
  BY DEF Result
<1> HIDE DEF r
<1>4. Calls(c, None, r) /\ r.conn.errcode
  BY <1>1, <1>2, <1>3 DEF Calls, Elsewhere
<1> QED BY <1>4 DEF r, n
-----------------------------------------------------------------------------
(* mylite_warning. *)
LEMMA WarningServes ==
  ASSUME NEW c, Serves(c), NEW i
  PROVE  Serves(MyliteWarning(c, i).conn)
<1> DEFINE found == i < c.lib.stored
           d == Dataset("rows", IF found THEN 1 ELSE 0, 0, FALSE)
           shown == Query(c.lib, <<d>>)
           x == StoreResult(shown.lib)
           read == [x.lib EXCEPT !.stored = c.lib.stored, !.asked = TRUE]
           done == IF found THEN [SetOk(c) EXCEPT !.lib = read] ELSE [c EXCEPT !.lib = read]
           rc == IF found THEN "OK" ELSE "NOTFOUND"
           fail == Result(Failure(c, shown.lib), "ERROR", FALSE)
           r == IF shown.rc = "error" THEN fail ELSE Result(done, rc, FALSE)
           o == MyliteWarning(c, i)
<1>1. o = IF i >= c.lib.warnings THEN Result(c, "NOTFOUND", FALSE) ELSE Observe(c, None, r)
  BY DEF MyliteWarning
<1>2. ConnOK(c) /\ LibInv(c.lib) /\ ~c.lib.more /\ IsLib(c.lib)
  BY DEF Serves, ConnOK, LibInv
<1>3. d \in Datasets /\ d.kind = "rows" /\ d.warns = 0 /\ d.more = FALSE
  BY SMT DEF Dataset, Datasets, Kinds
<1> HIDE DEF d
<1>4. ASSUME ~Ready(c.lib) PROVE Calls(c, None, r)
  <2>1. shown.rc = "error" /\ Refused(c.lib, shown.lib)
    BY <1>2, <1>4, QueryBusy
  <2>2. r = fail
    BY <2>1
  <2> HIDE DEF shown, r
  <2>3. Calls(c, None, fail)
    BY <1>2, <2>1, RefusedKeeps, FailureCalls
  <2>4. Calls(c, None, r)
    BY <2>2, <2>3
  <2> QED BY <2>4 DEF r, shown
<1>5. ASSUME Ready(c.lib) PROVE Calls(c, None, r)
  <2>1. Shows(c.lib, <<d>>, shown, x)
    BY <1>2, <1>3, <1>5, Single, ShowIs
  <2> HIDE DEF shown
  <2>2. shown.rc = "ok" /\ x.lib.more = FALSE
    BY <1>3, <2>1, Single DEF Shows
  <2>3. Rests(c.lib, x.lib)
    <3>1. <<d>> \in Seq(Datasets) /\ <<d>> # <<>> /\ Warns(<<d>>) = Head(<<d>>).warns
      BY <1>3, Single, Queues
    <3> QED BY <1>2, <2>1, <3>1, ShowRests
  <2> HIDE DEF x
  <2>4. Rests(c.lib, read) /\ ~read.more
    BY <2>2, <2>3 DEF Rests, IsLib, LibFields
  <2>5. LibInv(read) /\ Quiet(c.lib, None, read)
    BY <1>2, <1>5, <2>4, RestsKeeps
  <2> HIDE DEF read
  <2>6. /\ IsConn(done) /\ done.lib = read /\ done.my = c.my
        /\ done.changes = c.changes /\ done.last_insert_id = c.last_insert_id
    <3>1. IsConn(c)
      BY <1>2 DEF ConnOK
    <3>2. CASE found
      BY <3>1, <3>2 DEF IsConn, SetOk
    <3>3. CASE ~found
      BY <3>1, <3>3 DEF IsConn
    <3> QED BY <3>2, <3>3
  <2>7. r.conn = done /\ DOMAIN r = {"conn", "rc", "ran"}
    BY <2>2 DEF Result
  <2> HIDE DEF done, r
  <2>8. Changes(c, None, done)
    BY <1>2, <2>5, <2>6, LibChanges DEF ConnOK
  <2>9. Foreign(c.lib, None, read)
    BY <2>5, QuietIsForeign
  <2>10. Calls(c, None, r)
    BY <2>4, <2>6, <2>7, <2>8, <2>9 DEF Calls
  <2> QED BY <2>10 DEF r, done, read, x, shown
<1>6. Calls(c, None, r)
  BY <1>4, <1>5
<1> HIDE DEF r, o
<1>7. CASE i >= c.lib.warnings
  <2>1. o.conn = c
    BY <1>1, <1>7 DEF Result
  <2> QED BY <2>1 DEF o
<1>8. CASE ~(i >= c.lib.warnings)
  <2>1. Serves(o.conn)
    BY <1>1, <1>6, <1>8, CallServes
  <2> QED BY <2>1 DEF o
<1> QED BY <1>7, <1>8
-----------------------------------------------------------------------------
(* mylite_exec: what the caller can rely on.  first is the first answer. *)
Execs(c, first, r) ==
  /\ Calls(c, None, r) /\ r.rc \in {"OK", "ERROR"}
  /\ r.rc = "OK" => r.ran
  /\ r.rc = "ERROR" => ~r.ran /\ r.conn.errcode
  /\ r.rc = "OK" /\ first.kind = "ok" =>
       r.conn.changes = first.n /\ r.conn.last_insert_id = first.n

(* The frame of a call that read the answer first. *)
FrameOf(f, first) ==
  /\ f.insert_id \in Count0 /\ (f.has_result \/ f.affected \in Counts)
  /\ first.kind = "ok" => ~f.has_result /\ f.affected = first.n /\ f.insert_id = first.n

(* mylite_exec from the end of its callback to its return. *)
LEMMA ExecFinishes ==
  ASSUME NEW c, ConnOK(c), NEW lib, Quiet(c.lib, None, lib), Ready(lib), NEW f, NEW first,
         FrameOf(f, first), Drainable(lib, f.ran)
  PROVE  Execs(c, first, FinishExec([SetOk(c) EXCEPT !.lib = lib], f))
<1> DEFINE k == [SetOk(c) EXCEPT !.lib = lib]
           r == FinishExec(k, f)
<1>1. /\ IsConn(k) /\ k.lib = lib /\ k.my = c.my
      /\ k.changes = c.changes /\ k.last_insert_id = c.last_insert_id
  BY DEF SetOk, IsConn, ConnOK
<1>2. Finishes(k, f, r)
  <2> HIDE DEF k
  <2> QED BY <1>1, FinishIs DEF ConnOK, FrameOf
<1> HIDE DEF k, r
<1>3. Changes(c, None, r.conn)
  BY <1>1, <1>2 DEF Finishes, Changes
<1>4. Foreign(c.lib, None, r.conn.lib)
  <2>1. Quiet(lib, None, r.conn.lib)
    BY <1>1, <1>2 DEF Finishes
  <2>2. Foreign(c.lib, None, lib) /\ Foreign(lib, None, r.conn.lib)
    BY <2>1, QuietIsForeign
  <2> QED BY <2>2, ForeignTwice
<1>5. Calls(c, None, r)
  BY <1>2, <1>3, <1>4 DEF Calls, Finishes
<1>6. /\ r.rc \in {"OK", "ERROR"} /\ (r.rc = "OK" => r.ran)
      /\ (r.rc = "ERROR" => ~r.ran /\ r.conn.errcode)
  BY <1>1, <1>2 DEF Finishes
<1>7. r.rc = "OK" /\ first.kind = "ok" =>
        r.conn.changes = first.n /\ r.conn.last_insert_id = first.n
  BY <1>2 DEF Finishes, FrameOf
<1>8. Execs(c, first, r)
  BY <1>5, <1>6, <1>7 DEF Execs
<1> QED BY <1>8 DEF r, k

(* mylite_exec that is refused or whose statement fails. *)
LEMMA ExecFails ==
  ASSUME NEW c, ConnOK(c), NEW lib, Elsewhere(c.lib, lib), NEW first, NEW ran, ~ran
  PROVE  Execs(c, first, Result(Failure(c, lib), "ERROR", ran))
<1> DEFINE r == Result(Failure(c, lib), "ERROR", ran)
<1>1. Calls(c, None, r) /\ r.conn.errcode
  BY FailureCalls
<1>2. r.rc = "ERROR" /\ r.ran = ran
  BY DEF Result
<1> HIDE DEF r
<1>3. Execs(c, first, r)
  BY <1>1, <1>2 DEF Execs
<1> QED BY <1>3 DEF r

(* mylite_exec while a statement has rows to read. *)
LEMMA ExecBusy ==
  ASSUME NEW c, Serves(c), ~Ready(c.lib), NEW reply
  PROVE  Execs(c, reply[1], ExecWithoutRows(c, reply))
<1> DEFINE query == ExecQuery(c, reply)
           ran == Ready(c.lib) /\ Succeeds(reply)
<1>1. /\ ConnOK(c) /\ LibInv(c.lib) /\ ~c.lib.more /\ IsLib(c.lib) /\ SetOk(c).lib = c.lib
  BY SetOkKeeps DEF Serves, ConnOK, LibInv
<1>2. query.rc = "error" /\ Refused(c.lib, query.lib)
  BY <1>1, QueryBusy DEF ExecQuery
<1>3. ExecWithoutRows(c, reply) = Result(Failure(c, query.lib), "ERROR", ran)
  BY <1>2 DEF ExecWithoutRows
<1>4. ~ran
  OBVIOUS
<1> HIDE DEF query, ran
<1>5. Elsewhere(c.lib, query.lib)
  BY <1>1, <1>2, RefusedKeeps
<1>6. Execs(c, reply[1], Result(Failure(c, query.lib), "ERROR", ran))
  BY <1>1, <1>4, <1>5, ExecFails
<1> QED BY <1>3, <1>6

(* The first answer is a result set that can be read to its end. *)
LEMMA ExecShows ==
  ASSUME NEW c, Serves(c), Ready(c.lib), NEW reply \in Seq(Datasets), reply # <<>>,
         Head(reply).kind = "rows", Warns(reply) = Head(reply).warns,
         Head(reply).more => Warns(reply) = 0 /\ CallTail(Tail(reply), Succeeds(reply)),
         ~Head(reply).more => Succeeds(reply)
  PROVE  Execs(c, reply[1], ExecWithoutRows(c, reply))
<1> DEFINE query == ExecQuery(c, reply)
           read == StoreResult(query.lib)
           f == Frame(query.lib, reply, 0)
           k == [SetOk(c) EXCEPT !.lib = read.lib]
<1>1. ConnOK(c) /\ LibInv(c.lib) /\ SetOk(c).lib = c.lib
  BY SetOkKeeps DEF Serves, ConnOK
<1>2. Shows(c.lib, reply, query, read)
  BY <1>1, ShowIs DEF ExecQuery
<1>3. ExecWithoutRows(c, reply) = FinishExec(k, f)
  BY <1>2 DEF ExecWithoutRows, Shows
<1> HIDE DEF query, read
<1>4. Rests(c.lib, read.lib)
  BY <1>1, <1>2, ShowRests
<1>5. LibInv(read.lib) /\ Quiet(c.lib, None, read.lib)
  BY <1>1, <1>4, RestsKeeps
<1>6. reply[1] = Head(reply)
  BY SMT
<1>7. /\ f.insert_id = query.lib.insert_id /\ (f.has_result <=> HasColumns(reply[1]))
      /\ (f.ran <=> Succeeds(reply))
  BY DEF Frame
<1> HIDE DEF f
<1>8. FrameOf(f, reply[1])
  <2>1. f.insert_id \in Count0
    BY <1>1, <1>2, <1>7 DEF Shows, LibInv, Count0
  <2>2. f.has_result /\ reply[1].kind # "ok"
    BY <1>6, <1>7 DEF HasColumns
  <2> QED BY <2>1, <2>2 DEF FrameOf
<1>9. /\ Ready(read.lib) /\ read.lib.owner = None /\ read.lib.stored = Warns(reply)
      /\ read.lib.more = Head(reply).more /\ read.lib.first = Tail(reply)
  BY <1>2 DEF Shows, Ready
<1>10. Drainable(read.lib, f.ran)
  <2>1. CASE Head(reply).more
    <3>1. CallTail(Tail(reply), f.ran)
      BY <1>7, <2>1 DEF CallTail
    <3> QED BY <1>5, <1>9, <2>1, <3>1 DEF Drainable
  <2>2. CASE ~Head(reply).more
    BY <1>5, <1>7, <1>9, <2>2 DEF Drainable
  <2> QED BY <2>1, <2>2
<1>11. Execs(c, reply[1], FinishExec(k, f))
  BY <1>1, <1>5, <1>8, <1>9, <1>10, ExecFinishes
<1> QED BY <1>3, <1>11 DEF f

(* One answer that is not a result set, or one whose production failed. *)
LEMMA ExecAnswers ==
  ASSUME NEW c, Serves(c), Ready(c.lib), NEW d, Answers(d, HasColumns(d)), d.kind # "rows"
  PROVE  Execs(c, d, ExecWithoutRows(c, <<d>>))
<1> DEFINE reply == <<d>>
           query == ExecQuery(c, reply)
           read == StoreResult(query.lib)
           ran == Ready(c.lib) /\ Succeeds(reply)
           f == Frame(query.lib, reply, 0)
           k == [SetOk(c) EXCEPT !.lib = read.lib]
           r == ExecWithoutRows(c, reply)
<1>1. ConnOK(c) /\ LibInv(c.lib) /\ IsLib(c.lib) /\ ~c.lib.more /\ SetOk(c).lib = c.lib
  BY SetOkKeeps DEF Serves, ConnOK, LibInv
<1>2. r = IF query.rc = "error" THEN Result(Failure(c, query.lib), "ERROR", ran)
          ELSE IF read.rc = "error" THEN Result(Failure(c, read.lib), "ERROR", ran)
          ELSE FinishExec(k, f)
  BY DEF ExecWithoutRows
<1>3. /\ d.kind \in Kinds /\ d.kind # "rows" /\ ~d.more
      /\ (d.kind = "ok" => d.n \in Counts) /\ (d.kind = "error" => d.warns = 0)
  BY DEF Answers, Datasets
<1>4. PICK n : Sent(c.lib, reply, n) /\ Read(n, d, query)
  <2>1. reply # <<>> /\ Head(reply) = d
    BY Single
  <2> HIDE DEF reply
  <2>2. \E n : Sent(c.lib, reply, n) /\ Read(n, Head(reply), Query(c.lib, reply))
    BY <1>1, <1>3, <2>1, QueryReady
  <2> QED BY <1>1, <2>1, <2>2 DEF ExecQuery
<1>5. /\ f.insert_id = query.lib.insert_id /\ (f.has_result <=> HasColumns(d))
      /\ f.affected = query.lib.affected /\ (f.ran <=> d.kind \in {"ok", "rows"})
      /\ (ran <=> d.kind \in {"ok", "rows"})
  <2>1. reply[1] = d /\ DOMAIN reply = {1}
    BY Single
  <2> QED BY <2>1 DEF Frame, Succeeds
<1>6. /\ Warns(reply) = d.warns /\ Tail(reply) = <<>> /\ <<>> \in Seq(Datasets)
      /\ c.lib.owner = None /\ ~c.lib.null /\ c.lib.insert_id \in Count0
  BY <1>1, Single, Queues DEF LibInv, Ready, Count0
<1> HIDE DEF reply, query, ran, f, r
<1>7. /\ IsLib(query.lib) /\ query.lib.first = <<>> /\ query.lib.owner = None
      /\ query.lib.stmt = c.lib.stmt /\ ~query.lib.null /\ ~query.lib.more
      /\ query.lib.stored = d.warns
  BY <1>3, <1>4, <1>6 DEF Sent, Read
<1>8. ASSUME d.kind \in {"ok", "error"}
      PROVE  /\ LibInv(query.lib) /\ Quiet(c.lib, None, query.lib)
             /\ query.lib.status = "READY"
  <2>1. ~HasColumns(d)
    BY <1>8 DEF HasColumns
  <2>2. query.lib.status = "READY" /\ query.lib.cur = <<>>
    BY <1>4, <2>1 DEF Sent, Read
  <2>3. query.lib.warnings = d.warns /\ query.lib.insert_id \in Count0
    <3>1. CASE d.kind = "ok"
      BY <1>3, <1>4, <3>1 DEF Sent, Read, Count0
    <3>2. CASE d.kind = "error"
      BY <1>3, <1>4, <1>6, <3>2 DEF Sent, Read
    <3> QED BY <1>8, <3>1, <3>2
  <2>4. Rests(c.lib, query.lib)
    BY <1>6, <1>7, <2>2, <2>3 DEF Rests
  <2> QED BY <1>1, <2>2, <2>4, RestsKeeps
<1>9. CASE d.kind = "error"
  <2>1. query.rc = "error" /\ ~ran
    BY <1>4, <1>5, <1>9 DEF Read
  <2>2. Elsewhere(c.lib, query.lib)
    BY <1>7, <1>8, <1>9, QuietIsForeign DEF Elsewhere
  <2>3. r = Result(Failure(c, query.lib), "ERROR", ran)
    BY <1>2, <2>1
  <2>4. Execs(c, d, Result(Failure(c, query.lib), "ERROR", ran))
    BY <1>1, <2>1, <2>2, ExecFails
  <2> QED BY <2>3, <2>4 DEF r, reply
<1>10. CASE d.kind = "ok"
  <2>1. query.rc = "ok" /\ query.lib.affected = d.n /\ query.lib.insert_id = d.n
    BY <1>4, <1>10 DEF Read
  <2>2. read.rc = "none" /\ read.lib = query.lib
    BY <1>8, <1>10, StoreNothing
  <2> HIDE DEF read
  <2>3. r = FinishExec(k, f)
    BY <1>2, <2>1, <2>2
  <2>4. FrameOf(f, d) /\ f.ran
    <3>1. ~HasColumns(d) /\ d.n \in Counts
      BY <1>3, <1>10 DEF HasColumns
    <3> QED BY <1>5, <1>10, <2>1, <3>1 DEF FrameOf, Count0
  <2>5. Drainable(read.lib, f.ran) /\ Ready(read.lib) /\ Quiet(c.lib, None, read.lib)
    BY <1>7, <1>8, <1>10, <2>2, <2>4 DEF Drainable, Ready
  <2>6. Execs(c, d, FinishExec(k, f))
    BY <1>1, <2>4, <2>5, ExecFinishes
  <2> QED BY <2>3, <2>6 DEF r, reply
<1>11. CASE d.kind = "bad"
  <2>1. HasColumns(d)
    BY <1>11 DEF HasColumns
  <2>2. /\ query.rc = "ok" /\ query.lib.status = "GET_RESULT" /\ query.lib.cur = <<d>>
        /\ query.lib.warnings = d.warns /\ query.lib.insert_id \in Count0
    BY <1>4, <1>6, <1>11, <2>1 DEF Read, Sent
  <2>3. Stored(query.lib, d, read)
    BY <1>7, <2>2, StoreIs
  <2> HIDE DEF read
  <2>4. read.rc = "error" /\ read.lib.owner = None /\ ~read.lib.more
    BY <1>3, <1>7, <1>11, <2>3 DEF Stored
  <2>5. Rests(c.lib, read.lib)
    BY <1>6, <1>7, <2>2, <2>3, <2>4 DEF Rests, Stored
  <2>6. Elsewhere(c.lib, read.lib)
    BY <1>1, <2>4, <2>5, RestsKeeps, QuietIsForeign DEF Elsewhere
  <2>7. r = Result(Failure(c, read.lib), "ERROR", ran)
    BY <1>2, <2>2, <2>4
  <2>8. Execs(c, d, Result(Failure(c, read.lib), "ERROR", ran))
    BY <1>1, <1>5, <1>11, <2>6, ExecFails
  <2> QED BY <2>7, <2>8 DEF r, reply
<1> QED BY <1>3, <1>9, <1>10, <1>11 DEF Kinds
-----------------------------------------------------------------------------
(* The replies of the server are of the shapes the calls expect. *)
(* One answer of this kind. *)
Answer(reply, kind) == \E d : reply = <<d>> /\ d.kind = kind /\ Answers(d, HasColumns(d))

(* The replies of a single result are of the kind their name says. *)
LEMMA SingleReplies ==
  ASSUME NEW reply
  PROVE  /\ reply \in OkReply => Answer(reply, "ok")
         /\ reply \in RowsReply => Answer(reply, "rows")
         /\ reply \in BadReply => Answer(reply, "bad")
         /\ reply \in ErrorReply => Answer(reply, "error")
<1>1. 0 \in Nat
  BY SMT
<1>2. ASSUME reply \in OkReply PROVE Answer(reply, "ok")
  <2>1. PICK n \in Counts, w \in Warnings : reply = <<Dataset("ok", n, w, FALSE)>>
    <3> DEFINE e(n, w) == <<Dataset("ok", n, w, FALSE)>>
    <3>1. reply \in {e(n, w) : n \in Counts, w \in Warnings}
      BY <1>2, PTL DEF OkReply
    <3> HIDE DEF e
    <3>2. \E n \in Counts, w \in Warnings : reply = e(n, w)
      BY <3>1, SMT
    <3> QED BY <3>2 DEF e
  <2> DEFINE d == Dataset("ok", n, w, FALSE)
  <2>2. d \in Datasets /\ d.kind = "ok" /\ d.n = n /\ d.more = FALSE
    <3>1. n \in Nat /\ w \in Nat
      BY CallsAssumption
    <3> QED BY <3>1 DEF Dataset, Datasets, Kinds
  <2> HIDE DEF d
  <2>3. Answers(d, HasColumns(d))
    BY <2>2 DEF Answers, HasColumns
  <2> QED BY <2>1, <2>2, <2>3 DEF Answer, d
<1>3. ASSUME reply \in RowsReply PROVE Answer(reply, "rows")
  <2>1. PICK n \in Rows, w \in Warnings : reply = <<Dataset("rows", n, w, FALSE)>>
    <3> DEFINE e(n, w) == <<Dataset("rows", n, w, FALSE)>>
    <3>1. reply \in {e(n, w) : n \in Rows, w \in Warnings}
      BY <1>3, PTL DEF RowsReply
    <3> HIDE DEF e
    <3>2. \E n \in Rows, w \in Warnings : reply = e(n, w)
      BY <3>1, SMT
    <3> QED BY <3>2 DEF e
  <2> DEFINE d == Dataset("rows", n, w, FALSE)
  <2>2. d \in Datasets /\ d.kind = "rows" /\ d.more = FALSE
    <3>1. n \in Nat /\ w \in Nat
      BY CallsAssumption
    <3> QED BY <3>1 DEF Dataset, Datasets, Kinds
  <2> HIDE DEF d
  <2>3. Answers(d, HasColumns(d))
    BY <2>2 DEF Answers, HasColumns
  <2> QED BY <2>1, <2>2, <2>3 DEF Answer, d
<1>4. ASSUME NEW kind \in {"bad", "error"}, reply = <<Dataset(kind, 0, 0, FALSE)>>
      PROVE  Answer(reply, kind)
  <2> DEFINE d == Dataset(kind, 0, 0, FALSE)
  <2>1. d \in Datasets /\ d.kind = kind /\ d.n = 0 /\ d.warns = 0 /\ d.more = FALSE
    BY <1>1 DEF Dataset, Datasets, Kinds
  <2> HIDE DEF d
  <2>2. Answers(d, HasColumns(d))
    BY <2>1 DEF Answers, HasColumns
  <2> QED BY <1>4, <2>1, <2>2 DEF Answer, d
<1>5. /\ reply \in BadReply => reply = <<Dataset("bad", 0, 0, FALSE)>>
      /\ reply \in ErrorReply => reply = <<Dataset("error", 0, 0, FALSE)>>
  BY DEF BadReply, ErrorReply
<1> QED BY <1>2, <1>3, <1>4, <1>5

(* The server answers a prepared statement with one result that fits it. *)
LEMMA StepReplies ==
  ASSUME NEW select, NEW reply \in ErrorReply \cup (IF select THEN RowsReply \cup BadReply ELSE OkReply)
  PROVE  \E d : reply = <<d>> /\ Answers(d, select)
<1>1. CASE select
  <2>1. PICK kind \in {"error", "rows", "bad"} : Answer(reply, kind)
    BY <1>1, SingleReplies
  <2>2. PICK d : reply = <<d>> /\ d.kind = kind /\ Answers(d, HasColumns(d))
    BY <2>1 DEF Answer
  <2>3. Answers(d, select)
    BY <1>1, <2>2 DEF Answers, HasColumns
  <2> QED BY <2>2, <2>3
<1>2. CASE ~select
  <2>1. PICK kind \in {"error", "ok"} : Answer(reply, kind)
    BY <1>2, SingleReplies
  <2>2. PICK d : reply = <<d>> /\ d.kind = kind /\ Answers(d, HasColumns(d))
    BY <2>1 DEF Answer
  <2>3. Answers(d, select)
    BY <1>2, <2>2 DEF Answers, HasColumns
  <2> QED BY <2>2, <2>3
<1> QED BY <1>1, <1>2

(* A result set, and then more, or the end of the reply. *)
Shown(reply) ==
  /\ reply \in Seq(Datasets) /\ reply # <<>> /\ Head(reply).kind = "rows"
  /\ reply[1] = Head(reply) /\ Warns(reply) = Head(reply).warns
  /\ Head(reply).more => Warns(reply) = 0 /\ CallTail(Tail(reply), Succeeds(reply))
  /\ ~Head(reply).more => Succeeds(reply)
  /\ Len(reply) > 1 <=> Head(reply).more

(* Every reply to a CALL begins with a result set. *)
LEMMA CallReplies ==
  ASSUME NEW reply \in CallReply
  PROVE  Shown(reply)
<1>1. PICK k \in 1..MaxSets, end \in {Dataset("ok", 0, 0, FALSE), Dataset("error", 0, 0, FALSE)} :
        reply = [i \in 1..k + 1 |-> IF i <= k THEN Dataset("rows", 1, 0, TRUE) ELSE end]
  BY DEF CallReply
<1> DEFINE a == Dataset("rows", 1, 0, TRUE)
<1>2. k \in Nat \ {0} /\ k + 1 \in Nat
  BY CallsAssumption, SMT
<1>3. 0 \in Nat /\ 1 \in Nat
  BY SMT
<1>4. a \in Datasets /\ a.kind = "rows" /\ a.warns = 0 /\ a.more = TRUE
  BY <1>3 DEF Dataset, Datasets, Kinds
<1>5. PICK kind \in {"ok", "error"} : end = Dataset(kind, 0, 0, FALSE)
  OBVIOUS
<1>6. end \in Datasets /\ end.kind = kind /\ end.warns = 0
  BY <1>3, <1>5 DEF Dataset, Datasets, Kinds
<1>7. reply = [i \in 1..k + 1 |-> IF i <= k THEN a ELSE end]
  BY <1>1
<1> HIDE DEF a
<1>8. \A i \in 1..k + 1 : (IF i <= k THEN a ELSE end) \in Datasets
  BY <1>4, <1>6
<1>9. reply \in Seq(Datasets) /\ Len(reply) = k + 1 /\ DOMAIN reply = 1..k + 1
  BY <1>2, <1>7, <1>8, SMT
<1>10. (\A i \in 1..k : reply[i] = a) /\ reply[k + 1] = end
  BY <1>2, <1>7, SMT
<1>11. reply # <<>> /\ Head(reply) = a /\ reply[1] = a
  BY <1>2, <1>9, <1>10, SMT
<1>12. Succeeds(reply) <=> kind = "ok"
  BY <1>2, <1>4, <1>6, <1>9, <1>10, SMT DEF Succeeds
<1>13. CallTail(reply, Succeeds(reply))
  <2>1. end = Dataset(IF Succeeds(reply) THEN "ok" ELSE "error", 0, 0, FALSE)
    <3>1. CASE kind = "ok"
      BY <1>5, <1>12, <3>1
    <3>2. CASE kind # "ok"
      BY <1>5, <1>12, <3>2
    <3> QED BY <3>1, <3>2
  <2>2. (k + 1) - 1 = k
    BY <1>2, SMT
  <2> QED BY <1>9, <1>10, <1>11, <2>1, <2>2 DEF CallTail, a
<1>14. Warns(reply) = 0 /\ Len(reply) > 1
  <2>1. Warns(reply) = reply[k + 1].warns
    BY <1>9, <1>11 DEF Warns
  <2>2. k + 1 > 1
    BY <1>2, SMT
  <2> QED BY <1>6, <1>9, <1>10, <2>1, <2>2
<1>15. CallTail(Tail(reply), Succeeds(reply))
  BY <1>13, <1>14, CallTailIs
<1> QED BY <1>4, <1>9, <1>11, <1>14, <1>15 DEF Shown

(* So does a reply of rows. *)
LEMMA RowsReplies ==
  ASSUME NEW d, d.kind = "rows", Answers(d, HasColumns(d))
  PROVE  Shown(<<d>>)
<1>1. /\ <<d>> # <<>> /\ Head(<<d>>) = d /\ Len(<<d>>) = 1
      /\ <<d>>[1] = d /\ Warns(<<d>>) = d.warns /\ DOMAIN <<d>> = {1}
  BY Single
<1>2. ~d.more /\ <<d>> \in Seq(Datasets)
  BY Queues DEF Answers
<1>3. ~(1 > 1)
  BY SMT
<1>4. Succeeds(<<d>>)
  BY <1>1 DEF Succeeds
<1> QED BY <1>1, <1>2, <1>3, <1>4 DEF Shown

(* mylite_exec without a callback, with any reply of the server. *)
LEMMA ExecServes ==
  ASSUME NEW c, Serves(c),
         NEW reply \in OkReply \cup RowsReply \cup BadReply \cup ErrorReply \cup CallReply
  PROVE  Execs(c, reply[1], ExecWithoutRows(c, reply))
<1>1. CASE ~Ready(c.lib)
  BY <1>1, ExecBusy
<1>2. ASSUME Ready(c.lib), Shown(reply) PROVE Execs(c, reply[1], ExecWithoutRows(c, reply))
  BY <1>2, ExecShows DEF Shown
<1>3. CASE Ready(c.lib) /\ reply \in CallReply
  BY <1>2, <1>3, CallReplies
<1>4. CASE Ready(c.lib) /\ reply \notin CallReply
  <2>1. PICK d : reply = <<d>> /\ Answers(d, HasColumns(d))
    <3>1. PICK kind : Answer(reply, kind)
      BY <1>4, SingleReplies
    <3> QED BY <3>1 DEF Answer
  <2>2. CASE d.kind = "rows"
    BY <1>2, <1>4, <2>1, <2>2, RowsReplies
  <2>3. CASE d.kind # "rows"
    <3>1. reply[1] = d
      BY <2>1, Single
    <3> QED BY <1>4, <2>1, <2>3, <3>1, ExecAnswers
  <2> QED BY <2>2, <2>3
<1> QED BY <1>1, <1>3, <1>4

(* mylite_exec up to its first row: n is the connection in the callback. *)
CallsBack(c, reply, q, n) ==
  /\ ConnOK(n) /\ n.lib.owner = None /\ n.lib.more = Head(reply).more
  /\ n.lib.first = Tail(reply) /\ n.lib.stored = Warns(reply)
  /\ n.changes = c.changes /\ n.last_insert_id = c.last_insert_id
  /\ \A t \in Stmts : n.my[t].broken = c.my[t].broken
  /\ q.lib.insert_id \in Count0 /\ q.lib.affected = NoCount

(* mylite_exec up to its first callback. *)
LEMMA CallsBackIs ==
  ASSUME NEW c, Serves(c), Ready(c.lib), NEW reply, Shown(reply)
  PROVE  LET query == Query(c.lib, reply)
             stored == [SetOk(c) EXCEPT !.lib = StoreResult(query.lib).lib]
         IN CallsBack(c, reply, query, Observe(c, None, Result(stored, "OK", TRUE)).conn)
<1> DEFINE q == Query(c.lib, reply)
           x == StoreResult(q.lib)
           k == [SetOk(c) EXCEPT !.lib = x.lib]
           r == Result(k, "OK", TRUE)
           o == Observe(c, None, r)
<1>1. ConnOK(c) /\ IsConn(c) /\ LibInv(c.lib)
  BY DEF Serves, ConnOK
<1>2. Shows(c.lib, reply, q, x)
  BY <1>1, ShowIs DEF Shown
<1> HIDE DEF q, x
<1>3. Rests(c.lib, x.lib)
  BY <1>1, <1>2, ShowRests DEF Shown
<1>4. LibInv(x.lib) /\ Quiet(c.lib, None, x.lib)
  BY <1>1, <1>3, RestsKeeps
<1>5. /\ IsConn(k) /\ k.lib = x.lib /\ k.my = c.my
      /\ k.changes = c.changes /\ k.last_insert_id = c.last_insert_id
  BY <1>1 DEF SetOk, IsConn
<1> HIDE DEF k
<1>6. r.conn = k /\ DOMAIN r = {"conn", "rc", "ran"}
  BY DEF Result
<1> HIDE DEF r
<1>7. Changes(c, None, k) /\ Foreign(c.lib, None, k.lib)
  BY <1>1, <1>4, <1>5, LibChanges, QuietIsForeign DEF ConnOK
<1>8. Observed(c, None, r, o)
  BY <1>5, <1>6, <1>7, ObserveIs DEF Changes
<1> HIDE DEF o
<1>9. ConnOK(o.conn)
  BY <1>1, <1>6, <1>7, <1>8, ObserveKeeps
<1>10. /\ o.conn.lib = x.lib /\ o.conn.changes = c.changes
       /\ o.conn.last_insert_id = c.last_insert_id
  BY <1>5, <1>6, <1>8 DEF Observed
<1>11. \A t \in Stmts : o.conn.my[t].broken = c.my[t].broken
  <2>1. \A t \in Stmts : o.conn.my[t].broken = r.conn.my[t].broken
    BY <1>8 DEF Observed
  <2> QED BY <1>5, <1>6, <2>1
<1>12. c.lib.insert_id \in Count0
  BY <1>1 DEF LibInv, Count0
<1>13. CallsBack(c, reply, q, o.conn)
  BY <1>2, <1>9, <1>10, <1>11, <1>12 DEF CallsBack, Shows
<1> QED BY <1>13 DEF o, r, k, x, q

(* The end of a mylite_exec whose callback has run. *)
LEMMA FinishServes ==
  ASSUME NEW c, ConnOK(c), NEW f, Drainable(c.lib, f.ran), f.insert_id \in Count0, f.has_result
  PROVE  LET r == FinishExec(c, f)
         IN /\ Serves(r.conn) /\ r.ran = f.ran /\ (r.rc = "OK" => f.ran)
            /\ r.rc = "ERROR" /\ f.ran => ~Ready(r.conn.lib)
<1> DEFINE r == FinishExec(c, f)
<1>1. Finishes(c, f, r)
  BY FinishIs DEF ConnOK
<1> HIDE DEF r
<1>2. ConnOK(r.conn)
  BY <1>1, QuietKeeps DEF Finishes
<1>3. /\ Serves(r.conn) /\ r.ran = f.ran /\ (r.rc = "OK" => f.ran)
      /\ r.rc = "ERROR" /\ f.ran => ~Ready(r.conn.lib)
  BY <1>1, <1>2 DEF Serves, Finishes
<1> QED BY <1>3 DEF r

(* A callback that asks to stop. *)
LEMMA AbortServes ==
  ASSUME NEW c, ConnOK(c), NEW ran, Drainable(c.lib, ran)
  PROVE  Serves(Failure(c, DrainRemainingQueryResults(c.lib).lib))
<1> DEFINE drain == DrainRemainingQueryResults(c.lib)
           n == Failure(c, drain.lib)
<1>1. Drains(c.lib, ran, drain)
  BY DrainIs
<1> HIDE DEF drain
<1>2. /\ IsConn(n) /\ n.lib = drain.lib /\ n.my = c.my
      /\ n.changes = c.changes /\ n.last_insert_id = c.last_insert_id
  BY DEF Failure, IsConn, ConnOK
<1> HIDE DEF n
<1>3. Changes(c, None, n)
  BY <1>1, <1>2, LibChanges DEF ConnOK, Drains
<1>4. Serves(n)
  BY <1>1, <1>2, <1>3, QuietKeeps DEF Serves, Drains
<1> QED BY <1>4 DEF n, drain

(* A call that the policy refuses. *)
LEMMA RefuseServes ==
  ASSUME NEW c, Serves(c)
  PROVE  Serves(Failure(c, c.lib))
<1> DEFINE n == Failure(c, c.lib)
<1>1. /\ IsConn(n) /\ n.lib = c.lib /\ n.my = c.my
      /\ n.changes = c.changes /\ n.last_insert_id = c.last_insert_id
  BY DEF Failure, IsConn, ConnOK, Serves
<1> HIDE DEF n
<1>2. \A s \in Stmts : StmtInv(n, s)
  BY <1>1 DEF StmtInv, ConnOK, Serves
<1>3. Serves(n)
  BY <1>1, <1>2 DEF Serves, ConnOK
<1> QED BY <1>3 DEF n
-----------------------------------------------------------------------------
(* mylite_open. *)
LEMMA OpenServes ==
  /\ Serves(OpenConnection) /\ OpenConnection.lib.owner = None
  /\ OpenConnection.changes = 0 /\ OpenConnection.last_insert_id = 0
  /\ \A s \in Stmts : OpenConnection.my[s] = NewStatement
<1> DEFINE c == OpenConnection
           m == FreshMysql
<1>1. /\ IsConn(c) /\ c.lib = m /\ c.my = [s \in Stmts |-> NewStatement]
      /\ c.changes = 0 /\ c.last_insert_id = 0
  BY DEF OpenConnection, IsConn
<1>2. /\ DOMAIN m = LibFields /\ m.status = "READY" /\ m.first = <<>> /\ m.cur = <<>>
      /\ m.more = FALSE /\ m.owner = None /\ m.insert_id = 0 /\ m.warnings = 0 /\ m.stored = 0
      /\ m.stmt = [s \in Stmts |-> FreshStmt] /\ m.null = FALSE
  BY DEF FreshMysql, LibFields
<1> HIDE DEF c, m
<1>3. /\ FreshStmt.read = "no_result_set" /\ FreshStmt.cancelled = FALSE
      /\ FreshStmt.columns = FALSE /\ FreshStmt.state = "INIT" /\ DOMAIN FreshStmt = StmtFields
  BY DEF FreshStmt, StmtFields
<1>4. NewStatement \in StmtType /\ NewStatement.left = 0 /\ ~NewStatement.live
  BY SMT DEF NewStatement, StmtType
<1>5. ~(0 > 0)
  BY SMT
<1>6. ASSUME NEW s \in Stmts PROVE HandleInv(m, s) /\ DOMAIN m.stmt[s] = StmtFields
  <2>1. m.stmt[s] = FreshStmt /\ m.owner # s
    BY <1>2, LibraryAssumption
  <2> QED BY <1>3, <2>1 DEF HandleInv, Executed
<1>7. LibInv(m)
  <2>1. DOMAIN m.stmt = Stmts
    BY <1>2
  <2> QED BY <1>2, <1>6, <2>1, Queues DEF LibInv, IsLib
<1>8. ASSUME NEW s \in Stmts PROVE StmtInv(c, s)
  <2>1. c.my[s] = NewStatement /\ c.lib.owner # s
    BY <1>1, <1>2, LibraryAssumption
  <2> QED BY <1>4, <1>5, <2>1 DEF StmtInv
<1>9. ConnOK(c)
  BY <1>1, <1>4, <1>7, <1>8 DEF ConnOK, Count0
<1> QED BY <1>1, <1>2, <1>9 DEF Serves, c

(* mylite_close changes the diagnostics only, and is refused while there are *)
(* statements.                                                               *)
LEMMA CloseServes ==
  ASSUME NEW c, Serves(c)
  PROVE  LET r == MyliteClose(c)
         IN /\ Serves(r.conn) /\ r.conn.lib = c.lib /\ r.conn.my = c.my
            /\ r.rc \in {"OK", "BUSY"} /\ (r.rc = "BUSY" => r.conn.errcode)
            /\ (r.rc = "OK" <=> Live(c) = {})
<1> DEFINE n == [c EXCEPT !.errcode = TRUE]
           r == MyliteClose(c)
<1>1. /\ IsConn(n) /\ n.lib = c.lib /\ n.my = c.my
      /\ n.changes = c.changes /\ n.last_insert_id = c.last_insert_id /\ n.errcode
  BY DEF IsConn, ConnOK, Serves
<1> HIDE DEF n
<1>2. \A s \in Stmts : StmtInv(n, s)
  BY <1>1 DEF StmtInv, ConnOK, Serves
<1>3. Serves(n)
  BY <1>1, <1>2 DEF Serves, ConnOK
<1>4. CASE Live(c) = {}
  <2>1. r.conn = c /\ r.rc = "OK"
    BY <1>4 DEF MyliteClose, Result
  <2> HIDE DEF r
  <2> QED BY <1>4, <2>1 DEF r
<1>5. CASE Live(c) # {}
  <2>1. r.conn = n /\ r.rc = "BUSY"
    BY <1>5 DEF MyliteClose, Result, n
  <2> HIDE DEF r
  <2> QED BY <1>1, <1>3, <1>5, <2>1 DEF r
<1> QED BY <1>4, <1>5
=============================================================================
