------------------------- MODULE PreparedStatement -------------------------
(***************************************************************************)
(* One prepared statement of libmylite (database.cc): mylite_prepare, the   *)
(* mylite_bind_ functions, mylite_step, mylite_reset and mylite_finalize,   *)
(* and the result buffers the statement shares with the MariaDB client      *)
(* library.                                                                 *)
(*                                                                          *)
(* A handle is used by one thread at a time, so calls do not interleave.    *)
(* What makes the code hard is that every call of the MariaDB library may   *)
(* fail and leave a half-done step behind, and that the library keeps       *)
(* pointers to the column buffers, which mylite_step replaces when a value  *)
(* is longer than its buffer.  A step of the model is one library call.     *)
(***************************************************************************)
EXTENDS Naturals, FiniteSets

CONSTANTS
  NumColumns,   \* columns of the result set
  Buffers,      \* heap blocks for column buffers
  MaxLength,    \* the longest value; values have 0..MaxLength bytes
  InitialSize,  \* k_initial_result_buffer_size
  MaxRows,      \* bound on the rows of a result set
  Params,       \* parameters of the statement
  Values,       \* what can be bound to a parameter
  SqlNull,      \* SQL NULL, bound or fetched
  None          \* a null pointer

ASSUME StatementAssumption ==
  /\ NumColumns \in Nat /\ MaxLength \in Nat /\ MaxRows \in Nat
  /\ InitialSize \in 0..MaxLength
  /\ None \notin Buffers
  /\ SqlNull \notin Nat /\ SqlNull \notin Values

Columns == 1..NumColumns

VARIABLES
  pc,         \* "none" before mylite_prepare, "idle" between two calls
  metadata,   \* when the library knows the result set: "never", "prepare" or
              \* only after "execute"
  executed, has_result, has_row,    \* the flags of mylite_stmt
  dirty,      \* result_binds_dirty
  buf,        \* columns[c].buffer
  retired,    \* columns[c].retired_buffer
  length,     \* columns[c].length and is_null, as the last fetch set them
  bound,      \* the buffer the library writes column c to
  size,       \* the buffer_length of each heap block
  data,       \* what it holds: some bytes of a column of a row
  col,        \* the loop index of fetch_truncated_statement_columns
  fetched,    \* rows the library has handed out since mysql_stmt_execute
  delivered,  \* rows mylite_step has reported since
  ended,      \* has the library said MYSQL_NO_DATA?
  failed,     \* has a call on the current execution failed?
  bindings,   \* what the caller has bound to each parameter
  sent,       \* the bindings mysql_stmt_execute ran with
  errcode,    \* is db->errcode an error?
  result      \* what the last call on the statement returned

flags   == <<executed, has_result, has_row>>
memory  == <<dirty, buf, retired, length, bound, size, data>>
cursor  == <<fetched, delivered, ended>>
inputs  == <<metadata, bindings, sent>>
outcome == <<failed, errcode, result>>
vars    == <<pc, flags, memory, col, cursor, inputs, outcome>>
-----------------------------------------------------------------------------
Labels == {"none", "idle", "bind", "setup", "execute", "setuplate",
           "refresh", "fetch", "truncated", "row", "drain"}
Results == {"OK", "ERROR", "MISUSE", "ROW", "DONE"}
Lengths == (0..MaxLength) \cup {SqlNull}

NoBuffers == [c \in Columns |-> None]
NoBindings == [i \in Params |-> SqlNull]
Unused == {b \in Buffers : \A c \in Columns : b # buf[c] /\ b # retired[c]}

(* The first len bytes of column column of row row. *)
Contents == [row : 0..MaxRows, column : 0..NumColumns, len : 0..MaxLength]
Bytes(r, c, n) == [row |-> r, column |-> c, len |-> n]
Garbage == Bytes(0, 0, 0)

Least(a, b) == IF a < b THEN a ELSE b

(* columns[c].error: the value did not fit the buffer it was fetched to. *)
Truncated(c) == length[c] # SqlNull /\ length[c] > size[bound[c]]

Init ==
  /\ pc = "none"
  /\ metadata = "never"
  /\ executed = FALSE /\ has_result = FALSE /\ has_row = FALSE
  /\ dirty = FALSE
  /\ buf = NoBuffers /\ retired = NoBuffers /\ bound = NoBuffers
  /\ length = [c \in Columns |-> 0]
  /\ size = [b \in Buffers |-> 0]
  /\ data = [b \in Buffers |-> Garbage]
  /\ col = 1
  /\ fetched = 0 /\ delivered = 0 /\ ended = FALSE
  /\ bindings = NoBindings /\ sent = NoBindings
  /\ failed = FALSE /\ errcode = FALSE /\ result = "OK"

Return(code) ==
  /\ pc' = "idle"
  /\ result' = code
  /\ failed' = (failed \/ code = "ERROR")
  /\ errcode' = (errcode \/ code = "ERROR")

Goto(label) == pc' = label /\ UNCHANGED outcome

(* The library's pointers dangle until the next mysql_stmt_bind_result. *)
ReleaseStatementResults ==
  /\ buf' = NoBuffers /\ retired' = NoBuffers
  /\ length' = [c \in Columns |-> 0]
  /\ size' = [b \in Buffers |-> 0]
  /\ data' = [b \in Buffers |-> Garbage]
  /\ dirty' = FALSE
  /\ has_result' = FALSE /\ has_row' = FALSE
-----------------------------------------------------------------------------
(***************************************************************************)
(* mylite_prepare: a failure leaves no statement, a success binds NULL to   *)
(* every parameter.  The library may know the result set now or later.      *)
(***************************************************************************)
Prepare ==
  /\ pc = "none"
  /\ pc' = "idle"
  /\ metadata' \in {"never", "prepare", "execute"}
  /\ bindings' = NoBindings
  /\ failed' = FALSE /\ errcode' = FALSE /\ result' = "OK"
  /\ UNCHANGED <<flags, memory, col, cursor, sent>>

PrepareFails ==
  /\ pc = "none"
  /\ errcode' = TRUE /\ result' = "ERROR"
  /\ UNCHANGED <<pc, flags, memory, col, cursor, inputs, failed>>

(* Mutant: the test of stmt.executed is forgotten. *)
BindAnytime ==
  /\ pc = "idle"
  /\ result' = "OK"
  /\ \E i \in Params, v \in Values \cup {SqlNull} :
       bindings' = [bindings EXCEPT ![i] = v]
  /\ UNCHANGED <<pc, flags, memory, col, cursor, metadata, sent, failed, errcode>>

(* mylite_bind_null, _int64, _uint64, _double, _text and _blob. *)
Bind ==
  /\ pc = "idle"
  /\ ~executed
  /\ result' = "OK"
  /\ \E i \in Params, v \in Values \cup {SqlNull} :
       bindings' = [bindings EXCEPT ![i] = v]
  /\ UNCHANGED <<pc, flags, memory, col, cursor, metadata, sent, failed, errcode>>

ClearBindings ==
  /\ pc = "idle"
  /\ ~executed
  /\ result' = "OK"
  /\ bindings' = NoBindings
  /\ UNCHANGED <<pc, flags, memory, col, cursor, metadata, sent, failed, errcode>>

(* The statement is executed, or parameter_at finds no such parameter. *)
BindMisuse ==
  /\ pc = "idle"
  /\ result' = "MISUSE"
  /\ UNCHANGED <<pc, flags, memory, col, cursor, inputs, failed, errcode>>

(* Mutant: mylite_step does not begin with set_ok. *)
StepKeepsError ==
  /\ pc = "idle"
  /\ IF executed /\ ~has_result
     THEN result' = "DONE" /\ UNCHANGED pc
     ELSE pc' = (IF executed THEN "refresh" ELSE "bind") /\ UNCHANGED result
  /\ UNCHANGED <<flags, memory, col, cursor, inputs, failed, errcode>>

(***************************************************************************)
(* mylite_step runs the statement on the first call, then fetches a row on  *)
(* every call until the result set is exhausted.                            *)
(***************************************************************************)
Step ==
  /\ pc = "idle"
  /\ errcode' = FALSE
  /\ IF executed /\ ~has_result
     THEN result' = "DONE" /\ UNCHANGED pc
     ELSE pc' = (IF executed THEN "refresh" ELSE "bind") /\ UNCHANGED result
  /\ UNCHANGED <<flags, memory, col, cursor, inputs, failed>>

(* mysql_stmt_bind_param copies the MYSQL_BIND of every parameter. *)
BindParameters ==
  /\ pc = "bind"
  /\ sent' = bindings
  /\ Goto("setup")
  /\ UNCHANGED <<flags, memory, col, cursor, metadata, bindings>>

(***************************************************************************)
(* initialize_statement_results: when the library knows the result set,     *)
(* every column gets a buffer of the initial size, and the library is told. *)
(***************************************************************************)
InitializeStatementResults ==
  /\ retired' = NoBuffers /\ dirty' = FALSE /\ has_row' = FALSE
  /\ length' = [c \in Columns |-> 0]
  /\ data' = [b \in Buffers |-> Garbage]
  /\ \E new \in [Columns -> Buffers] :
       /\ \A c, d \in Columns : new[c] = new[d] => c = d
       /\ buf' = new /\ bound' = new
       /\ size' = [b \in Buffers |->
                     IF \E c \in Columns : new[c] = b THEN InitialSize ELSE 0]
  /\ has_result' = TRUE

SetUpResults ==
  /\ pc = "setup"
  /\ IF metadata = "prepare"
     THEN InitializeStatementResults
     ELSE ReleaseStatementResults /\ UNCHANGED bound
  /\ Goto("execute")
  /\ UNCHANGED <<executed, col, cursor, inputs>>

(* Mutant: metadata that appears only after the execution is not looked for. *)
ExecuteWithoutLateResults ==
  /\ pc = "execute"
  /\ executed' = TRUE
  /\ fetched' = 0 /\ delivered' = 0 /\ ended' = FALSE /\ failed' = FALSE
  /\ \/ has_result /\ pc' = "refresh" /\ UNCHANGED result
     \/ ~has_result /\ pc' = "idle" /\ result' = "DONE"
  /\ UNCHANGED <<has_result, has_row, memory, col, inputs, errcode>>

Execute ==
  /\ pc = "execute"
  /\ executed' = TRUE
  /\ fetched' = 0 /\ delivered' = 0 /\ ended' = FALSE /\ failed' = FALSE
  /\ \/ has_result /\ pc' = "refresh" /\ UNCHANGED result
     \/ ~has_result /\ metadata = "execute" /\ pc' = "setuplate" /\ UNCHANGED result
     \/ ~has_result /\ metadata # "execute" /\ pc' = "idle" /\ result' = "DONE"
  /\ UNCHANGED <<has_result, has_row, memory, col, inputs, errcode>>

SetUpLateResults ==
  /\ pc = "setuplate"
  /\ InitializeStatementResults
  /\ Goto("refresh")
  /\ UNCHANGED <<executed, col, cursor, inputs>>

(* fetch_statement_row: replaced buffers are bound before the next fetch. *)
RefreshDirtyResultBinds ==
  /\ pc = "refresh"
  /\ IF dirty
     THEN /\ bound' = buf
          /\ retired' = NoBuffers
          /\ size' = [b \in Buffers |->
                        IF \E c \in Columns : retired[c] = b THEN 0 ELSE size[b]]
          /\ data' = [b \in Buffers |->
                        IF \E c \in Columns : retired[c] = b THEN Garbage ELSE data[b]]
          /\ dirty' = FALSE
     ELSE UNCHANGED <<bound, retired, size, data, dirty>>
  /\ Goto("fetch")
  /\ UNCHANGED <<flags, buf, length, col, cursor, inputs>>

(* Mutant: MYSQL_DATA_TRUNCATED is taken for success. *)
FetchRowCutOff ==
  /\ pc = "fetch"
  /\ ~ended
  /\ fetched < MaxRows
  /\ fetched' = fetched + 1
  /\ \E v \in [Columns -> Lengths] :
       /\ length' = v
       /\ data' = [b \in Buffers |->
                     IF \E c \in Columns : bound[c] = b /\ v[c] # SqlNull
                     THEN LET c == CHOOSE k \in Columns : bound[k] = b /\ v[k] # SqlNull
                          IN Bytes(fetched + 1, c, Least(v[c], size[b]))
                     ELSE data[b]]
       /\ Goto("row")
  /\ col' = 1
  /\ UNCHANGED <<flags, dirty, buf, retired, bound, size, delivered, ended, inputs>>

(* mysql_stmt_fetch writes the next row to the bound buffers. *)
FetchRow ==
  /\ pc = "fetch"
  /\ ~ended
  /\ fetched < MaxRows
  /\ fetched' = fetched + 1
  /\ \E v \in [Columns -> Lengths] :
       /\ length' = v
       /\ data' = [b \in Buffers |->
                     IF \E c \in Columns : bound[c] = b /\ v[c] # SqlNull
                     THEN LET c == CHOOSE k \in Columns : bound[k] = b /\ v[k] # SqlNull
                          IN Bytes(fetched + 1, c, Least(v[c], size[b]))
                     ELSE data[b]]
       /\ \/ /\ \E c \in Columns : v[c] # SqlNull /\ v[c] > size[bound[c]]
             /\ Goto("truncated")
          \/ /\ \A c \in Columns : v[c] # SqlNull => v[c] <= size[bound[c]]
             /\ Goto("row")
  /\ col' = 1
  /\ UNCHANGED <<flags, dirty, buf, retired, bound, size, delivered, ended, inputs>>

(* Mutant: the new buffer is not reported to the next fetch. *)
FetchTruncatedColumnClean ==
  /\ pc = "truncated"
  /\ IF Truncated(col)
     THEN \E b \in Unused :
            /\ retired' = [retired EXCEPT ![col] = buf[col]]
            /\ buf' = [buf EXCEPT ![col] = b]
            /\ size' = [size EXCEPT ![b] = length[col]]
            /\ data' = [data EXCEPT ![b] = Bytes(fetched, col, length[col])]
            /\ UNCHANGED dirty
     ELSE UNCHANGED <<retired, buf, size, data, dirty>>
  /\ IF col = NumColumns
     THEN Goto("row") /\ col' = 1
     ELSE Goto("truncated") /\ col' = col + 1
  /\ UNCHANGED <<flags, length, bound, cursor, inputs>>

(* Mutant: the terminating NUL is counted in buffer_length. *)
FetchTruncatedColumnTerminated ==
  /\ pc = "truncated"
  /\ IF Truncated(col)
     THEN \E b \in Unused :
            /\ retired' = [retired EXCEPT ![col] = buf[col]]
            /\ buf' = [buf EXCEPT ![col] = b]
            /\ size' = [size EXCEPT ![b] = length[col] + 1]
            /\ data' = [data EXCEPT ![b] = Bytes(fetched, col, length[col])]
            /\ dirty' = TRUE
     ELSE UNCHANGED <<retired, buf, size, data, dirty>>
  /\ IF col = NumColumns
     THEN Goto("row") /\ col' = 1
     ELSE Goto("truncated") /\ col' = col + 1
  /\ UNCHANGED <<flags, length, bound, cursor, inputs>>

(***************************************************************************)
(* One turn of the loop of fetch_truncated_statement_columns: a value that  *)
(* did not fit is fetched again to a new buffer, and the old one is kept as *)
(* long as the library points to it.                                        *)
(***************************************************************************)
FetchTruncatedColumn ==
  /\ pc = "truncated"
  /\ IF Truncated(col)
     THEN \E b \in Unused :
            /\ retired' = [retired EXCEPT ![col] = buf[col]]
            /\ buf' = [buf EXCEPT ![col] = b]
            /\ size' = [size EXCEPT ![b] = length[col]]
            /\ data' = [data EXCEPT ![b] = Bytes(fetched, col, length[col])]
            /\ dirty' = TRUE
     ELSE UNCHANGED <<retired, buf, size, data, dirty>>
  /\ IF col = NumColumns
     THEN Goto("row") /\ col' = 1
     ELSE Goto("truncated") /\ col' = col + 1
  /\ UNCHANGED <<flags, length, bound, cursor, inputs>>

(* The values are NUL-terminated and the row is handed to the caller. *)
ReportRow ==
  /\ pc = "row"
  /\ has_row' = TRUE
  /\ delivered' = delivered + 1
  /\ Return("ROW")
  /\ UNCHANGED <<executed, has_result, memory, col, fetched, ended, inputs>>

(* MYSQL_NO_DATA, then drain_remaining_statement_results. *)
FetchNoData ==
  /\ pc = "fetch"
  /\ ended' = TRUE
  /\ has_row' = FALSE
  /\ Goto("drain")
  /\ UNCHANGED <<executed, has_result, memory, col, fetched, delivered, inputs>>

DrainRemainingResults ==
  /\ pc = "drain"
  /\ has_result' = FALSE
  /\ Return("DONE")
  /\ UNCHANGED <<executed, has_row, memory, col, cursor, inputs>>

(***************************************************************************)
(* Any call into the library, or an allocation for it, fails: the step      *)
(* returns, with MYLITE_ERROR or MYLITE_NOMEM, and everything done so far   *)
(* is left in place.                                                        *)
(***************************************************************************)
LibraryFails ==
  /\ pc \in Labels \ {"none", "idle", "row"}
  /\ pc = "truncated" => Truncated(col)
  /\ pc = "setup" => metadata = "prepare"
  /\ pc = "refresh" => dirty
  /\ Return("ERROR")
  /\ IF pc = "setup" THEN ReleaseStatementResults
     ELSE UNCHANGED <<has_result, has_row, dirty, buf, retired, length, size, data>>
  /\ col' = 1
  /\ UNCHANGED <<executed, bound, cursor, inputs>>
-----------------------------------------------------------------------------
Reset ==
  /\ pc = "idle"
  /\ ReleaseStatementResults
  /\ executed' = FALSE
  /\ failed' = FALSE /\ errcode' = FALSE /\ result' = "OK"
  /\ UNCHANGED <<pc, bound, col, cursor, inputs>>

(* mysql_stmt_reset fails: the results are gone, the statement stays executed. *)
ResetFails ==
  /\ pc = "idle"
  /\ ReleaseStatementResults
  /\ Return("ERROR")
  /\ UNCHANGED <<executed, bound, col, cursor, inputs>>

Finalize ==
  /\ pc = "idle"
  /\ pc' = "none"
  /\ ReleaseStatementResults
  /\ executed' = FALSE
  /\ bound' = NoBuffers
  /\ fetched' = 0 /\ delivered' = 0 /\ ended' = FALSE
  /\ metadata' = "never" /\ bindings' = NoBindings /\ sent' = NoBindings
  /\ result' = "OK"
  /\ failed' = FALSE
  /\ UNCHANGED <<col, errcode>>

Next ==
  \/ Prepare \/ PrepareFails \/ Bind \/ ClearBindings \/ BindMisuse
  \/ Step \/ BindParameters \/ SetUpResults \/ Execute \/ SetUpLateResults
  \/ RefreshDirtyResultBinds \/ FetchRow \/ FetchTruncatedColumn \/ ReportRow
  \/ FetchNoData \/ DrainRemainingResults \/ LibraryFails
  \/ Reset \/ ResetFails \/ Finalize

Spec == Init /\ [][Next]_vars
-----------------------------------------------------------------------------
(* Every variable keeps its type: no buffer is larger than the value it was  *)
(* allocated for, and no row is reported that the library did not have.      *)
TypeOK ==
  /\ pc \in Labels
  /\ metadata \in {"never", "prepare", "execute"}
  /\ executed \in BOOLEAN /\ has_result \in BOOLEAN /\ has_row \in BOOLEAN
  /\ dirty \in BOOLEAN
  /\ buf \in [Columns -> Buffers \cup {None}]
  /\ retired \in [Columns -> Buffers \cup {None}]
  /\ bound \in [Columns -> Buffers \cup {None}]
  /\ length \in [Columns -> Lengths]
  /\ size \in [Buffers -> 0..MaxLength]
  /\ data \in [Buffers -> Contents]
  /\ col \in Nat
  /\ fetched \in 0..MaxRows /\ delivered \in 0..MaxRows /\ ended \in BOOLEAN
  /\ bindings \in [Params -> Values \cup {SqlNull}]
  /\ sent \in [Params -> Values \cup {SqlNull}]
  /\ failed \in BOOLEAN /\ errcode \in BOOLEAN
  /\ result \in Results

(***************************************************************************)
(* While a result set is open, the library writes every column to a buffer  *)
(* the statement still owns for that column, and when mysql_stmt_fetch runs *)
(* it is the buffer the column accessors read: however often values outgrow *)
(* their buffers, and wherever a step fails, no fetch writes to freed       *)
(* memory or to a buffer nobody reads.                                      *)
(***************************************************************************)
FetchTargetsOwned ==
  /\ has_result => \A c \in Columns : bound[c] # None /\ bound[c] \in {buf[c], retired[c]}
  /\ pc = "fetch" => bound = buf

(***************************************************************************)
(* After MYLITE_ROW, every column that is not NULL reads as the whole value *)
(* of the row the library handed out last, none of it cut off and none of   *)
(* it left over from an earlier row.                                        *)
(***************************************************************************)
RowIsComplete ==
  pc = "idle" /\ has_row /\ ~failed =>
    \A c \in Columns :
      length[c] # SqlNull =>
        /\ data[buf[c]] = Bytes(fetched, c, length[c])
        /\ length[c] <= size[buf[c]]

(***************************************************************************)
(* MYLITE_DONE on an execution on which nothing failed means that the       *)
(* library has no more rows and every row it had was reported.              *)
(***************************************************************************)
DoneMeansDelivered ==
  result = "DONE" /\ ~failed =>
    /\ delivered = fetched
    /\ metadata # "never" => ended

(***************************************************************************)
(* The rows being stepped through were computed from the bindings the       *)
(* statement shows: bindings do not change between execution and reset.     *)
(***************************************************************************)
BindingsFrozen == executed => sent = bindings

(***************************************************************************)
(* db->errcode agrees with what mylite_step or mylite_reset returned: no    *)
(* failure path forgets to record its error, and no success leaves the      *)
(* error of an earlier call behind.                                         *)
(***************************************************************************)
DiagnosticsAgree ==
  pc = "idle" =>
    /\ result = "ERROR" => errcode
    /\ result \in {"ROW", "DONE"} => ~errcode
=============================================================================
