---------------------- MODULE PreparedStatementProofs ----------------------
(***************************************************************************)
(* The inductive invariant of PreparedStatement, one lemma per conjunct     *)
(* with one case per action, and the theorems about a prepared statement.   *)
(***************************************************************************)
EXTENDS PreparedStatement, TLAPS

(* Where the control of a call is, and what it implies for the flags. *)
Flow ==
  /\ pc = "truncated" => col \in Columns
  /\ pc \in {"refresh", "fetch", "truncated", "row", "drain"} => has_result
  /\ pc \in {"none", "execute", "setuplate", "drain"} => ~has_row
  /\ pc = "fetch" => ~dirty
  /\ delivered <= fetched
  /\ pc \in {"truncated", "row"} => delivered < fetched

(* The buffers of an open result set belong to one column each; the library  *)
(* points to the buffer itself, or to the retired one until the next bind.   *)
Targets ==
  has_result =>
    /\ \A c \in Columns : buf[c] \in Buffers /\ bound[c] \in Buffers
    /\ \A c \in Columns : bound[c] \in {buf[c], retired[c]}
    /\ \A c, d \in Columns : buf[c] = buf[d] => c = d
    /\ ~dirty => bound = buf
    /\ pc = "truncated" => \A c \in Columns : c >= col => bound[c] = buf[c]

(* Column c reads as the whole value of the row fetched last. *)
Whole(c) ==
  length[c] # SqlNull => data[buf[c]] = Bytes(fetched, c, length[c]) /\ length[c] <= size[buf[c]]

(* The columns the loop over the truncated ones is through with are whole,   *)
(* and so are those it will find untruncated.                                *)
Rows ==
  /\ pc = "row" => \A c \in Columns : Whole(c)
  /\ pc = "idle" /\ has_row /\ ~failed => \A c \in Columns : Whole(c)
  /\ pc = "truncated" =>
       \A c \in Columns : c < col \/ (length[c] # SqlNull => length[c] <= size[buf[c]]) => Whole(c)

(* How far the execution is: rows are fetched and reported one by one, with  *)
(* the bindings sent to the server, and an error ends the step.              *)
Progress ==
  /\ pc \in {"none", "bind", "setup", "execute"} => ~executed
  /\ pc \in {"setuplate", "refresh", "fetch", "truncated", "row", "drain"} => executed
  /\ pc = "execute" => (has_result <=> metadata = "prepare")
  /\ pc = "drain" => ended
  /\ executed /\ ~failed =>
       /\ fetched = (IF pc \in {"truncated", "row"} THEN delivered + 1 ELSE delivered)
       /\ pc = "idle" => has_result \/ metadata = "never" \/ ended
  /\ result = "DONE" => executed /\ ~has_result /\ pc = "idle"
  /\ executed \/ pc \in {"setup", "execute"} => sent = bindings
  /\ pc \notin {"none", "idle"} => ~errcode
  /\ DiagnosticsAgree

StatementInv == TypeOK /\ Flow /\ Targets /\ Rows /\ Progress

(* The values a reset or a new result set starts from have their types. *)
LEMMA Blank ==
  /\ NoBuffers \in [Columns -> Buffers \cup {None}]
  /\ NoBindings \in [Params -> Values \cup {SqlNull}]
  /\ [c \in Columns |-> 0] \in [Columns -> Lengths]
  /\ [b \in Buffers |-> 0] \in [Buffers -> 0..MaxLength]
  /\ [b \in Buffers |-> Garbage] \in [Buffers -> Contents]
  /\ 0 \in 0..MaxRows
  <1>1. Garbage \in Contents /\ 0 \in Lengths /\ 0 \in 0..MaxLength /\ 0 \in 0..MaxRows
    BY StatementAssumption DEF Garbage, Bytes, Contents, Lengths
  <1> QED
    BY <1>1, Zenon DEF NoBuffers, NoBindings

(* The initial state satisfies the invariant. *)
LEMMA InitInv == Init => StatementInv
  <1> SUFFICES ASSUME Init PROVE StatementInv
    OBVIOUS
  <1>1. TypeOK
    BY Blank, ZenonT(30) DEF Init, TypeOK, Labels, Results
  <1>2. Flow
    BY DEF Init, Flow
  <1>3. Targets /\ Rows
    BY Zenon DEF Init, Targets, Rows
  <1>4. Progress
    BY Zenon DEF Init, Progress, DiagnosticsAgree
  <1> QED
    BY <1>1, <1>2, <1>3, <1>4, Zenon DEF StatementInv

(* ReleaseStatementResults leaves blank, well-typed memory. *)
LEMMA ReleaseTypes ==
  ASSUME ReleaseStatementResults
  PROVE  /\ has_result' = FALSE /\ has_row' = FALSE /\ dirty' = FALSE
         /\ buf' \in [Columns -> Buffers \cup {None}]
         /\ retired' \in [Columns -> Buffers \cup {None}]
         /\ length' \in [Columns -> Lengths]
         /\ size' \in [Buffers -> 0..MaxLength]
         /\ data' \in [Buffers -> Contents]
  BY Blank, Zenon DEF ReleaseStatementResults

(* InitializeStatementResults binds the library to one new buffer a column. *)
LEMMA InitializeTypes ==
  ASSUME InitializeStatementResults
  PROVE  /\ has_result' = TRUE /\ has_row' = FALSE /\ dirty' = FALSE
         /\ buf' \in [Columns -> Buffers] /\ bound' = buf'
         /\ \A c, d \in Columns : buf'[c] = buf'[d] => c = d
         /\ retired' \in [Columns -> Buffers \cup {None}]
         /\ length' \in [Columns -> Lengths]
         /\ size' \in [Buffers -> 0..MaxLength]
         /\ data' \in [Buffers -> Contents]
  <1>1. PICK new \in [Columns -> Buffers] :
          /\ \A c, d \in Columns : new[c] = new[d] => c = d
          /\ buf' = new /\ bound' = new
          /\ size' = [b \in Buffers |->
                        IF \E c \in Columns : new[c] = b THEN InitialSize ELSE 0]
    BY Zenon DEF InitializeStatementResults
  <1>2. size' \in [Buffers -> 0..MaxLength]
    BY <1>1, StatementAssumption
  <1> QED
    BY <1>1, <1>2, Blank, Zenon DEF InitializeStatementResults

(* Every action keeps the types, given where the control is. *)
LEMMA TypeStep == ASSUME TypeOK, Flow, Targets, Next PROVE TypeOK'
  <1>1. CASE Prepare
    BY <1>1, Blank, ZenonT(30) DEF TypeOK, Prepare, Labels, Results, flags, memory, cursor
  <1>2. CASE PrepareFails
    BY <1>2, Zenon DEF TypeOK, PrepareFails, Results, flags, memory, cursor, inputs
  <1>3. CASE ClearBindings
    BY <1>3, Blank, Zenon DEF TypeOK, ClearBindings, Results, flags, memory, cursor
  <1>4. CASE BindMisuse
    BY <1>4 DEF TypeOK, BindMisuse, Results, flags, memory, cursor, inputs
  <1>5. CASE BindParameters
    BY <1>5, Zenon DEF TypeOK, BindParameters, Goto, Labels, flags, memory, cursor,
       outcome
  <1>6. CASE Bind
    BY <1>6 DEF TypeOK, Bind, Results, flags, memory, cursor
  <1>7. CASE Step
    BY <1>7, ZenonT(30) DEF TypeOK, Step, Labels, Results, flags, memory, cursor, inputs
  <1>8. CASE SetUpResults
    <2>1. CASE metadata = "prepare"
      BY <1>8, <2>1, InitializeTypes, Zenon DEF TypeOK, SetUpResults, Goto, Labels,
         cursor, inputs, outcome
    <2>2. CASE metadata # "prepare"
      BY <1>8, <2>2, ReleaseTypes, Zenon DEF TypeOK, SetUpResults, Goto, Labels,
         cursor, inputs, outcome
    <2> QED
      BY <2>1, <2>2, Zenon
  <1>9. CASE SetUpLateResults
    BY <1>9, InitializeTypes, Zenon DEF TypeOK, SetUpLateResults, Goto, Labels,
       cursor, inputs, outcome
  <1>10. CASE Execute
    BY <1>10, Blank, ZenonT(30) DEF TypeOK, Execute, Labels, Results, memory, inputs
  <1>11. CASE RefreshDirtyResultBinds
    <2>1. Garbage \in Contents /\ 0 \in 0..MaxLength
      BY StatementAssumption DEF Garbage, Bytes, Contents
    <2>2. size' \in [Buffers -> 0..MaxLength] /\ data' \in [Buffers -> Contents]
      BY <1>11, <2>1 DEF TypeOK, RefreshDirtyResultBinds
    <2> QED
      BY <1>11, <2>2, Blank, ZenonT(30) DEF TypeOK, RefreshDirtyResultBinds,
         Goto, Labels, flags, cursor, inputs, outcome
  <1>12. CASE FetchRow
    <2>1. PICK v \in [Columns -> Lengths] :
            /\ length' = v
            /\ data' = [b \in Buffers |->
                          IF \E c \in Columns : bound[c] = b /\ v[c] # SqlNull
                          THEN LET c == CHOOSE k \in Columns : bound[k] = b /\ v[k] # SqlNull
                               IN Bytes(fetched + 1, c, Least(v[c], size[b]))
                          ELSE data[b]]
      BY <1>12, Zenon DEF FetchRow
    <2>2. ASSUME NEW b \in Buffers PROVE data'[b] \in Contents
      <3>1. CASE \E c \in Columns : bound[c] = b /\ v[c] # SqlNull
        <4> DEFINE c == CHOOSE k \in Columns : bound[k] = b /\ v[k] # SqlNull
        <4>1. c \in Columns /\ v[c] # SqlNull
          BY <3>1, Zenon
        <4>2. Least(v[c], size[b]) \in 0..MaxLength
          BY <4>1, <2>1, Zenon DEF TypeOK, Lengths, Least
        <4>3. fetched + 1 \in 0..MaxRows
          BY <1>12, StatementAssumption DEF TypeOK, FetchRow
        <4>4. c \in 0..NumColumns
          BY <4>1, StatementAssumption DEF Columns
        <4>5. data'[b] = Bytes(fetched + 1, c, Least(v[c], size[b]))
          BY <2>1, <3>1, Zenon
        <4> QED
          BY <4>2, <4>3, <4>4, <4>5 DEF Bytes, Contents
      <3>2. CASE ~ \E c \in Columns : bound[c] = b /\ v[c] # SqlNull
        BY <3>2, <2>1, Zenon DEF TypeOK
      <3> QED
        BY <3>1, <3>2, Zenon
    <2>3. data' \in [Buffers -> Contents]
      BY <2>1, <2>2, Zenon
    <2>4. fetched' \in 0..MaxRows
      BY <1>12, StatementAssumption DEF TypeOK, FetchRow
    <2> QED
      BY <1>12, <2>1, <2>3, <2>4 DEF TypeOK, FetchRow, Goto, Labels, flags, inputs, outcome
  <1>13. CASE FetchTruncatedColumn
    <2>1. col \in Columns /\ col' \in Nat /\ pc' \in Labels
      BY <1>13 DEF Flow, TypeOK, FetchTruncatedColumn, Goto, Labels
    <2>2. CASE Truncated(col)
      <3>1. PICK b \in Buffers :
              /\ retired' = [retired EXCEPT ![col] = buf[col]]
              /\ buf' = [buf EXCEPT ![col] = b]
              /\ size' = [size EXCEPT ![b] = length[col]]
              /\ data' = [data EXCEPT ![b] = Bytes(fetched, col, length[col])]
              /\ dirty' = TRUE
        BY <1>13, <2>2, Zenon DEF FetchTruncatedColumn, Unused
      <3>2. length[col] \in 0..MaxLength
        BY <2>1, <2>2, Zenon DEF TypeOK, Truncated, Lengths
      <3>3. Bytes(fetched, col, length[col]) \in Contents
        BY <2>1, <3>2, StatementAssumption DEF TypeOK, Bytes, Contents, Columns
      <3> QED
        BY <1>13, <2>1, <3>1, <3>2, <3>3 DEF TypeOK, FetchTruncatedColumn, Goto, flags, cursor, inputs, outcome
    <2>3. CASE ~Truncated(col)
      BY <1>13, <2>1, <2>3 DEF TypeOK, FetchTruncatedColumn, Goto, flags, cursor, inputs, outcome
    <2> QED
      BY <2>2, <2>3, Zenon
  <1>14. CASE ReportRow
    <2>1. delivered' \in 0..MaxRows
      BY <1>14, StatementAssumption DEF TypeOK, Flow, ReportRow
    <2> QED
      BY <1>14, <2>1, Zenon DEF TypeOK, ReportRow, Return, Labels, Results, memory,
         inputs
  <1>15. CASE FetchNoData
    BY <1>15, ZenonT(30) DEF TypeOK, FetchNoData, Goto, Labels, memory, inputs, outcome
  <1>16. CASE DrainRemainingResults
    BY <1>16, ZenonT(30) DEF TypeOK, DrainRemainingResults, Return, Labels, Results, memory, cursor, inputs
  <1>17. CASE LibraryFails
    <2>1. CASE pc = "setup"
      BY <1>17, <2>1, ReleaseTypes, Zenon DEF TypeOK, LibraryFails, Return, Labels,
         Results, cursor, inputs
    <2>2. CASE pc # "setup"
      BY <1>17, <2>2, Zenon DEF TypeOK, LibraryFails, Return, Labels, Results,
         cursor, inputs
    <2> QED
      BY <2>1, <2>2, Zenon
  <1>18. CASE Reset \/ ResetFails
    BY <1>18, ReleaseTypes, ZenonT(30) DEF TypeOK, Reset, ResetFails, Return, Labels, Results, cursor, inputs
  <1>19. CASE Finalize
    BY <1>19, ReleaseTypes, Blank, ZenonT(30) DEF TypeOK, Finalize, Labels, Results
  <1> QED
    BY <1>1, <1>2, <1>3, <1>4, <1>5, <1>6, <1>7, <1>8, <1>9, <1>10, <1>11, <1>12,
       <1>13, <1>14, <1>15, <1>16, <1>17, <1>18, <1>19, Zenon DEF Next

(* Every action keeps the flags in step with the control. *)
LEMMA FlowStep == ASSUME TypeOK, Flow, Next PROVE Flow'
  <1> USE DEF Flow, Goto, Return, flags, memory, cursor, inputs, outcome
  <1>1. CASE Prepare \/ PrepareFails \/ Bind \/ ClearBindings \/ BindMisuse
    BY <1>1 DEF Prepare, PrepareFails, Bind, ClearBindings, BindMisuse
  <1>2. CASE Step
    BY <1>2, Zenon DEF Step, TypeOK
  <1>3. CASE BindParameters
    BY <1>3, Zenon DEF BindParameters
  <1>4. CASE SetUpResults
    BY <1>4, ReleaseTypes, InitializeTypes, ZenonT(30) DEF SetUpResults
  <1>5. CASE Execute
    BY <1>5 DEF Execute
  <1>6. CASE SetUpLateResults
    BY <1>6, InitializeTypes, Zenon DEF SetUpLateResults
  <1>7. CASE RefreshDirtyResultBinds
    BY <1>7, Zenon DEF RefreshDirtyResultBinds
  <1>8. CASE FetchRow
    <2>1. pc' = "truncated" => col' \in Columns
      BY <1>8, StatementAssumption DEF FetchRow, Columns
    <2>2. delivered' < fetched' /\ delivered' <= fetched'
      BY <1>8 DEF FetchRow, TypeOK
    <2>3. pc' \in {"truncated", "row"} /\ has_result'
      BY <1>8, Zenon DEF FetchRow
    <2> QED
      BY <2>1, <2>2, <2>3, Zenon
  <1>9. CASE FetchTruncatedColumn
    <2>1. pc' = "truncated" => col' \in Columns
      BY <1>9, StatementAssumption DEF FetchTruncatedColumn, Columns
    <2> QED
      BY <1>9, <2>1, Zenon DEF FetchTruncatedColumn
  <1>10. CASE ReportRow
    BY <1>10 DEF ReportRow, TypeOK
  <1>11. CASE FetchNoData \/ DrainRemainingResults
    BY <1>11, Zenon DEF FetchNoData, DrainRemainingResults
  <1>12. CASE LibraryFails
    BY <1>12, Zenon DEF LibraryFails
  <1>13. CASE Reset \/ ResetFails
    BY <1>13, Zenon DEF Reset, ResetFails
  <1>14. CASE Finalize
    BY <1>14, ReleaseTypes, SMTT(30) DEF Finalize
  <1> QED
    BY <1>1, <1>2, <1>3, <1>4, <1>5, <1>6, <1>7, <1>8, <1>9, <1>10, <1>11, <1>12,
       <1>13, <1>14, Zenon DEF Next

(* Every action keeps the library's pointers on buffers the statement owns. *)
LEMMA TargetsStep == ASSUME TypeOK, Flow, Targets, Next PROVE Targets'
  <1> USE DEF Targets, Goto, Return, flags, memory, cursor, inputs, outcome
  <1>1. CASE Prepare \/ PrepareFails \/ Bind \/ ClearBindings \/ BindMisuse
    BY <1>1, ZenonT(30) DEF Prepare, PrepareFails, Bind, ClearBindings, BindMisuse
  <1>2. CASE Step
    BY <1>2, ZenonT(30) DEF Step
  <1>3. CASE BindParameters
    BY <1>3, Zenon DEF BindParameters
  <1>4. CASE SetUpResults
    BY <1>4, ReleaseTypes, InitializeTypes, ZenonT(30) DEF SetUpResults
  <1>5. CASE Execute
    BY <1>5, Zenon DEF Execute
  <1>6. CASE SetUpLateResults
    BY <1>6, InitializeTypes, Zenon DEF SetUpLateResults
  <1>7. CASE RefreshDirtyResultBinds
    BY <1>7, Zenon DEF RefreshDirtyResultBinds
  <1>8. CASE FetchRow
    BY <1>8, Zenon DEF FetchRow, Flow
  <1>9. CASE FetchTruncatedColumn
    <2>1. has_result /\ col \in Columns /\ bound[col] = buf[col] /\ UNCHANGED <<has_result, bound>>
      BY <1>9 DEF FetchTruncatedColumn, Flow, Columns
    <2>2. ASSUME NEW c \in Columns, pc' = "truncated", c >= col'
          PROVE  c > col /\ bound[c] = buf[c]
      BY <1>9, <2>1, <2>2 DEF FetchTruncatedColumn, Columns
    <2>3. CASE Truncated(col)
      <3>1. PICK b \in Unused :
              /\ retired' = [retired EXCEPT ![col] = buf[col]]
              /\ buf' = [buf EXCEPT ![col] = b]
              /\ dirty' = TRUE
        BY <1>9, <2>3, Zenon DEF FetchTruncatedColumn
      <3>2. b \in Buffers /\ \A c \in Columns : b # buf[c]
        BY Zenon DEF Unused
      <3>3. \A c \in Columns : buf'[c] = (IF c = col THEN b ELSE buf[c])
        BY <3>1, <2>1, Zenon DEF TypeOK
      <3>4. \A c \in Columns : retired'[c] = (IF c = col THEN buf[col] ELSE retired[c])
        BY <3>1, <2>1, Zenon DEF TypeOK
      <3>5. \A c \in Columns : c > col => buf'[c] = buf[c]
        BY <3>3 DEF Columns
      <3> QED
        BY <2>1, <2>2, <3>1, <3>2, <3>3, <3>4, <3>5
    <2>4. CASE ~Truncated(col)
      BY <1>9, <2>1, <2>2, <2>4, SMTT(30) DEF FetchTruncatedColumn
    <2> QED
      BY <2>3, <2>4, Zenon
  <1>10. CASE ReportRow
    BY <1>10, ZenonT(30) DEF ReportRow
  <1>11. CASE FetchNoData \/ DrainRemainingResults
    BY <1>11, ZenonT(30) DEF FetchNoData, DrainRemainingResults
  <1>12. CASE LibraryFails
    BY <1>12, ReleaseTypes, ZenonT(30) DEF LibraryFails
  <1>13. CASE Reset \/ ResetFails \/ Finalize
    BY <1>13, ReleaseTypes, Zenon DEF Reset, ResetFails, Finalize
  <1> QED
    BY <1>1, <1>2, <1>3, <1>4, <1>5, <1>6, <1>7, <1>8, <1>9, <1>10, <1>11, <1>12, <1>13, ZenonT(30) DEF Next

(* Every action keeps the values of the current row whole. *)
LEMMA RowsStep == ASSUME TypeOK, Flow, Targets, Rows, Next PROVE Rows'
  <1> USE DEF Rows, Whole, Goto, Return, flags, memory, cursor, inputs, outcome
  <1>1. CASE Prepare \/ PrepareFails
    BY <1>1 DEF Prepare, PrepareFails, Flow
  <1>2. CASE Bind \/ ClearBindings \/ BindMisuse
    BY <1>2 DEF Bind, ClearBindings, BindMisuse
  <1>3. CASE Step \/ BindParameters
    BY <1>3 DEF Step, BindParameters
  <1>4. CASE SetUpResults \/ SetUpLateResults
    BY <1>4, Zenon DEF SetUpResults, SetUpLateResults
  <1>5. CASE Execute
    BY <1>5, Zenon DEF Execute, Flow
  <1>6. CASE RefreshDirtyResultBinds
    BY <1>6, Zenon DEF RefreshDirtyResultBinds
  <1>7. CASE FetchRow
    <2>1. PICK v \in [Columns -> Lengths] :
            /\ length' = v
            /\ data' = [b \in Buffers |->
                          IF \E c \in Columns : bound[c] = b /\ v[c] # SqlNull
                          THEN LET c == CHOOSE k \in Columns : bound[k] = b /\ v[k] # SqlNull
                               IN Bytes(fetched + 1, c, Least(v[c], size[b]))
                          ELSE data[b]]
            /\ \/ pc' = "truncated"
               \/ /\ \A c \in Columns : v[c] # SqlNull => v[c] <= size[bound[c]]
                  /\ pc' = "row"
      BY <1>7, Zenon DEF FetchRow
    <2>2. bound = buf /\ \A c \in Columns : buf[c] \in Buffers
      BY <1>7, Zenon DEF FetchRow, Flow, Targets
    <2>3. \A c, d \in Columns : buf[c] = buf[d] => c = d
      BY <1>7, Zenon DEF FetchRow, Flow, Targets
    <2>4. ASSUME NEW c \in Columns, v[c] # SqlNull
          PROVE  data'[buf[c]] = Bytes(fetched + 1, c, Least(v[c], size[buf[c]]))
      <3>1. c = CHOOSE k \in Columns : bound[k] = buf[c] /\ v[k] # SqlNull
        BY <2>2, <2>3, <2>4, Zenon
      <3> QED
        BY <2>1, <2>2, <2>4, <3>1, ZenonT(30)
    <2>5. ASSUME NEW c \in Columns, v[c] # SqlNull, v[c] <= size[buf[c]]
          PROVE  Least(v[c], size[buf[c]]) = v[c]
      BY <2>2, <2>5 DEF Least, TypeOK, Lengths
    <2>6. UNCHANGED <<buf, size>> /\ fetched' = fetched + 1 /\ col' = 1
      BY <1>7, Zenon DEF FetchRow
    <2>7. \A c \in Columns : v[c] # SqlNull /\ v[c] <= size[buf[c]] => Whole(c)'
      BY <2>1, <2>4, <2>5, <2>6, Zenon
    <2>8. \A c \in Columns : v[c] = SqlNull => Whole(c)'
      BY <2>1, Zenon
    <2>9. \A c \in Columns : ~(c < col')
      BY <2>6 DEF Columns
    <2>10. CASE pc' = "truncated"
      BY <2>1, <2>6, <2>7, <2>8, <2>9, <2>10, Zenon
    <2>11. CASE pc' = "row" /\ \A c \in Columns : v[c] # SqlNull => v[c] <= size[bound[c]]
      BY <2>2, <2>7, <2>8, <2>11, Zenon
    <2> QED
      BY <2>1, <2>10, <2>11, Zenon
  <1>8. CASE FetchTruncatedColumn
    <2>1. has_result /\ col \in Columns /\ bound[col] = buf[col] /\ UNCHANGED <<length, fetched>>
      BY <1>8 DEF FetchTruncatedColumn, Flow, Targets, Columns
    <2>2. \A c \in Columns : buf[c] \in Buffers
      BY <2>1, Zenon DEF Targets
    <2>3. \/ pc' = "row" /\ \A c \in Columns : c <= col
          \/ pc' = "truncated" /\ \A c \in Columns : c < col' => c <= col
      BY <1>8, <2>1 DEF FetchTruncatedColumn, Columns
    <2>4. \A c \in Columns : c <= col => c = col \/ c < col
      BY <2>1 DEF Columns
    <2>5. CASE Truncated(col)
      <3>1. PICK b \in Unused :
              /\ buf' = [buf EXCEPT ![col] = b]
              /\ size' = [size EXCEPT ![b] = length[col]]
              /\ data' = [data EXCEPT ![b] = Bytes(fetched, col, length[col])]
        BY <1>8, <2>5, Zenon DEF FetchTruncatedColumn
      <3>2. b \in Buffers /\ \A c \in Columns : b # buf[c]
        BY Zenon DEF Unused
      <3>3. ASSUME NEW c \in Columns, c = col PROVE Whole(c)'
        <4>1. buf'[col] = b /\ size'[b] = length[col] /\ data'[b] = Bytes(fetched, col, length[col])
          BY <2>1, <3>1, <3>2, Zenon DEF TypeOK
        <4>2. length[col] <= length[col]
          BY <2>1, <2>5 DEF Truncated, TypeOK, Lengths
        <4> QED
          BY <2>1, <3>3, <4>1, <4>2, Zenon
      <3>4. \A c \in Columns : c # col =>
              buf'[c] = buf[c] /\ size'[buf[c]] = size[buf[c]] /\ data'[buf[c]] = data[buf[c]]
        BY <2>1, <2>2, <3>1, <3>2, Zenon DEF TypeOK
      <3>5. ASSUME NEW c \in Columns, c < col \/ (length[c] # SqlNull => length[c] <= size[buf[c]]), c # col
            PROVE  Whole(c)'
        BY <1>8, <2>1, <3>4, <3>5 DEF FetchTruncatedColumn
      <3> QED
        BY <2>1, <2>3, <2>4, <3>3, <3>4, <3>5, Zenon
    <2>6. CASE ~Truncated(col)
      <3>1. UNCHANGED <<buf, size, data>>
        BY <1>8, <2>6, Zenon DEF FetchTruncatedColumn
      <3>2. length[col] # SqlNull => length[col] <= size[buf[col]]
        BY <2>1, <2>2, <2>6 DEF Truncated, TypeOK, Lengths
      <3> QED
        BY <1>8, <2>1, <2>3, <2>4, <3>1, <3>2, Zenon DEF FetchTruncatedColumn
    <2> QED
      BY <2>5, <2>6, Zenon
  <1>9. CASE ReportRow
    BY <1>9, Zenon DEF ReportRow
  <1>10. CASE FetchNoData \/ DrainRemainingResults
    <2>1. CASE FetchNoData
      BY <2>1, Zenon DEF FetchNoData
    <2>2. CASE DrainRemainingResults
      BY <2>2, Zenon DEF DrainRemainingResults, Flow
    <2> QED
      BY <1>10, <2>1, <2>2, SMTT(30)
  <1>11. CASE LibraryFails
    BY <1>11, ZenonT(30) DEF LibraryFails
  <1>12. CASE Reset \/ ResetFails \/ Finalize
    BY <1>12, ReleaseTypes, ZenonT(30) DEF Reset, ResetFails, Finalize
  <1> QED
    BY <1>1, <1>2, <1>3, <1>4, <1>5, <1>6, <1>7, <1>8, <1>9, <1>10, <1>11, <1>12, ZenonT(30) DEF Next

(* Every action keeps the count of rows, the bindings and the diagnostics. *)
LEMMA ProgressStep == ASSUME TypeOK, Flow, Progress, Next PROVE Progress'
  <1> USE DEF Progress, DiagnosticsAgree, Flow, Goto, Return, flags, memory, cursor, inputs, outcome
  <1>1. CASE Prepare
    BY <1>1, Zenon DEF Prepare, TypeOK
  <1>2. CASE PrepareFails
    BY <1>2, Zenon DEF PrepareFails, TypeOK
  <1>3. CASE Bind
    BY <1>3, Zenon DEF Bind, TypeOK
  <1>4. CASE ClearBindings
    BY <1>4, Zenon DEF ClearBindings, TypeOK
  <1>5. CASE BindMisuse
    BY <1>5, Zenon DEF BindMisuse, TypeOK
  <1>6. CASE Step
    BY <1>6, Zenon DEF Step, TypeOK
  <1>7. CASE BindParameters
    BY <1>7, Zenon DEF BindParameters, TypeOK
  <1>8. CASE SetUpResults
    BY <1>8, ReleaseTypes, InitializeTypes, ZenonT(30) DEF SetUpResults, TypeOK
  <1>9. CASE Execute
    BY <1>9, Zenon DEF Execute, TypeOK
  <1>10. CASE SetUpLateResults
    BY <1>10, InitializeTypes, Zenon DEF SetUpLateResults, TypeOK
  <1>11. CASE RefreshDirtyResultBinds
    BY <1>11, Zenon DEF RefreshDirtyResultBinds, TypeOK
  <1>12. CASE FetchRow
    BY <1>12 DEF FetchRow, TypeOK
  <1>13. CASE FetchTruncatedColumn
    BY <1>13, Zenon DEF FetchTruncatedColumn, TypeOK
  <1>14. CASE ReportRow
    BY <1>14, Zenon DEF ReportRow, TypeOK
  <1>15. CASE FetchNoData
    BY <1>15, Zenon DEF FetchNoData, TypeOK
  <1>16. CASE DrainRemainingResults
    BY <1>16, Zenon DEF DrainRemainingResults, TypeOK
  <1>17. CASE LibraryFails
    BY <1>17, ReleaseTypes, ZenonT(30) DEF LibraryFails, TypeOK
  <1>18. CASE Reset
    BY <1>18, ReleaseTypes, Zenon DEF Reset, TypeOK
  <1>19. CASE ResetFails
    BY <1>19, ReleaseTypes, ZenonT(30) DEF ResetFails, TypeOK
  <1>20. CASE Finalize
    BY <1>20, ReleaseTypes, Zenon DEF Finalize, TypeOK
  <1> QED
    BY ZenonT(30), <1>1, <1>2, <1>3, <1>4, <1>5, <1>6, <1>7, <1>8, <1>9, <1>10,
       <1>11, <1>12, <1>13, <1>14, <1>15, <1>16, <1>17, <1>18, <1>19, <1>20
    DEF Next

(* A step that changes nothing keeps the invariant. *)
LEMMA StutterInv == ASSUME StatementInv, UNCHANGED vars PROVE StatementInv'
  <1> USE DEF vars, flags, memory, cursor, inputs, outcome
  <1>1. TypeOK'
    BY Zenon DEF StatementInv, TypeOK
  <1>2. Flow'
    BY Zenon DEF StatementInv, Flow
  <1>3. Targets'
    BY Zenon DEF StatementInv, Targets
  <1>4. Rows'
    BY Zenon DEF StatementInv, Rows, Whole
  <1>5. Progress'
    BY Zenon DEF StatementInv, Progress, DiagnosticsAgree
  <1> QED
    BY <1>1, <1>2, <1>3, <1>4, <1>5, Zenon DEF StatementInv

(***************************************************************************)
(* The invariant holds in every state of every statement.                   *)
(***************************************************************************)
THEOREM StatementInvariant == Spec => []StatementInv
  <1>1. StatementInv /\ [Next]_vars => StatementInv'
    <2> SUFFICES ASSUME StatementInv, [Next]_vars PROVE StatementInv'
      OBVIOUS
    <2>1. CASE Next
      BY <2>1, TypeStep, FlowStep, TargetsStep, RowsStep, ProgressStep, Zenon DEF
         StatementInv
    <2>2. CASE UNCHANGED vars
      BY <2>2, StutterInv, Zenon
    <2> QED
      BY <2>1, <2>2, Zenon
  <1> QED
    BY <1>1, InitInv, PTL DEF Spec

(***************************************************************************)
(* mysql_stmt_fetch never writes to a buffer that was freed or that the     *)
(* column accessors do not read, whatever the number and the lengths of the *)
(* columns and wherever fetch_statement_row failed before.                  *)
(***************************************************************************)
THEOREM FetchesAreOwned == Spec => []FetchTargetsOwned
  <1>1. StatementInv => FetchTargetsOwned
    BY StatementAssumption, Zenon DEF StatementInv, Flow, Targets, FetchTargetsOwned
  <1> QED
    BY <1>1, StatementInvariant, PTL

(***************************************************************************)
(* A row mylite_step reports with MYLITE_ROW is whole: no column is cut off *)
(* at the size of its buffer and none is left over from an earlier row.     *)
(***************************************************************************)
THEOREM RowsAreComplete == Spec => []RowIsComplete
  <1>1. StatementInv => RowIsComplete
    BY Zenon DEF StatementInv, Rows, Whole, RowIsComplete
  <1> QED
    BY <1>1, StatementInvariant, PTL

(***************************************************************************)
(* MYLITE_DONE, on an execution on which no call failed, means that every   *)
(* row was reported, however many there were.                               *)
(***************************************************************************)
THEOREM DoneIsComplete == Spec => []DoneMeansDelivered
  <1>1. StatementInv => DoneMeansDelivered
    BY Zenon DEF StatementInv, Progress, DoneMeansDelivered
  <1> QED
    BY <1>1, StatementInvariant, PTL

(***************************************************************************)
(* Every variable keeps its type, the buffers of the columns included.      *)
(***************************************************************************)
THEOREM StatementTypes == Spec => []TypeOK
  <1>1. StatementInv => TypeOK
    BY Zenon DEF StatementInv
  <1> QED
    BY <1>1, StatementInvariant, PTL

(***************************************************************************)
(* Between the execution of a statement and its reset the bindings are the  *)
(* ones it was executed with.                                               *)
(***************************************************************************)
THEOREM BindingsAreFrozen == Spec => []BindingsFrozen
  <1>1. StatementInv => BindingsFrozen
    BY Zenon DEF StatementInv, Progress, BindingsFrozen
  <1> QED
    BY <1>1, StatementInvariant, PTL

(***************************************************************************)
(* After every call, errcode agrees with the code the call returned.        *)
(***************************************************************************)
THEOREM DiagnosticsAreRight == Spec => []DiagnosticsAgree
  <1>1. StatementInv => DiagnosticsAgree
    BY Zenon DEF StatementInv, Progress
  <1> QED
    BY <1>1, StatementInvariant, PTL
=============================================================================
