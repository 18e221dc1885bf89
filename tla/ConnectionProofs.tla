-------------------------- MODULE ConnectionProofs --------------------------
(***************************************************************************)
(* The theorems about Connection.  Their invariant joins ConnOK, the state  *)
(* of a connection between two calls, with what the mylite_exec calls that  *)
(* are in their callback still have to read and with what the last call     *)
(* returned.  A CALL in its callback has the rest of its reply unread, so   *)
(* the theorems assume that this callback does not use the handle, as the   *)
(* library does: ~ReentrantCall.                                            *)
(***************************************************************************)
EXTENDS Connection, ConnectionCallsProofs

(* A mylite_exec that is in its callback has read a result set; all but a   *)
(* CALL have also seen the end of their reply, and it was a success.        *)
Frames ==
  {f \in [rows : Nat \ {0}, has_result : {TRUE}, affected : {NoCount}, insert_id : Count0,
          ran : BOOLEAN, call : BOOLEAN] : f.call \/ f.ran}

InCall == stack # <<>> /\ Top.call

(* More results follow exactly while a CALL is in its callback, and then     *)
(* they are the rest of its reply.                                           *)
StackInv ==
  /\ stack \in Seq(Frames) /\ Len(stack) <= MaxDepth
  /\ \A i \in 1..Len(stack) - 1 : ~stack[i].call
  /\ conn.lib.more <=> InCall
  /\ InCall => /\ conn.lib.owner = None /\ conn.lib.stored = 0
               /\ CallTail(conn.lib.first, Top.ran)

LastInv ==
  /\ last.call = "step" => /\ last.stmt \in Stmts
                           /\ last.rc = "DONE" => conn.lib.owner # last.stmt
                           /\ last.rc = "ERROR" /\ last.ran => conn.my[last.stmt].broken
  /\ ExecReportsOutcome /\ CountsAreTheStatements

ConnectionInv == ConnOK(conn) /\ StackInv /\ LastInv
-----------------------------------------------------------------------------
(* A program that may make a call finds the connection in order. *)
LEMMA MayCallServes ==
  ASSUME ConnOK(conn), StackInv, ~ReentrantCall, MayCall
  PROVE  Serves(conn) /\ ~InCall
BY Zenon DEF StackInv, MayCall, InCall, Serves

(* The innermost mylite_exec that is in its callback. *)
LEMMA TopIs ==
  ASSUME StackInv, stack # <<>>
  PROVE  /\ Len(stack) \in Nat \ {0} /\ Top \in Frames /\ Top.has_result
         /\ Top.insert_id \in Count0 /\ Top.ran \in BOOLEAN /\ Top.call \in BOOLEAN
         /\ Top.call \/ Top.ran
<1>1. Len(stack) \in Nat \ {0} /\ Top \in Frames
  BY SMT DEF StackInv, Top
<1> QED BY <1>1, Zenon DEF Frames

(* A call that returns leaves the calls around it as they are. *)
LEMMA StackStays ==
  ASSUME StackInv, ~InCall, UNCHANGED stack, Serves(conn')
  PROVE  StackInv'
<1>1. InCall' <=> InCall
  BY Zenon DEF InCall, Top
<1> QED BY <1>1, Zenon DEF StackInv, Serves

(* A sequence without its last element. *)
LEMMA FrontIs ==
  ASSUME NEW S, NEW q \in Seq(S), q # <<>>
  PROVE  /\ Len(q) \in Nat \ {0} /\ SubSeq(q, 1, Len(q) - 1) \in Seq(S)
         /\ Len(SubSeq(q, 1, Len(q) - 1)) = Len(q) - 1
         /\ \A i \in 1..Len(SubSeq(q, 1, Len(q) - 1)) : SubSeq(q, 1, Len(q) - 1)[i] = q[i]
<1>1. Len(q) \in Nat \ {0}
  BY SMT
<1>2. \A i \in 1..Len(q) : q[i] \in S
  BY SMT
<1>3. Len(q) - 1 \in Nat /\ \A i \in 1..Len(q) - 1 : i \in 1..Len(q) /\ q[i] \in S
  BY <1>1, <1>2, SMT
<1> DEFINE n == Len(q) - 1
           e(i) == q[i]
<1>4. SubSeq(q, 1, Len(q) - 1) = [i \in 1..n |-> e(i)]
  BY <1>1, <1>3, SMT
<1> HIDE DEF n, e
<1>5. n \in Nat /\ \A i \in 1..n : e(i) \in S
  BY <1>3, Zenon DEF n, e
<1>6. [i \in 1..n |-> e(i)] \in Seq(S) /\ Len([i \in 1..n |-> e(i)]) = n
  BY <1>5, SMT
<1>7. /\ SubSeq(q, 1, Len(q) - 1) \in Seq(S) /\ Len(SubSeq(q, 1, Len(q) - 1)) = n
      /\ \A i \in 1..n : SubSeq(q, 1, Len(q) - 1)[i] = e(i)
  BY <1>4, <1>6, Zenon
<1> QED BY <1>1, <1>7, Zenon DEF n, e

(* A mylite_exec that returns leaves the calls around it as they are. *)
LEMMA StackPops ==
  ASSUME StackInv, stack # <<>>, stack' = Callers, Serves(conn')
  PROVE  StackInv'
<1>1. /\ Len(stack) \in Nat \ {0} /\ stack' \in Seq(Frames) /\ Len(stack') = Len(stack) - 1
      /\ \A i \in 1..Len(stack') : stack'[i] = stack[i]
  BY FrontIs, Zenon DEF StackInv, Callers
<1>2. MaxDepth \in Nat /\ Len(stack) <= MaxDepth
  BY ConnectionAssumption, Zenon DEF StackInv
<1>3. Len(stack') <= MaxDepth
  BY <1>1, <1>2, SMT
<1>4. \A i \in 1..Len(stack') : ~stack'[i].call
  BY <1>1, Zenon DEF StackInv
<1>5. \A i \in 1..Len(stack') - 1 : i \in 1..Len(stack')
  BY <1>1, SMT
<1>6. stack' # <<>> => Len(stack') \in 1..Len(stack')
  BY <1>1, SMT
<1>7. ~InCall'
  BY <1>4, <1>6, Zenon DEF InCall, Top
<1> QED BY <1>1, <1>3, <1>4, <1>5, <1>7, Zenon DEF StackInv, Serves

(* What a call that returns leaves for the properties. *)
LEMMA Returned ==
  ASSUME NEW call, NEW s, NEW r, NEW reply, Return(call, s, r, reply)
  PROVE  /\ conn' = r.conn /\ last'.call = call /\ last'.stmt = s /\ last'.rc = r.rc
         /\ last'.ran = r.ran /\ last'.count = CountIn(reply)
BY Zenon DEF Return

(* A call that asks the server nothing has no count. *)
LEMMA NoReplyNoCount == CountIn(<<>>) = NoCount
BY Zenon DEF CountIn

(* A call that returns neither rows nor counts. *)
LEMMA PlainReturn ==
  ASSUME NEW call, NEW s, NEW r, Return(call, s, r, <<>>), call \notin {"step", "exec"}
  PROVE  LastInv'
<1>1. last'.call = call /\ last'.count = NoCount
  BY Returned, NoReplyNoCount, Zenon
<1> QED BY <1>1, Zenon DEF LastInv, ExecReportsOutcome, CountsAreTheStatements
-----------------------------------------------------------------------------
(* mylite_prepare preserves the invariant. *)
LEMMA PrepareKeeps ==
  ASSUME ConnectionInv, ~ReentrantCall, NEW s \in Stmts, Prepare(s)
  PROVE  ConnectionInv'
<1>1. Serves(conn) /\ ~InCall /\ UNCHANGED stack /\ ~conn.my[s].live
  BY MayCallServes, Zenon DEF ConnectionInv, Prepare
<1>2. PICK reply \in {<<>>, <<Dataset("rows", 0, 0, FALSE)>>} \cup ErrorReply :
        Return("prepare", s, MylitePrepare(conn, s, reply), <<>>)
  BY Zenon DEF Prepare
<1>3. Serves(conn')
  <2>1. conn' = MylitePrepare(conn, s, reply).conn
    BY <1>2, Returned, Zenon
  <2> QED BY <1>1, <2>1, PrepareServes, Zenon
<1>4. LastInv'
  BY <1>2, PlainReturn, Zenon
<1> QED BY <1>1, <1>3, <1>4, StackStays, Zenon DEF ConnectionInv, Serves

(* A statement the policy refuses preserves it. *)
LEMMA RefuseKeeps ==
  ASSUME ConnectionInv, ~ReentrantCall, RefuseSql
  PROVE  ConnectionInv'
<1> DEFINE r == Result(Failure(conn, conn.lib), "ERROR", FALSE)
<1>1. Serves(conn) /\ ~InCall /\ UNCHANGED stack
  BY MayCallServes, Zenon DEF ConnectionInv, RefuseSql
<1>2. Return("refuse", None, r, <<>>)
  BY Zenon DEF RefuseSql
<1>3. r.conn = Failure(conn, conn.lib)
  BY Zenon DEF Result
<1> HIDE DEF r
<1>4. Serves(conn')
  <2>1. conn' = Failure(conn, conn.lib)
    BY <1>2, <1>3, Returned, Zenon
  <2> QED BY <1>1, <2>1, RefuseServes, Zenon
<1>5. LastInv'
  BY <1>2, PlainReturn, Zenon
<1> QED BY <1>1, <1>4, <1>5, StackStays, Zenon DEF ConnectionInv, Serves

(* What a step for s leaves, if it returns the counts of its reply. *)
LEMMA StepReturns ==
  ASSUME NEW s \in Stmts, NEW r, NEW reply, Return("step", s, r, reply), Steps(conn, s, r),
         CountIn(reply) # NoCount /\ r.rc = "DONE" =>
           r.conn.changes = CountIn(reply) /\ r.conn.last_insert_id = CountIn(reply)
  PROVE  Serves(conn') /\ LastInv'
<1>1. /\ conn' = r.conn /\ last'.call = "step" /\ last'.stmt = s /\ last'.rc = r.rc
      /\ last'.ran = r.ran /\ last'.count = CountIn(reply)
  BY Returned, Zenon
<1>2. /\ Serves(conn') /\ r.rc # "OK" /\ (r.rc = "DONE" => conn'.lib.owner # s)
      /\ (r.rc = "ERROR" /\ r.ran => conn'.my[s].broken)
  BY <1>1, Zenon DEF Steps
<1> QED BY <1>1, <1>2, Zenon DEF LastInv, ExecReportsOutcome, CountsAreTheStatements

(* What a mylite_step that executes returns and leaves behind. *)
LEMMA ExecutesIs ==
  ASSUME ConnectionInv, ~ReentrantCall, NEW s \in Stmts, StepExecutes(s)
  PROVE  \E reply, r : /\ Return("step", s, r, reply) /\ Steps(conn, s, r)
                       /\ Serves(conn') /\ LastInv'
<1>1. Serves(conn) /\ conn.my[s].live /\ ~conn.my[s].executed
  BY MayCallServes, Zenon DEF ConnectionInv, StepExecutes
<1>2. PICK reply \in ErrorReply \cup (IF conn.my[s].select THEN RowsReply \cup BadReply ELSE OkReply) :
        Return("step", s, MyliteStep(conn, s, reply), reply)
  BY Zenon DEF StepExecutes
<1> DEFINE r == MyliteStep(conn, s, reply)
<1>3. PICK d : reply = <<d>> /\ Answers(d, conn.my[s].select)
  BY StepReplies, Zenon
<1>4. /\ Steps(conn, s, r)
      /\ r.rc = "DONE" /\ d.kind = "ok" =>
           r.conn.changes = d.n /\ r.conn.last_insert_id = d.n
  BY <1>1, <1>3, StepRuns, Zenon
<1>5. CountIn(reply) # NoCount => d.kind = "ok" /\ CountIn(reply) = d.n
  BY <1>3, Single, Zenon DEF CountIn
<1> HIDE DEF r
<1>6. Return("step", s, r, reply)
  BY <1>2, Zenon DEF r
<1>7. Serves(conn') /\ LastInv'
  BY <1>4, <1>5, <1>6, StepReturns, Zenon
<1> QED BY <1>4, <1>6, <1>7, Zenon

(* What a mylite_step that only fetches returns and leaves behind. *)
LEMMA FetchesIs ==
  ASSUME ConnectionInv, ~ReentrantCall, NEW s \in Stmts, StepFetches(s)
  PROVE  \E reply, r : /\ Return("step", s, r, reply) /\ Steps(conn, s, r)
                       /\ Serves(conn') /\ LastInv'
<1> DEFINE r == MyliteStep(conn, s, <<>>)
<1>1. Serves(conn) /\ conn.my[s].live /\ conn.my[s].executed
  BY MayCallServes, Zenon DEF ConnectionInv, StepFetches
<1>2. Return("step", s, r, <<>>)
  BY Zenon DEF StepFetches
<1>3. Steps(conn, s, r)
  BY <1>1, StepReads, Zenon
<1> HIDE DEF r
<1>4. Serves(conn') /\ LastInv'
  BY <1>2, <1>3, StepReturns, NoReplyNoCount, Zenon
<1> QED BY <1>2, <1>3, <1>4, Zenon

(* mylite_step preserves the invariant. *)
LEMMA StepKeeps ==
  ASSUME ConnectionInv, ~ReentrantCall, NEW s \in Stmts, StepExecutes(s) \/ StepFetches(s)
  PROVE  ConnectionInv'
<1>1. ~InCall /\ UNCHANGED stack
  BY MayCallServes, Zenon DEF ConnectionInv, StepExecutes, StepFetches
<1>2. Serves(conn') /\ LastInv'
  BY ExecutesIs, FetchesIs, Zenon
<1> QED BY <1>1, <1>2, StackStays, Zenon DEF ConnectionInv, Serves

(* mylite_reset preserves the invariant. *)
LEMMA ResetKeeps ==
  ASSUME ConnectionInv, ~ReentrantCall, NEW s \in Stmts, Reset(s)
  PROVE  ConnectionInv'
<1>1. Serves(conn) /\ ~InCall /\ UNCHANGED stack /\ Return("reset", s, MyliteReset(conn, s), <<>>)
  BY MayCallServes, Zenon DEF ConnectionInv, Reset
<1>2. Serves(conn')
  <2>1. conn' = MyliteReset(conn, s).conn
    BY <1>1, Returned, Zenon
  <2> QED BY <1>1, <2>1, ResetServes, Zenon
<1>3. LastInv'
  BY <1>1, PlainReturn, Zenon
<1> QED BY <1>1, <1>2, <1>3, StackStays, Zenon DEF ConnectionInv, Serves

(* mylite_finalize preserves the invariant. *)
LEMMA FinalizeKeeps ==
  ASSUME ConnectionInv, ~ReentrantCall, NEW s \in Stmts, Finalize(s)
  PROVE  ConnectionInv'
<1>1. /\ Serves(conn) /\ ~InCall /\ UNCHANGED stack
      /\ Return("finalize", s, MyliteFinalize(conn, s), <<>>)
  BY MayCallServes, Zenon DEF ConnectionInv, Finalize
<1>2. Serves(conn')
  <2>1. conn' = MyliteFinalize(conn, s).conn
    BY <1>1, Returned, Zenon
  <2> QED BY <1>1, <2>1, FinalizeServes, Zenon
<1>3. LastInv'
  BY <1>1, PlainReturn, Zenon
<1> QED BY <1>1, <1>2, <1>3, StackStays, Zenon DEF ConnectionInv, Serves

(* mylite_warning preserves the invariant. *)
LEMMA WarningKeeps ==
  ASSUME ConnectionInv, ~ReentrantCall, Warning
  PROVE  ConnectionInv'
<1>1. Serves(conn) /\ ~InCall /\ UNCHANGED stack
  BY MayCallServes, Zenon DEF ConnectionInv, Warning
<1>2. PICK i \in Warnings \cup {0} : Return("warning", None, MyliteWarning(conn, i), <<>>)
  BY Zenon DEF Warning
<1>3. Serves(conn')
  <2>1. conn' = MyliteWarning(conn, i).conn
    BY <1>2, Returned, Zenon
  <2> QED BY <1>1, <2>1, WarningServes, Zenon
<1>4. LastInv'
  BY <1>2, PlainReturn, Zenon
<1> QED BY <1>1, <1>3, <1>4, StackStays, Zenon DEF ConnectionInv, Serves
-----------------------------------------------------------------------------
(* The return of a mylite_exec: its code agrees with the outcome. *)
LEMMA ExecReturns ==
  ASSUME NEW r, NEW reply, Return("exec", None, r, reply), Serves(r.conn),
         r.rc = "OK" => r.ran, r.rc = "ERROR" /\ r.ran => ~Ready(r.conn.lib),
         r.rc \in {"OK", "ERROR"},
         CountIn(reply) # NoCount /\ r.rc = "OK" =>
           r.conn.changes = CountIn(reply) /\ r.conn.last_insert_id = CountIn(reply)
  PROVE  Serves(conn') /\ LastInv'
<1>1. /\ conn' = r.conn /\ last'.call = "exec" /\ last'.rc = r.rc
      /\ last'.ran = r.ran /\ last'.count = CountIn(reply)
  BY Returned, Zenon
<1>2. Serves(conn')
  BY <1>1, Zenon
<1>3. ExecReportsOutcome'
  BY <1>1, Zenon DEF ExecReportsOutcome
<1>4. CountsAreTheStatements'
  BY <1>1, Zenon DEF CountsAreTheStatements
<1> QED BY <1>1, <1>2, <1>3, <1>4, Zenon DEF LastInv

(* A mylite_exec without a callback preserves the invariant. *)
LEMMA ExecKeeps ==
  ASSUME ConnectionInv, ~ReentrantCall, Exec
  PROVE  ConnectionInv'
<1>1. Serves(conn) /\ ~InCall /\ UNCHANGED stack
  BY MayCallServes, Zenon DEF ConnectionInv, Exec
<1>2. PICK reply \in OkReply \cup RowsReply \cup BadReply \cup ErrorReply \cup CallReply :
        Return("exec", None, Observe(conn, None, ExecWithoutRows(conn, reply)), reply)
  BY Zenon DEF Exec
<1> DEFINE r == ExecWithoutRows(conn, reply)
           o == Observe(conn, None, r)
<1>3. Execs(conn, reply[1], r)
  BY <1>1, ExecServes, Zenon
<1> HIDE DEF r
<1>4. Serves(o.conn) /\ Observed(conn, None, r, o)
  BY <1>1, <1>3, CallServes, Zenon DEF Execs
<1>5. Return("exec", None, o, reply)
  BY <1>2, Zenon DEF r
<1> HIDE DEF o
<1>6. /\ o.rc = r.rc /\ o.ran = r.ran /\ o.conn.changes = r.conn.changes
      /\ o.conn.last_insert_id = r.conn.last_insert_id
  BY <1>4, Zenon DEF Observed
<1>7. CountIn(reply) # NoCount => reply[1].kind = "ok" /\ CountIn(reply) = reply[1].n
  BY Zenon DEF CountIn
<1>8. /\ o.rc \in {"OK", "ERROR"} /\ (o.rc = "OK" => o.ran)
      /\ (o.rc = "ERROR" /\ o.ran => ~Ready(o.conn.lib))
      /\ (CountIn(reply) # NoCount /\ o.rc = "OK" =>
            o.conn.changes = CountIn(reply) /\ o.conn.last_insert_id = CountIn(reply))
  BY <1>3, <1>6, <1>7, Zenon DEF Execs
<1>9. Serves(conn') /\ LastInv'
  BY <1>4, <1>5, <1>8, ExecReturns, Zenon
<1> QED BY <1>1, <1>9, StackStays, Zenon DEF ConnectionInv, Serves

(* What a mylite_exec remembers while it is in its callback. *)
LEMMA FrameIs ==
  ASSUME NEW lib, lib.insert_id \in Count0, lib.affected = NoCount,
         NEW reply, Shown(reply), NEW n \in Nat \ {0}, NEW f, f = Frame(lib, reply, n)
  PROVE  f \in Frames /\ (f.call <=> Head(reply).more) /\ (f.ran <=> Succeeds(reply))
<1>1. HasColumns(reply[1]) = TRUE
  BY Zenon DEF Shown, HasColumns
<1>2. Succeeds(reply) \in BOOLEAN /\ (Len(reply) > 1) \in BOOLEAN
  BY SMT DEF Succeeds
<1>3. PICK ran \in BOOLEAN, call \in BOOLEAN : ran = Succeeds(reply) /\ call = (Len(reply) > 1)
  BY <1>2, Zenon
<1>4. f = [rows |-> n, has_result |-> TRUE, affected |-> NoCount,
           insert_id |-> lib.insert_id, ran |-> ran, call |-> call]
  BY <1>1, <1>3, Zenon DEF Frame
<1>5. /\ f \in [rows : Nat \ {0}, has_result : {TRUE}, affected : {NoCount},
                insert_id : Count0, ran : BOOLEAN, call : BOOLEAN]
      /\ f.call = call /\ f.ran = ran
  <2>1. TRUE \in {TRUE} /\ NoCount \in {NoCount}
    OBVIOUS
  <2> QED BY <1>4, <2>1, SMT
<1>6. (call <=> Head(reply).more) /\ (ran <=> Succeeds(reply)) /\ (call \/ ran)
  BY <1>3, Zenon DEF Shown
<1> QED BY <1>5, <1>6, Zenon DEF Frames

(* A mylite_exec that enters its callback. *)
LEMMA StackPushes ==
  ASSUME StackInv, ~InCall, NEW f \in Frames, stack' = Append(stack, f), Len(stack) < MaxDepth,
         conn.lib.more' <=> f.call,
         f.call => /\ conn.lib.owner' = None /\ conn.lib.stored' = 0
                   /\ CallTail(conn.lib.first', f.ran)
  PROVE  StackInv'
<1>1. Len(stack) \in Nat /\ stack \in Seq(Frames)
  BY SMT DEF StackInv
<1>2. /\ stack' \in Seq(Frames) /\ Len(stack') = Len(stack) + 1 /\ stack' # <<>>
      /\ stack'[Len(stack) + 1] = f /\ \A i \in 1..Len(stack) : stack'[i] = stack[i]
  BY <1>1, SMT
<1>3. Top' = f
  BY <1>2, Zenon DEF Top
<1>4. Len(stack') <= MaxDepth
  BY <1>1, <1>2, ConnectionAssumption, SMT
<1>5. \A i \in 1..Len(stack) : ~stack[i].call
  <2>1. \A i \in 1..Len(stack) : i \in 1..Len(stack) - 1 \/ (i = Len(stack) /\ stack # <<>>)
    BY <1>1, SMT
  <2> QED BY <2>1, Zenon DEF StackInv, InCall, Top
<1>6. Len(stack') - 1 = Len(stack)
  BY <1>1, <1>2, SMT
<1>7. InCall' <=> f.call
  BY <1>2, <1>3, Zenon DEF InCall
<1>8. \A i \in 1..Len(stack') - 1 : ~stack'[i].call
  BY <1>2, <1>5, <1>6, Zenon
<1> QED BY <1>2, <1>3, <1>4, <1>7, <1>8, Zenon DEF StackInv

(* mylite_exec up to its first callback preserves the invariant. *)
LEMMA ExecCallsBackKeeps ==
  ASSUME ConnectionInv, ~ReentrantCall, ExecCallsBack
  PROVE  ConnectionInv'
<1>1. /\ Serves(conn) /\ ~InCall /\ Ready(conn.lib) /\ Len(stack) < MaxDepth
      /\ UNCHANGED last /\ ConnOK(conn) /\ StackInv /\ LastInv
  BY MayCallServes, Zenon DEF ConnectionInv, ExecCallsBack
<1>2. PICK reply \in RowsReply \cup CallReply :
        LET query == Query(conn.lib, reply)
            stored == [SetOk(conn) EXCEPT !.lib = StoreResult(query.lib).lib]
        IN /\ reply[1].n > 0
           /\ conn' = Observe(conn, None, Result(stored, "OK", TRUE)).conn
           /\ stack' = Append(stack, Frame(query.lib, reply, reply[1].n))
  BY Zenon DEF ExecCallsBack
<1> DEFINE q == Query(conn.lib, reply)
           f == Frame(q.lib, reply, reply[1].n)
<1>3. Shown(reply)
  <2>1. CASE reply \in CallReply
    BY <2>1, CallReplies, Zenon
  <2>2. CASE reply \in RowsReply
    <3>1. PICK d : reply = <<d>> /\ d.kind = "rows" /\ Answers(d, HasColumns(d))
      BY <2>2, SingleReplies, Zenon DEF Answer
    <3> QED BY <3>1, RowsReplies, Zenon
  <2> QED BY <2>1, <2>2, Zenon
<1>4. CallsBack(conn, reply, q, conn')
  BY <1>1, <1>2, <1>3, CallsBackIs, Zenon
<1>5. stack' = Append(stack, f)
  BY <1>2, Zenon
<1> HIDE DEF q
<1>6. reply[1].n \in Nat \ {0}
  <2>1. reply[1] \in Datasets
    BY <1>3, SMT DEF Shown
  <2>2. reply[1].n \in Nat
    BY <2>1, Zenon DEF Datasets
  <2> QED BY <1>2, <2>2, SMT
<1>7. f \in Frames /\ (f.call <=> Head(reply).more) /\ (f.ran <=> Succeeds(reply))
  BY <1>3, <1>4, <1>6, FrameIs, Zenon DEF CallsBack
<1> HIDE DEF f
<1>8. /\ conn.lib.more' <=> f.call
      /\ f.call => /\ conn.lib.owner' = None /\ conn.lib.stored' = 0
                   /\ CallTail(conn.lib.first', f.ran)
  <2>1. f.call => Warns(reply) = 0 /\ CallTail(Tail(reply), f.ran)
    BY <1>3, <1>7, Zenon DEF Shown, CallTail
  <2> QED BY <1>4, <1>7, <2>1, Zenon DEF CallsBack
<1>9. StackInv'
  BY <1>1, <1>5, <1>7, <1>8, StackPushes, Zenon
<1>10. LastInv'
  <2>1. /\ conn'.lib.owner = None /\ conn'.changes = conn.changes
        /\ conn'.last_insert_id = conn.last_insert_id /\ last' = last
        /\ \A t \in Stmts : conn'.my[t].broken = conn.my[t].broken
    BY <1>1, <1>4, Zenon DEF CallsBack
  <2>2. last.call = "exec" => (last.rc = "OK" => last.ran) /\ ~(last.rc = "ERROR" /\ last.ran)
    BY <1>1, Zenon DEF LastInv, ExecReportsOutcome
  <2>3. ExecReportsOutcome'
    BY <2>1, <2>2, Zenon DEF ExecReportsOutcome
  <2>4. CountsAreTheStatements'
    BY <1>1, <2>1, Zenon DEF LastInv, CountsAreTheStatements
  <2> QED BY <1>1, <2>1, <2>3, <2>4, LibraryAssumption, Zenon DEF LastInv
<1> QED BY <1>4, <1>9, <1>10, Zenon DEF ConnectionInv, CallsBack
-----------------------------------------------------------------------------
(* In a callback, what is left of the reply can be read. *)
LEMMA TopDrains ==
  ASSUME ConnOK(conn), StackInv, stack # <<>>
  PROVE  Drainable(conn.lib, Top.ran)
<1>1. LibInv(conn.lib)
  BY Zenon DEF ConnOK
<1>2. Top.call \/ Top.ran
  BY TopIs, Zenon
<1> QED BY <1>1, <1>2, Zenon DEF Drainable, StackInv, InCall

(* The callback for another row preserves the invariant. *)
LEMMA NextRowKeeps ==
  ASSUME ConnectionInv, CallbackNextRow
  PROVE  ConnectionInv'
<1> DEFINE L == Len(stack)
           g == [Top EXCEPT !.rows = Top.rows - 1]
<1>1. /\ stack # <<>> /\ Top.rows > 1 /\ stack' = [stack EXCEPT ![L] = g]
      /\ UNCHANGED <<conn, last>> /\ ConnOK(conn) /\ StackInv /\ LastInv
  BY Zenon DEF CallbackNextRow, ConnectionInv, Top
<1>2. L \in Nat \ {0} /\ Top \in Frames /\ stack \in Seq(Frames) /\ DOMAIN stack = 1..L
  BY <1>1, TopIs, SMT DEF StackInv
<1>3. Top.rows - 1 \in Nat \ {0}
  <2>1. Top.rows \in Nat
    BY <1>2, Zenon DEF Frames
  <2> QED BY <1>1, <2>1, SMT
<1>4. g \in Frames /\ g.call = Top.call /\ g.ran = Top.ran
  BY <1>2, <1>3, Zenon DEF Frames
<1> HIDE DEF g
<1>5. /\ stack' \in Seq(Frames) /\ Len(stack') = L
  BY <1>1, <1>2, <1>4, SMT
<1>6. L \in DOMAIN stack /\ \A i \in 1..L - 1 : i \in DOMAIN stack /\ i # L
  <2>1. L \in Nat \ {0} /\ DOMAIN stack = 1..L
    BY <1>2, Zenon
  <2> HIDE DEF L
  <2> QED BY <2>1, SMT
<1>7. stack'[L] = g /\ \A i \in 1..L - 1 : stack'[i] = stack[i]
  BY <1>1, <1>6, Zenon
<1>8. Top' = g /\ stack' # <<>>
  <2>1. Top' = g
    BY <1>5, <1>7, Zenon DEF Top
  <2>2. stack' # <<>>
    BY <1>2, <1>5, SMT
  <2> QED BY <2>1, <2>2, Zenon
<1>9. StackInv'
  <2>1. (InCall' <=> InCall) /\ Top'.ran = Top.ran
    BY <1>1, <1>4, <1>8, Zenon DEF InCall
  <2>2. \A i \in 1..Len(stack') - 1 : ~stack'[i].call
    BY <1>1, <1>5, <1>7, Zenon DEF StackInv
  <2>3. conn' = conn /\ Len(stack') <= MaxDepth
    BY <1>1, <1>5, Zenon DEF StackInv
  <2> QED BY <1>1, <1>5, <2>1, <2>2, <2>3, Zenon DEF StackInv
<1>10. LastInv'
  BY <1>1, Zenon DEF LastInv, ExecReportsOutcome, CountsAreTheStatements
<1> QED BY <1>1, <1>9, <1>10, Zenon DEF ConnectionInv

(* So does the return from the last callback, with the drain after it. *)
LEMMA LastRowKeeps ==
  ASSUME ConnectionInv, CallbackLastRow
  PROVE  ConnectionInv'
<1> DEFINE r == FinishExec(conn, Top)
<1>1. /\ stack # <<>> /\ stack' = Callers /\ Return("exec", None, r, <<>>)
      /\ ConnOK(conn) /\ StackInv
  BY Zenon DEF CallbackLastRow, ConnectionInv
<1>2. Drainable(conn.lib, Top.ran) /\ Top.insert_id \in Count0 /\ Top.has_result
  BY <1>1, TopDrains, TopIs, Zenon
<1>3. /\ Serves(r.conn) /\ r.ran = Top.ran /\ (r.rc = "OK" => Top.ran)
      /\ (r.rc = "ERROR" /\ Top.ran => ~Ready(r.conn.lib))
  BY <1>1, <1>2, FinishServes, Zenon
<1> HIDE DEF r
<1>4. /\ conn' = r.conn /\ last'.call = "exec" /\ last'.rc = r.rc
      /\ last'.ran = r.ran /\ last'.count = NoCount
  BY <1>1, Returned, NoReplyNoCount, Zenon
<1>5. LastInv'
  BY <1>3, <1>4, Zenon DEF LastInv, ExecReportsOutcome, CountsAreTheStatements
<1>6. Serves(conn')
  BY <1>3, <1>4, Zenon
<1> QED BY <1>1, <1>5, <1>6, StackPops, Zenon DEF ConnectionInv, Serves

(* So does a callback that aborts, with the drain after it. *)
LEMMA AbortKeeps ==
  ASSUME ConnectionInv, CallbackAborts
  PROVE  ConnectionInv'
<1> DEFINE n == Failure(conn, DrainRemainingQueryResults(conn.lib).lib)
           r == Result(n, "ERROR", Top.ran)
<1>1. /\ stack # <<>> /\ stack' = Callers /\ Return("abort", None, r, <<>>)
      /\ ConnOK(conn) /\ StackInv
  BY Zenon DEF CallbackAborts, ConnectionInv
<1>2. r.conn = n
  BY Zenon DEF Result
<1>3. Serves(n)
  BY <1>1, TopDrains, AbortServes, Zenon
<1> HIDE DEF n, r
<1>4. Serves(conn')
  <2>1. conn' = n
    BY <1>1, <1>2, Returned, Zenon
  <2> QED BY <1>3, <2>1, Zenon
<1>5. LastInv'
  BY <1>1, PlainReturn, Zenon
<1> QED BY <1>1, <1>4, <1>5, StackPops, Zenon DEF ConnectionInv, Serves

(* The invariant holds of a connection that was just opened. *)
LEMMA InitHolds == Init => ConnectionInv
<1> SUFFICES ASSUME Init PROVE ConnectionInv
  OBVIOUS
<1>1. /\ conn = OpenConnection /\ stack = <<>> /\ last.call = "open" /\ last.count = NoCount
  BY Zenon DEF Init
<1>2. Serves(conn)
  BY <1>1, OpenServes, Zenon
<1>3. StackInv
  <2>1. /\ stack \in Seq(Frames) /\ Len(stack) <= MaxDepth
        /\ \A i \in 1..Len(stack) - 1 : ~stack[i].call
    BY <1>1, ConnectionAssumption, SMT
  <2> QED BY <1>1, <1>2, <2>1, Zenon DEF StackInv, InCall, Serves
<1>4. LastInv
  BY <1>1, Zenon DEF LastInv, ExecReportsOutcome, CountsAreTheStatements
<1> QED BY <1>2, <1>3, <1>4, Zenon DEF ConnectionInv, Serves
-----------------------------------------------------------------------------
(* Every step of the program preserves the invariant. *)
LEMMA NextKeeps ==
  ASSUME ConnectionInv, ~ReentrantCall, [Next]_vars
  PROVE  ConnectionInv'
<1>1. ASSUME NEW s \in Stmts,
             Prepare(s) \/ StepExecutes(s) \/ StepFetches(s) \/ Reset(s) \/ Finalize(s)
      PROVE  ConnectionInv'
  BY <1>1, PrepareKeeps, StepKeeps, ResetKeeps, FinalizeKeeps, Zenon
<1>2. ASSUME RefuseSql \/ Warning \/ Exec \/ ExecCallsBack PROVE ConnectionInv'
  BY <1>2, RefuseKeeps, WarningKeeps, ExecKeeps, ExecCallsBackKeeps, Zenon
<1>3. ASSUME CallbackNextRow \/ CallbackLastRow \/ CallbackAborts PROVE ConnectionInv'
  BY <1>3, NextRowKeeps, LastRowKeeps, AbortKeeps, Zenon
<1>4. ASSUME UNCHANGED vars PROVE ConnectionInv'
  <2>1. conn' = conn /\ stack' = stack /\ last' = last
    BY <1>4, Zenon DEF vars
  <2>2. StackInv'
    BY <2>1, Zenon DEF ConnectionInv, StackInv, InCall, Top
  <2>3. LastInv'
    BY <2>1, Zenon DEF ConnectionInv, LastInv, ExecReportsOutcome, CountsAreTheStatements
  <2> QED BY <2>1, <2>2, <2>3, Zenon DEF ConnectionInv
<1> QED BY <1>1, <1>2, <1>3, <1>4, Zenon DEF Next

(* The invariant implies every property of the state. *)
LEMMA InvTypes == ConnectionInv => TypeOK
<1> SUFFICES ASSUME ConnectionInv PROVE TypeOK
  OBVIOUS
<1>1. ConnOK(conn) /\ LibInv(conn.lib) /\ StackInv
  BY Zenon DEF ConnectionInv, ConnOK
<1>2. conn.lib.status \in {"READY", "STATEMENT_GET_RESULT"}
  BY <1>1, Zenon DEF LibInv
<1> QED BY <1>1, <1>2, Zenon DEF ConnOK, LibInv, StackInv, TypeOK, Count0

(* What the invariant says of rows that were not delivered. *)
LEMMA InvRows == ConnectionInv => RowsLostOnlyToOthers
BY Zenon DEF ConnectionInv, ConnOK, StmtInv, LastInv, RowsLostOnlyToOthers

(* What it says of the owner of the unbuffered result. *)
LEMMA InvOwner == ConnectionInv => OwnerIsReading
<1> SUFFICES ASSUME ConnectionInv, conn.lib.owner # None
             PROVE  LET o == conn.lib.owner
                    IN conn.my[o].live /\ conn.my[o].has_result /\ Executed(conn.lib, o)
  BY Zenon DEF OwnerIsReading
<1>1. ConnOK(conn) /\ LibInv(conn.lib)
  BY Zenon DEF ConnectionInv, ConnOK
<1>2. conn.lib.owner \in Stmts
  BY <1>1, Zenon DEF LibInv
<1>3. StmtInv(conn, conn.lib.owner) /\ HandleInv(conn.lib, conn.lib.owner)
  BY <1>1, <1>2, Zenon DEF ConnOK, LibInv
<1> QED BY <1>3, Zenon DEF StmtInv, HandleInv

(* What it says of the rows a reset flushes. *)
LEMMA InvFlushed == ConnectionInv => FlushedRowsAreOwn
<1> SUFFICES ASSUME ConnectionInv, NEW s \in Stmts
             PROVE  /\ Executed(conn.lib, s) /\ conn.lib.stmt[s].columns /\ ~Ready(conn.lib) =>
                         conn.lib.owner = s
                    /\ ~conn.lib.stmt[s].cancelled
  BY Zenon DEF FlushedRowsAreOwn
<1>1. HandleInv(conn.lib, s)
  BY Zenon DEF ConnectionInv, ConnOK, LibInv
<1> QED BY <1>1, Zenon DEF HandleInv

(* In a consistent state, resetting the reading statement makes the handle ready. *)
LEMMA InvReady == ConnectionInv => CanBeMadeReady
<1> SUFFICES ASSUME ConnectionInv, ~Ready(conn.lib)
             PROVE  \E s \in Live(conn) : Ready(MyliteReset(conn, s).conn.lib)
                                          /\ Ready(MyliteFinalize(conn, s).conn.lib)
  BY Zenon DEF CanBeMadeReady
<1> DEFINE o == conn.lib.owner
<1>1. ConnOK(conn) /\ LibInv(conn.lib) /\ StackInv
  BY Zenon DEF ConnectionInv, ConnOK
<1>2. o \in Stmts /\ o # None
  BY <1>1, LibraryAssumption, Zenon DEF LibInv, Ready
<1>3. Serves(conn)
  BY <1>1, <1>2, Zenon DEF Serves, StackInv
<1>4. conn.my[o].live
  BY <1>1, <1>2, Zenon DEF ConnOK, StmtInv
<1>5. o \in Live(conn)
  BY <1>2, <1>4, Zenon DEF Live
<1>6. Ready(MyliteReset(conn, o).conn.lib)
  BY <1>2, <1>3, ResetServes, Zenon
<1>7. Ready(MyliteFinalize(conn, o).conn.lib)
  BY <1>2, <1>3, FinalizeServes, Zenon
<1> QED BY <1>5, <1>6, <1>7, Zenon

(* What the invariant says of warnings and of the queue. *)
LEMMA InvLib == ConnectionInv => WarningsAreCounted /\ NoNullPointer
BY Zenon DEF ConnectionInv, ConnOK, LibInv, WarningsAreCounted, NoNullPointer, Running

(* What it says of the call that has just returned. *)
LEMMA InvLast == ConnectionInv => ExecReportsOutcome /\ CountsAreTheStatements
BY Zenon DEF ConnectionInv, LastInv

(* ErrorMeansNotRun as a property of one step. *)
ErrorStep ==
  last'.call = "step" /\ last'.rc = "ERROR" /\ last'.ran => conn.my[last'.stmt].broken

(* A call other than mylite_step cannot break the action property. *)
LEMMA OtherCall ==
  ASSUME NEW call, NEW s, NEW r, NEW reply, Return(call, s, r, reply), call # "step"
  PROVE  ErrorStep
<1>1. last'.call = call
  BY Returned, Zenon
<1> QED BY <1>1, Zenon DEF ErrorStep

(* No step of the program breaks it. *)
LEMMA NextErrors ==
  ASSUME ConnectionInv, ~ReentrantCall, Next
  PROVE  ErrorStep
<1>1. ASSUME NEW s \in Stmts, StepExecutes(s) \/ StepFetches(s) PROVE ErrorStep
  <2>1. PICK reply, r : Return("step", s, r, reply) /\ Steps(conn, s, r)
    BY <1>1, ExecutesIs, FetchesIs, Zenon
  <2>2. last'.stmt = s /\ last'.rc = r.rc /\ last'.ran = r.ran
    BY <2>1, Returned, Zenon
  <2> QED BY <2>1, <2>2, Zenon DEF Steps, ErrorStep
<1>2. ASSUME NEW s \in Stmts, Prepare(s) PROVE ErrorStep
  BY <1>2, OtherCall, Zenon DEF Prepare
<1>3. ASSUME NEW s \in Stmts, Reset(s) PROVE ErrorStep
  BY <1>3, OtherCall, Zenon DEF Reset
<1>4. ASSUME NEW s \in Stmts, Finalize(s) PROVE ErrorStep
  BY <1>4, OtherCall, Zenon DEF Finalize
<1>5. ASSUME RefuseSql PROVE ErrorStep
  BY <1>5, OtherCall, Zenon DEF RefuseSql
<1>6. ASSUME Warning PROVE ErrorStep
  BY <1>6, OtherCall, Zenon DEF Warning
<1>7. ASSUME Exec PROVE ErrorStep
  BY <1>7, OtherCall, Zenon DEF Exec
<1>8. ASSUME CallbackLastRow PROVE ErrorStep
  BY <1>8, OtherCall, Zenon DEF CallbackLastRow
<1>9. ASSUME CallbackAborts PROVE ErrorStep
  BY <1>9, OtherCall, Zenon DEF CallbackAborts
<1>10. ASSUME ExecCallsBack \/ CallbackNextRow PROVE ErrorStep
  <2>1. last' = last
    BY <1>10, Zenon DEF ExecCallsBack, CallbackNextRow
  <2> QED BY <2>1, Zenon DEF ConnectionInv, LastInv, ErrorStep
<1> QED BY <1>1, <1>2, <1>3, <1>4, <1>5, <1>6, <1>7, <1>8, <1>9, <1>10, Zenon DEF Next
-----------------------------------------------------------------------------
(***************************************************************************)
(* The handles are consistent whenever no call is in progress: as long as   *)
(* the callback of a CALL leaves the connection alone, for any number of    *)
(* statements, rows, result sets and nested mylite_exec calls.              *)
(***************************************************************************)
THEOREM ConnectionInvariant ==
  ASSUME ~ReentrantCall
  PROVE  Spec => []ConnectionInv
<1>1. ConnectionInv /\ [Next]_vars => ConnectionInv'
  BY NextKeeps, Zenon
<1> QED BY <1>1, InitHolds, PTL DEF Spec

(***************************************************************************)
(* The statements, the counts and the calls in their callback keep their    *)
(* types, and no execution delivers more rows than the server produced.     *)
(***************************************************************************)
THEOREM ConnectionTypes ==
  ASSUME ~ReentrantCall
  PROVE  Spec => []TypeOK
BY ConnectionInvariant, InvTypes, PTL

(***************************************************************************)
(* mylite_step returns MYLITE_DONE with rows undelivered only after a call  *)
(* for another statement, or for none, has thrown them away.                *)
(***************************************************************************)
THEOREM OnlyOthersLoseRows ==
  ASSUME ~ReentrantCall
  PROVE  Spec => []RowsLostOnlyToOthers
BY ConnectionInvariant, InvRows, PTL

(***************************************************************************)
(* mysql->unbuffered_fetch_owner always points into a prepared statement    *)
(* that is executed and reads rows.                                         *)
(***************************************************************************)
THEOREM OwnersAreReading ==
  ASSUME ~ReentrantCall
  PROVE  Spec => []OwnerIsReading
BY ConnectionInvariant, InvOwner, PTL

(***************************************************************************)
(* What reset_stmt_handle flushes are the rows of its own statement, and no *)
(* statement's fetch is cancelled by another.                               *)
(***************************************************************************)
THEOREM FlushesAreOwn ==
  ASSUME ~ReentrantCall
  PROVE  Spec => []FlushedRowsAreOwn
BY ConnectionInvariant, InvFlushed, PTL

(***************************************************************************)
(* A connection that refuses commands has a statement whose mylite_reset,   *)
(* and whose mylite_finalize, makes it ready.                               *)
(***************************************************************************)
THEOREM ConnectionRecovers ==
  ASSUME ~ReentrantCall
  PROVE  Spec => []CanBeMadeReady
BY ConnectionInvariant, InvReady, PTL

(***************************************************************************)
(* mylite_exec returns MYLITE_OK only for a statement all of whose results  *)
(* were successes, and an error for such a statement only while another     *)
(* has rows to read.                                                        *)
(***************************************************************************)
THEOREM ExecOutcomesReported ==
  ASSUME ~ReentrantCall
  PROVE  Spec => []ExecReportsOutcome
BY ConnectionInvariant, InvLast, PTL

(***************************************************************************)
(* mylite_changes and mylite_last_insert_id are those of the statement that *)
(* has just returned, whatever was drained after it.                        *)
(***************************************************************************)
THEOREM CountsAreRight ==
  ASSUME ~ReentrantCall
  PROVE  Spec => []CountsAreTheStatements
BY ConnectionInvariant, InvLast, PTL

(***************************************************************************)
(* The client library's warning count is the number of warnings the server  *)
(* holds, until mylite_warning asks for them.                               *)
(***************************************************************************)
THEOREM WarningCountsAgree ==
  ASSUME ~ReentrantCall
  PROVE  Spec => []WarningsAreCounted
BY ConnectionInvariant, InvLib, PTL

(***************************************************************************)
(* No drain of mylite_exec follows a null pointer for the next result.      *)
(***************************************************************************)
THEOREM NoResultIsNull ==
  ASSUME ~ReentrantCall
  PROVE  Spec => []NoNullPointer
BY ConnectionInvariant, InvLib, PTL

(***************************************************************************)
(* A mylite_step that returns an error has not run the statement, unless a  *)
(* mylite_reset of it had failed before.                                    *)
(***************************************************************************)
THEOREM ErrorsMeanNotRun ==
  ASSUME ~ReentrantCall
  PROVE  Spec => ErrorMeansNotRun
<1>1. ConnectionInv /\ [Next]_vars => [ErrorStep]_vars
  BY NextErrors, Zenon
<1> QED BY <1>1, ConnectionInvariant, PTL DEF Spec, ErrorMeansNotRun, ErrorStep
=============================================================================
