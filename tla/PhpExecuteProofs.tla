-------------------------- MODULE PhpExecuteProofs --------------------------
(***************************************************************************)
(* The invariant of PhpExtensions, and every method that prepares or runs a *)
(* statement keeps it: query, exec, prepare and execute.  The invariant     *)
(* joins Serves, the state of a connection between two calls, with what the *)
(* fields of a statement object say of the mylite_stmt behind it, with how  *)
(* far the method in progress has come, and with what the shim leaves       *)
(* behind.                                                                  *)
(***************************************************************************)
EXTENDS PhpExtensions, ConnectionCallsProofs

(* Leaves that name no prover are left to Zenon. *)
USE Zenon

MethodType ==
  [call : {"none", "query", "execute", "finalize"}, stmt : Stmts \cup {None},
   rc : {"OK", "ROW", "DONE", "ERROR"}, ran : BOOLEAN, failed : BOOLEAN, missing : Nat]
PhpType ==
  [driver : {"mylite", "pdo", "mysqli"}, held : BOOLEAN, open : BOOLEAN, lost : BOOLEAN,
   obj : [Stmts -> ObjectType], run : MethodType]

(* A statement object of the handle the link has now. *)
Mine(p, s) == p.obj[s].live /\ ~p.obj[s].old

(* A mylite_stmt that the next step executes, or whose next fetch fails. *)
Unrun(c, s) ==
  ~c.my[s].executed \/ (c.my[s].has_result /\ Faulty(c.lib.stmt[s]))

(* One that a refused reset has left executed and without rows. *)
Spent(c, s) == c.my[s].executed /\ c.my[s].broken /\ ~c.my[s].has_result

(* It has rows to fetch: the missing ones, of which ahead are in the object. *)
Reads(c, s, missing, ahead) ==
  /\ c.my[s].executed /\ missing >= ahead
  /\ Spent(c, s) \/ (c.lib.owner = s /\ missing = c.my[s].left + ahead)

(* Its rows are over: those that are missing were thrown away. *)
Settled(c, s, missing) == c.my[s].disturbed \/ c.my[s].broken \/ missing = 0

(* What the last step of an object says of its mylite_stmt. *)
MyliteObject(c, s, o) ==
  /\ o.step = "ROW" => Reads(c, s, o.missing, 1)
  /\ o.step # "ROW" => Settled(c, s, o.missing)
  /\ o.step = "ERROR" => Unrun(c, s)
PdoObject(c, s, o) ==
  /\ ~o.executed => ~o.prefetched /\ (Unrun(c, s) \/ Spent(c, s))
  /\ o.executed => /\ o.done = (o.step = "DONE") /\ (o.prefetched => o.step = "ROW")
                   /\ o.step = "ROW" => Reads(c, s, o.missing, IF o.prefetched THEN 1 ELSE 0)
                   /\ o.step = "DONE" => Settled(c, s, o.missing)
                   /\ o.step = "ERROR" => Unrun(c, s)

(* An object, between two methods or in one that is not its own execute; the *)
(* mylite_stmt behind it, or behind the query in progress.                   *)
ObjectInv(c, p, s) ==
  /\ Mine(p, s) /\ ~(p.run.call = "execute" /\ p.run.stmt = s) =>
       /\ p.driver = "mylite" => MyliteObject(c, s, p.obj[s])
       /\ p.driver = "pdo" => PdoObject(c, s, p.obj[s])
  /\ c.my[s].live <=> Mine(p, s) \/ (p.run.call \in {"query", "finalize"} /\ p.run.stmt = s)
  /\ ~c.my[s].live => ~c.my[s].executed /\ ~c.my[s].broken
  /\ p.obj[s].old => p.obj[s].live /\ p.driver = "mysqli"

(* A method that has not stepped yet, and one that has read a row. *)
Starts(c, p) ==
  /\ p.run.rc = "OK" /\ ~p.run.ran /\ p.run.missing = 0
  /\ Unrun(c, p.run.stmt) \/ (p.driver = "pdo" /\ Spent(c, p.run.stmt))
ReadsOn(c, p) ==
  LET s == p.run.stmt IN
  /\ p.run.rc = "ROW" /\ (p.run.call = "query" \/ p.driver = "mysqli") /\ p.run.ran
  /\ c.lib.owner = s /\ c.my[s].executed /\ ~c.my[s].disturbed /\ p.run.missing = c.my[s].left

(* The method in progress. *)
MethodInv(c, p) ==
  LET run == p.run IN
  /\ run.call = "none" => run = NoMethod
  /\ run.call # "none" => run.stmt \in Stmts
  /\ run.call = "execute" => Mine(p, run.stmt)
  /\ run.call \in {"query", "finalize"} => ~p.obj[run.stmt].live /\ p.driver # "pdo"
  /\ run.call \in {"query", "execute"} =>
       (Starts(c, p) \/ ReadsOn(c, p)) /\ (p.driver = "mysqli" => ~run.failed)
  /\ run.call = "finalize" => /\ run.rc \in {"DONE", "ERROR"}
                              /\ run.rc = "DONE" => run.missing = 0
                              /\ run.rc = "ERROR" => c.errcode

(* With mysqli only the statement of the method in progress reads, so no     *)
(* reset is refused.                                                         *)
ShimInv(c, p) ==
  p.driver = "mysqli" =>
    /\ \A s \in Stmts : ~c.my[s].broken
    /\ c.lib.owner = None \/ (p.run.call # "none" /\ c.lib.owner = p.run.stmt)

LinkInv(c, p) ==
  /\ Serves(c) /\ p \in PhpType /\ ~p.lost
  /\ \A s \in Stmts : ObjectInv(c, p, s)
  /\ MethodInv(c, p) /\ ShimInv(c, p)

(* What a method may tell: m is told when c and p are reached. *)
Tells(c, p, m) ==
  /\ m.rc \in {"ok", "row", "end", "error"}
  /\ m.rc \in {"ok", "end"} => m.missing = 0
  /\ m.call = "execute" /\ m.rc = "ok" =>
       /\ m.ran \/ (p.driver = "pdo" /\ c.my[m.stmt].broken)
       /\ p.driver = "mysqli" => ~m.failed
  /\ m.rc = "error" /\ m.call \notin {"bind", "open"} => c.errcode

PhpInv == LinkInv(conn, php) /\ Tells(conn, php, told)

(* A fetch that ran the statement, of an object whose last step failed. *)
Refetches(p, m) == m.call = "fetch" /\ m.ran => p.obj[m.stmt].step = "ERROR"
-----------------------------------------------------------------------------
(* The fields of a method that begins, and of what is told. *)
LEMMA MethodIs ==
  ASSUME NEW call, NEW s, NEW failed
  PROVE  LET run == Method(call, s, failed)
         IN /\ run.call = call /\ run.stmt = s /\ run.rc = "OK" /\ ~run.ran
            /\ run.failed = failed /\ run.missing = 0
            /\ call \in {"none", "query", "execute", "finalize"} /\ failed \in BOOLEAN
               /\ s \in Stmts \cup {None} => run \in MethodType
<1> DEFINE run == Method(call, s, failed)
<1>1. 0 \in Nat
  BY SMT
<1>2. /\ run.call = call /\ run.stmt = s /\ run.rc = "OK" /\ ~run.ran
      /\ run.failed = failed /\ run.missing = 0
  BY DEF Method
<1>3. call \in {"none", "query", "execute", "finalize"} /\ failed \in BOOLEAN
        /\ s \in Stmts \cup {None} => run \in MethodType
  BY <1>1 DEF Method, MethodType
<1> QED BY <1>2, <1>3

(* No method is in progress. *)
LEMMA NoMethodIs ==
  /\ NoMethod \in MethodType /\ NoMethod.call = "none" /\ NoMethod.missing = 0
<1>1. 0 \in Nat
  BY SMT
<1> QED BY <1>1 DEF NoMethod, Method, MethodType

(* In the middle of a method nothing is told. *)
LEMMA NothingTells ==
  ASSUME NEW c, NEW p, NEW q
  PROVE  Tells(c, p, Nothing) /\ Refetches(q, Nothing)
<1>1. Nothing.call = "none" /\ Nothing.rc = "ok" /\ Nothing.missing = 0
  BY DEF Nothing, Said
<1> HIDE DEF Nothing
<1> QED BY <1>1 DEF Tells, Refetches

(* The object of s is o and the method in progress is run; nothing else changed. *)
Only(p, s, o, run, q) ==
  /\ q \in PhpType /\ q.driver = p.driver /\ q.held = p.held /\ q.open = p.open
  /\ q.lost = p.lost /\ q.run = run /\ q.obj[s] = o
  /\ \A t \in Stmts \ {s} : q.obj[t] = p.obj[t]

(* The three kinds of such a change, and none. *)
LEMMA OnlyIs ==
  ASSUME NEW p \in PhpType, NEW s \in Stmts, NEW o \in ObjectType, NEW run \in MethodType
  PROVE  /\ Only(p, s, o, run, [p EXCEPT !.obj[s] = o, !.run = run])
         /\ Only(p, s, o, p.run, [p EXCEPT !.obj[s] = o])
         /\ Only(p, s, p.obj[s], run, [p EXCEPT !.run = run])
         /\ Only(p, s, p.obj[s], p.run, p)
<1>1. /\ p.obj \in [Stmts -> ObjectType] /\ p.run \in MethodType
      /\ p.driver \in {"mylite", "pdo", "mysqli"} /\ p.held \in BOOLEAN
      /\ p.open \in BOOLEAN /\ p.lost \in BOOLEAN
      /\ DOMAIN p = {"driver", "held", "open", "lost", "obj", "run"}
  BY DEF PhpType
<1>2. [p.obj EXCEPT ![s] = o] \in [Stmts -> ObjectType]
  BY <1>1
<1>3. Only(p, s, o, run, [p EXCEPT !.obj[s] = o, !.run = run])
  BY <1>1, <1>2 DEF Only, PhpType
<1>4. Only(p, s, o, p.run, [p EXCEPT !.obj[s] = o])
  BY <1>1, <1>2 DEF Only, PhpType
<1>5. Only(p, s, p.obj[s], run, [p EXCEPT !.run = run])
  BY <1>1 DEF Only, PhpType
<1>6. Only(p, s, p.obj[s], p.run, p)
  BY DEF Only
<1> QED BY <1>3, <1>4, <1>5, <1>6

(* A call that spares a statement changes nothing that its object knows of it. *)
LEMMA SparedStatement ==
  ASSUME NEW c, NEW n, NEW s, Spares(c, s, n), NEW t \in Stmts \ {s}
  PROVE  /\ Unrun(c, t) => Unrun(n, t)
         /\ Spent(c, t) => Spent(n, t)
         /\ \A missing, ahead : Reads(c, t, missing, ahead) => Reads(n, t, missing, ahead)
         /\ \A missing : Settled(c, t, missing) => Settled(n, t, missing)
<1>1. /\ n.lib.stmt[t] = c.lib.stmt[t] /\ (n.lib.owner = t <=> c.lib.owner = t)
      /\ n.my[t].executed = c.my[t].executed
      /\ n.my[t].has_result = c.my[t].has_result /\ n.my[t].left = c.my[t].left
      /\ n.my[t].broken = c.my[t].broken /\ (c.my[t].disturbed => n.my[t].disturbed)
  BY DEF Spares
<1>2. (Unrun(c, t) => Unrun(n, t)) /\ (Spent(c, t) => Spent(n, t))
  BY <1>1 DEF Unrun, Spent
<1>3. \A missing, ahead : Reads(c, t, missing, ahead) => Reads(n, t, missing, ahead)
  BY <1>1, <1>2 DEF Reads
<1>4. \A missing : Settled(c, t, missing) => Settled(n, t, missing)
  BY <1>1 DEF Settled
<1> QED BY <1>2, <1>3, <1>4

(* So the object of a statement that is spared stays as it was. *)
LEMMA SparedObject ==
  ASSUME NEW c, NEW n, NEW s, Spares(c, s, n), NEW t \in Stmts \ {s},
         NEW p, NEW q, ObjectInv(c, p, t), q.obj[t] = p.obj[t], q.driver = p.driver,
         p.run.call = "none" \/ p.run.stmt # t, q.run.call = "none" \/ q.run.stmt # t
  PROVE  ObjectInv(n, q, t)
<1> DEFINE o == p.obj[t]
<1>1. /\ Unrun(c, t) => Unrun(n, t)
      /\ Spent(c, t) => Spent(n, t)
      /\ \A missing, ahead : Reads(c, t, missing, ahead) => Reads(n, t, missing, ahead)
      /\ \A missing : Settled(c, t, missing) => Settled(n, t, missing)
  BY SparedStatement
<1>2. (MyliteObject(c, t, o) => MyliteObject(n, t, o)) /\ (PdoObject(c, t, o) => PdoObject(n, t, o))
  BY <1>1 DEF MyliteObject, PdoObject
<1>3. /\ n.my[t].live = c.my[t].live /\ n.my[t].executed = c.my[t].executed
      /\ n.my[t].broken = c.my[t].broken
  BY DEF Spares
<1>4. Mine(q, t) <=> Mine(p, t)
  BY DEF Mine
<1> QED BY <1>2, <1>3, <1>4 DEF ObjectInv

(* A method in progress, if any, is one of s. *)
RunsFor(run, s) == run.call = "none" \/ run.stmt = s

(* What a call for s leaves behind in the shim. *)
LeavesShim(driver, s, run, n) ==
  driver = "mysqli" => ~n.my[s].broken /\ (n.lib.owner = s => run.call # "none")

(* A call for s, and a change of its object or of the method in progress. *)
LEMMA LinkKeeps ==
  ASSUME NEW c, NEW p, LinkInv(c, p), NEW s \in Stmts, RunsFor(p.run, s),
         NEW o, NEW run, NEW q, Only(p, s, o, run, q), RunsFor(run, s),
         NEW n, Serves(n), Spares(c, s, n), ObjectInv(n, q, s), MethodInv(n, q),
         LeavesShim(p.driver, s, run, n)
  PROVE  LinkInv(n, q)
<1>1. /\ q \in PhpType /\ q.driver = p.driver /\ q.lost = p.lost /\ q.run = run
      /\ \A t \in Stmts \ {s} : q.obj[t] = p.obj[t]
      /\ p.run.call = "none" \/ p.run.stmt = s
      /\ run.call = "none" \/ run.stmt = s
      /\ p.driver = "mysqli" => ~n.my[s].broken /\ (n.lib.owner = s => run.call # "none")
  BY DEF Only, RunsFor, LeavesShim
<1>2. ASSUME NEW t \in Stmts PROVE ObjectInv(n, q, t)
  <2>1. CASE t = s
    BY <2>1
  <2>2. CASE t # s
    <3>1. /\ t \in Stmts \ {s} /\ ObjectInv(c, p, t) /\ q.obj[t] = p.obj[t]
          /\ (p.run.call = "none" \/ p.run.stmt # t) /\ (q.run.call = "none" \/ q.run.stmt # t)
      BY <1>1, <2>2 DEF LinkInv
    <3> QED BY <1>1, <3>1, SparedObject
  <2> QED BY <2>1, <2>2
<1>3. ASSUME q.driver = "mysqli"
      PROVE  /\ \A t \in Stmts : ~n.my[t].broken
             /\ n.lib.owner = None \/ (q.run.call # "none" /\ n.lib.owner = q.run.stmt)
  <2>1. /\ \A t \in Stmts : ~c.my[t].broken
        /\ c.lib.owner = None \/ (p.run.call # "none" /\ c.lib.owner = p.run.stmt)
    BY <1>1, <1>3 DEF LinkInv, ShimInv
  <2>2. \A t \in Stmts : ~n.my[t].broken
    BY <1>1, <1>3, <2>1 DEF Spares
  <2>3. CASE n.lib.owner = s
    BY <1>1, <1>3, <2>2, <2>3
  <2>4. CASE n.lib.owner # s
    <3>1. ConnOK(c) /\ ConnOK(n) /\ (Ready(c.lib) \/ c.lib.owner = s)
      BY <1>1, <2>1 DEF LinkInv, Serves, ConnOK, LibInv, Ready
    <3>2. n.lib.owner = None
      BY <2>4, <3>1, SparesReady
    <3> QED BY <2>2, <3>2
  <2> QED BY <2>3, <2>4
<1> QED BY <1>1, <1>2, <1>3 DEF LinkInv, ShimInv

(* The same between two methods. *)
LEMMA RestKeeps ==
  ASSUME NEW c, NEW p, LinkInv(c, p), p.run = NoMethod, NEW s \in Stmts,
         NEW o, NEW q, Only(p, s, o, p.run, q),
         NEW n, Serves(n), Spares(c, s, n), ObjectInv(n, q, s),
         p.driver = "mysqli" => ~n.my[s].broken /\ n.lib.owner # s
  PROVE  LinkInv(n, q)
<1>1. p.run.call = "none" /\ q.run = NoMethod /\ q.run.call = "none"
  BY NoMethodIs DEF Only
<1>2. MethodInv(n, q)
  BY <1>1 DEF MethodInv
<1>3. RunsFor(p.run, s) /\ LeavesShim(p.driver, s, p.run, n)
  BY <1>1 DEF RunsFor, LeavesShim
<1> QED BY <1>2, <1>3, LinkKeeps
-----------------------------------------------------------------------------
(* A step of s: it executes s, or fetches, or finds that s is over. *)
Asks(c, s, reply, r) ==
  /\ Steps(c, s, r) /\ Spares(c, s, r.conn)
  /\ ~c.my[s].executed => \E d : reply = <<d>> /\ d.n \in Nat /\ Produces(c, s, d, r)
  /\ c.my[s].executed => /\ r.ran = FALSE
                         /\ c.my[s].has_result => Delivers(c, s, r)
                         /\ ~c.my[s].has_result =>
                              r.rc = "DONE" /\ r.conn.lib = c.lib /\ r.conn.my = c.my

(* Every step an extension makes is one. *)
LEMMA StepAsks ==
  ASSUME Serves(conn), NEW s \in Stmts, conn.my[s].live, NEW reply \in ReplyTo(s)
  PROVE  Asks(conn, s, reply, MyliteStep(conn, s, reply))
<1>1. CASE conn.my[s].executed
  <2>1. reply = <<>>
    BY <1>1 DEF ReplyTo
  <2>2. LET o == MyliteStep(conn, s, <<>>)
        IN /\ Steps(conn, s, o) /\ Spares(conn, s, o.conn) /\ o.ran = FALSE
           /\ conn.my[s].has_result => Delivers(conn, s, o)
           /\ ~conn.my[s].has_result =>
                o.rc = "DONE" /\ o.conn.lib = conn.lib /\ o.conn.my = conn.my
    BY <1>1, StepReads
  <2> QED BY <1>1, <2>1, <2>2 DEF Asks
<1>2. CASE ~conn.my[s].executed
  <2>1. reply \in ErrorReply \cup (IF conn.my[s].select THEN RowsReply \cup BadReply ELSE OkReply)
    BY <1>2 DEF ReplyTo
  <2>2. PICK d : reply = <<d>> /\ Answers(d, conn.my[s].select)
    BY <2>1, StepReplies
  <2>3. LET o == MyliteStep(conn, s, <<d>>)
        IN Steps(conn, s, o) /\ Produces(conn, s, d, o) /\ Spares(conn, s, o.conn)
    BY <1>2, <2>2, StepRuns
  <2>4. d.n \in Nat
    BY <2>2 DEF Answers, Datasets
  <2> QED BY <1>2, <2>2, <2>3, <2>4 DEF Asks
<1> QED BY <1>1, <1>2

(* What a step that executes s, and one that does not, says of its rows. *)
LEMMA MissingIs ==
  ASSUME NEW d, NEW r, NEW before
  PROVE  /\ r.ran => Missing(before, r, <<d>>) = IF HasColumns(d) THEN d.n ELSE 0
         /\ \A reply : ~r.ran => Missing(before, r, reply) = before
<1>1. <<d>>[1] = d
  BY SMT
<1> QED BY <1>1 DEF Missing

(* A step of s after which m rows are missing, all of them still to be given. *)
StepsTo(c, s, ran, r, m) ==
  LET n == r.conn IN
  /\ Serves(n) /\ Spares(c, s, n) /\ r.rc \in {"ROW", "DONE", "ERROR"} /\ m \in Nat
  /\ n.my[s].live = c.my[s].live /\ n.my[s].broken = c.my[s].broken
  /\ r.rc = "ROW" => /\ n.my[s].executed /\ n.lib.owner = s /\ ~n.my[s].disturbed
                     /\ ran \/ r.ran
                     /\ m >= 1 /\ m = n.my[s].left + 1 /\ m - 1 \in Nat
  /\ r.rc = "DONE" => n.lib.owner # s /\ m = 0
  /\ r.rc = "ERROR" => n.errcode /\ (c.my[s].broken \/ n.lib.owner # s)

(* The step that executes s. *)
LEMMA FirstStep ==
  ASSUME NEW c, Serves(c), NEW s \in Stmts, NEW reply, NEW r, Asks(c, s, reply, r),
         Unrun(c, s)
  PROVE  LET m == Missing(0, r, reply)
         IN /\ StepsTo(c, s, FALSE, r, m)
            /\ r.rc = "ERROR" => Unrun(r.conn, s) /\ (r.conn.my[s].broken \/ m = 0)
            /\ r.rc # "ERROR" => r.ran
<1> DEFINE m == Missing(0, r, reply)
           n == r.conn
<1>1. /\ Serves(n) /\ Spares(c, s, n) /\ r.rc \in {"ROW", "DONE", "ERROR"}
      /\ r.rc = "DONE" => n.lib.owner # s
      /\ r.rc = "ERROR" /\ r.ran => n.my[s].broken
  BY DEF Asks, Steps
<1>2. n.my[s].left \in Nat
  BY <1>1 DEF Serves, ConnOK, StmtType
<1>3. CASE ~c.my[s].executed
  <2>1. PICK d : reply = <<d>> /\ d.n \in Nat /\ Produces(c, s, d, r)
    BY <1>3 DEF Asks
  <2>2. /\ n.my[s].live = c.my[s].live /\ n.my[s].broken = c.my[s].broken
        /\ r.rc # "ERROR" => r.ran /\ n.my[s].executed /\ ~n.my[s].disturbed
        /\ r.rc = "ROW" => /\ HasColumns(d) /\ d.n > 0
                           /\ n.lib.owner = s /\ n.my[s].left = d.n - 1
        /\ r.rc = "DONE" => (HasColumns(d) => d.n = 0)
        /\ r.rc = "ERROR" => n.errcode /\ (c.my[s].broken \/ n.lib.owner # s)
    BY <2>1 DEF Produces
  <2>3. r.rc = "ERROR" => Unrun(n, s)
    BY <1>3, <2>1 DEF Produces, Unrun
  <2>4. /\ r.ran => m = IF HasColumns(d) THEN d.n ELSE 0
        /\ ~r.ran => m = 0
    BY <2>1, MissingIs, ZenonT(30)
  <2> HIDE DEF m, n
  <2>5. CASE r.rc = "ROW"
    <3>1. /\ HasColumns(d) /\ d.n > 0 /\ n.lib.owner = s /\ n.my[s].left = d.n - 1
          /\ r.ran /\ n.my[s].executed /\ ~n.my[s].disturbed
      BY <2>2, <2>5
    <3>2. m = d.n
      BY <2>4, <3>1
    <3>3. m \in Nat /\ m >= 1 /\ m = n.my[s].left + 1 /\ m - 1 \in Nat
      BY <1>2, <2>1, <3>1, <3>2, SMT
    <3> QED BY <1>1, <2>2, <2>5, <3>1, <3>3 DEF StepsTo, n, m
  <2>6. CASE r.rc = "DONE"
    <3>1. m = 0 /\ r.ran
      BY <2>2, <2>4, <2>6
    <3>2. m \in Nat
      BY <3>1, SMT
    <3> QED BY <1>1, <2>2, <2>6, <3>1, <3>2 DEF StepsTo, n, m
  <2>7. CASE r.rc = "ERROR"
    <3>1. m \in Nat
      BY <2>1, <2>4, SMT
    <3> QED BY <1>1, <2>2, <2>3, <2>4, <2>7, <3>1 DEF StepsTo, n, m
  <2> QED BY <1>1, <2>5, <2>6, <2>7
<1>4. CASE c.my[s].executed
  <2>1. c.my[s].has_result /\ Faulty(c.lib.stmt[s])
    BY <1>4 DEF Unrun
  <2>2. Delivers(c, s, r) /\ r.ran = FALSE
    BY <1>4, <2>1 DEF Asks
  <2>3. /\ r.rc = "ERROR" /\ n.my[s].live = c.my[s].live /\ n.my[s].broken = c.my[s].broken
        /\ n.errcode /\ n.lib.owner # s /\ Unrun(n, s)
    BY <2>1, <2>2 DEF Delivers, Unrun
  <2>4. m = 0
    BY <2>2, MissingIs
  <2>5. m \in Nat
    BY <2>4, SMT
  <2> QED BY <1>1, <2>3, <2>4, <2>5 DEF StepsTo
<1> QED BY <1>3, <1>4

(* A step that fetches the next row of s, the last one read included. *)
LEMMA ReadStep ==
  ASSUME NEW c, Serves(c), NEW s \in Stmts, NEW reply, NEW r, Asks(c, s, reply, r),
         c.my[s].executed, c.lib.owner = s
  PROVE  /\ Delivers(c, s, r) /\ ~r.ran /\ Missing(c.my[s].left, r, reply) = c.my[s].left
         /\ ~c.my[s].disturbed => StepsTo(c, s, TRUE, r, c.my[s].left)
         /\ r.rc # "ROW" => c.my[s].disturbed \/ c.my[s].left = 0
<1> DEFINE m == c.my[s].left
           n == r.conn
<1>1. /\ Serves(n) /\ Spares(c, s, n) /\ r.rc \in {"ROW", "DONE", "ERROR"}
  BY DEF Asks, Steps
<1>2. c.my[s].has_result
  BY DEF Serves, ConnOK, StmtInv
<1>3. m \in Nat /\ n.my[s].left \in Nat
  BY <1>1 DEF Serves, ConnOK, StmtType
<1>4. Delivers(c, s, r) /\ ~r.ran
  BY <1>2 DEF Asks
<1>5. Missing(m, r, reply) = m
  BY <1>4 DEF Missing
<1>6. /\ n.my[s].live = c.my[s].live /\ n.my[s].executed = c.my[s].executed
      /\ n.my[s].broken = c.my[s].broken /\ n.my[s].disturbed = c.my[s].disturbed
      /\ r.rc = "ROW" => n.lib.owner = s /\ m > 0 /\ n.my[s].left = m - 1
      /\ r.rc # "ROW" => n.lib.owner # s /\ ~(m > 0 /\ ~c.my[s].disturbed)
      /\ r.rc = "ERROR" => n.errcode
  BY <1>4 DEF Delivers
<1> HIDE DEF m, n
<1>7. r.rc # "ROW" => c.my[s].disturbed \/ m = 0
  BY <1>3, <1>6, SMT
<1>8. r.rc = "ROW" => m >= 1 /\ m = n.my[s].left + 1 /\ m - 1 \in Nat
  BY <1>3, <1>6, SMT
<1>9. ~c.my[s].disturbed => StepsTo(c, s, TRUE, r, m)
  BY <1>1, <1>3, <1>6, <1>7, <1>8 DEF StepsTo, n
<1> QED BY <1>4, <1>5, <1>7, <1>9 DEF m

(* A step that changes nothing and ends the rows. *)
IdleStep(c, s, r) ==
  /\ r.rc = "DONE" /\ ~r.ran /\ StepsTo(c, s, FALSE, r, 0)
  /\ r.conn.lib = c.lib /\ r.conn.my = c.my

(* A step of a statement that a refused reset has left without rows. *)
LEMMA SpentStep ==
  ASSUME NEW c, Serves(c), NEW s \in Stmts, NEW reply, NEW r, Asks(c, s, reply, r),
         Spent(c, s)
  PROVE  IdleStep(c, s, r)
<1>1. /\ Serves(r.conn) /\ Spares(c, s, r.conn) /\ r.conn.lib.owner # s
      /\ r.rc = "DONE" /\ r.ran = FALSE /\ r.conn.lib = c.lib /\ r.conn.my = c.my
  BY DEF Asks, Steps, Spent
<1>2. 0 \in Nat
  BY SMT
<1>3. StepsTo(c, s, FALSE, r, 0)
  BY <1>1, <1>2 DEF StepsTo, Spent
<1> QED BY <1>1, <1>3 DEF IdleStep

(* A step of the method in progress. *)
LEMMA MethodStep ==
  ASSUME LinkInv(conn, php), php.run.call \in {"query", "execute"},
         NEW reply \in ReplyTo(php.run.stmt)
  PROVE  LET s == php.run.stmt
             r == MyliteStep(conn, s, reply)
             m == Missing(php.run.missing, r, reply)
         IN /\ StepsTo(conn, s, php.run.ran, r, m)
            /\ php.run.rc = "OK" /\ r.rc = "ERROR" =>
                 Unrun(r.conn, s) /\ (r.conn.my[s].broken \/ m = 0)
            /\ php.run.rc # "OK" => php.run.call = "query" \/ php.driver = "mysqli"
            /\ r.rc # "ERROR" =>
                 php.run.ran \/ r.ran \/ (php.driver = "pdo" /\ r.conn.my[s].broken)
<1> DEFINE s == php.run.stmt
           r == MyliteStep(conn, s, reply)
           m == Missing(php.run.missing, r, reply)
<1>1. /\ Serves(conn) /\ s \in Stmts /\ conn.my[s].live
      /\ Starts(conn, php) \/ ReadsOn(conn, php)
  BY DEF LinkInv, MethodInv, ObjectInv
<1>2. Asks(conn, s, reply, r)
  BY <1>1, StepAsks
<1> HIDE DEF r
<1>3. CASE Starts(conn, php) /\ Unrun(conn, s)
  <2>1. php.run.missing = 0 /\ ~php.run.ran /\ php.run.rc = "OK"
    BY <1>3 DEF Starts
  <2>2. LET k == Missing(0, r, reply)
        IN /\ StepsTo(conn, s, FALSE, r, k)
           /\ r.rc = "ERROR" => Unrun(r.conn, s) /\ (r.conn.my[s].broken \/ k = 0)
           /\ r.rc # "ERROR" => r.ran
    BY <1>1, <1>2, <1>3, FirstStep
  <2>3. php.run.ran = FALSE
    BY <2>1 DEF LinkInv, PhpType, MethodType
  <2> QED BY <2>1, <2>2, <2>3 DEF r
<1>4. CASE Starts(conn, php) /\ php.driver = "pdo" /\ Spent(conn, s)
  <2>1. php.run.missing = 0 /\ ~php.run.ran /\ php.run.rc = "OK"
    BY <1>4 DEF Starts
  <2>2. php.run.ran = FALSE
    BY <2>1 DEF LinkInv, PhpType, MethodType
  <2>3. r.rc = "DONE" /\ ~r.ran /\ StepsTo(conn, s, FALSE, r, 0)
    <3>1. Serves(conn) /\ s \in Stmts /\ Spent(conn, s)
      BY <1>1, <1>4
    <3>2. IdleStep(conn, s, r)
      BY <1>2, <3>1, SpentStep
    <3> QED BY <3>2 DEF IdleStep
  <2>4. m = 0
    BY <2>1, <2>3 DEF Missing
  <2>5. php.driver = "pdo" /\ r.conn.my[s].broken
    BY <1>4, <2>3 DEF StepsTo, Spent
  <2> QED BY <2>1, <2>2, <2>3, <2>4, <2>5 DEF r
<1>5. CASE ReadsOn(conn, php)
  <2>1. /\ php.run.rc = "ROW" /\ (php.run.call = "query" \/ php.driver = "mysqli")
        /\ php.run.ran /\ conn.lib.owner = s /\ conn.my[s].executed /\ ~conn.my[s].disturbed
        /\ php.run.missing = conn.my[s].left
    BY <1>5 DEF ReadsOn
  <2>2. php.run.ran = TRUE
    BY <2>1 DEF LinkInv, PhpType, MethodType
  <2>3. /\ Missing(conn.my[s].left, r, reply) = conn.my[s].left
        /\ StepsTo(conn, s, TRUE, r, conn.my[s].left)
    BY <1>1, <1>2, <2>1, ReadStep
  <2>4. m = conn.my[s].left
    BY <2>1, <2>3
  <2> QED BY <2>1, <2>2, <2>3, <2>4 DEF r
<1> QED BY <1>1, <1>3, <1>4, <1>5 DEF Starts
-----------------------------------------------------------------------------
(* What a method may tell that neither fetches nor ends an execute well. *)
LEMMA PlainTells ==
  ASSUME NEW c, NEW p, NEW q, NEW s, NEW ran, NEW failed, NEW missing,
         NEW call \in {"query", "exec", "prepare", "execute", "closeCursor", "close", "bind",
                       "open"},
         NEW rc \in {"ok", "error"}, rc = "ok" => missing = 0 /\ call # "execute",
         rc = "error" /\ call \notin {"bind", "open"} => c.errcode
  PROVE  LET m == Said(call, s, rc, ran, failed, missing) IN Tells(c, p, m) /\ Refetches(q, m)
<1> DEFINE m == Said(call, s, rc, ran, failed, missing)
<1>1. m.call = call /\ m.rc = rc /\ m.missing = missing
  BY DEF Said
<1> HIDE DEF m
<1>2. call # "fetch"
  OBVIOUS
<1>3. Tells(c, p, m)
  BY <1>1, <1>2 DEF Tells
<1>4. Refetches(q, m)
  BY <1>1, <1>2 DEF Refetches
<1> QED BY <1>3, <1>4 DEF m

(* Between two methods. *)
LEMMA IdleIs ==
  ASSUME NEW c, NEW p, LinkInv(c, p), p.run = NoMethod, NEW s \in Stmts
  PROVE  /\ Serves(c) /\ p \in PhpType /\ p.run.call = "none" /\ p.obj[s] \in ObjectType
         /\ ObjectInv(c, p, s) /\ (c.my[s].live <=> Mine(p, s))
         /\ p.driver = "mysqli" => ~c.my[s].broken /\ c.lib.owner = None /\ Ready(c.lib)
<1>1. Serves(c) /\ p \in PhpType /\ p.run.call = "none" /\ ObjectInv(c, p, s) /\ ShimInv(c, p)
  BY NoMethodIs DEF LinkInv
<1>2. p.obj[s] \in ObjectType
  BY <1>1 DEF PhpType
<1>3. c.my[s].live <=> Mine(p, s)
  BY <1>1 DEF ObjectInv
<1>4. p.driver = "mysqli" => ~c.my[s].broken /\ c.lib.owner = None
  BY <1>1 DEF ShimInv
<1>5. c.lib.owner = None => Ready(c.lib)
  BY <1>1 DEF Serves, ConnOK, LibInv, Ready
<1> QED BY <1>1, <1>2, <1>3, <1>4, <1>5

(* A query or an execute begins, after a call for its statement. *)
LEMMA MethodStarts ==
  ASSUME NEW c, NEW p, LinkInv(c, p), p.run = NoMethod, NEW s \in Stmts,
         NEW call \in {"query", "execute"}, NEW failed \in BOOLEAN, NEW o, NEW q,
         Only(p, s, o, Method(call, s, failed), q), ~o.old,
         call = "execute" => o.live, call = "query" => ~o.live /\ p.driver # "pdo",
         NEW n, Serves(n), Spares(c, s, n), n.my[s].live,
         Unrun(n, s) \/ (p.driver = "pdo" /\ Spent(n, s)),
         p.driver = "mysqli" => ~failed /\ ~n.my[s].broken
  PROVE  LinkInv(n, q)
<1> DEFINE run == Method(call, s, failed)
<1>1. /\ run.call = call /\ run.stmt = s /\ run.rc = "OK" /\ ~run.ran
      /\ run.failed = failed /\ run.missing = 0
  BY DEF Method
<1>2. q.driver = p.driver /\ q.run = run /\ q.obj[s] = o
  BY DEF Only
<1>3. p.run.call = "none"
  BY NoMethodIs
<1> HIDE DEF run
<1>4. ObjectInv(n, q, s)
  BY <1>1, <1>2 DEF ObjectInv, Mine
<1>5. Starts(n, q)
  BY <1>1, <1>2 DEF Starts
<1>6. MethodInv(n, q)
  BY <1>1, <1>2, <1>5 DEF MethodInv, Mine
<1>7. Only(p, s, o, run, q) /\ RunsFor(p.run, s) /\ RunsFor(run, s)
  BY <1>1, <1>3 DEF run, RunsFor
<1>8. LeavesShim(p.driver, s, run, n)
  BY <1>1 DEF LeavesShim
<1> QED BY <1>4, <1>6, <1>7, <1>8, LinkKeeps

(* The invariant after a step, and what the step may say of a fetch. *)
LEMMA StepIs ==
  ASSUME NEW c, NEW p, NEW m, conn' = c, php' = p, told' = m, LinkInv(c, p), Tells(c, p, m),
         Refetches(php, m)
  PROVE  PhpInv' /\ Refetches(php, told')
BY DEF PhpInv

(* Connection::query and query prepare their statement. *)
LEMMA RunQueryKeeps ==
  ASSUME PhpInv, NEW s \in Stmts, RunQuery(s)
  PROVE  PhpInv' /\ Refetches(php, told')
<1>1. PICK prepare \in PrepareReply : QueryPrepared(s, MylitePrepare(conn, s, prepare))
  BY DEF RunQuery
<1> DEFINE r == MylitePrepare(conn, s, prepare)
<1>2. LinkInv(conn, php) /\ php.run = NoMethod /\ php.driver # "pdo" /\ ~php.obj[s].live
  BY DEF PhpInv, RunQuery, Linked, Idle, Unused
<1>3. /\ Serves(conn) /\ php \in PhpType /\ php.run.call = "none" /\ php.obj[s] \in ObjectType
      /\ ObjectInv(conn, php, s) /\ (conn.my[s].live <=> Mine(php, s))
      /\ php.driver = "mysqli" => ~conn.my[s].broken
  BY <1>2, IdleIs
<1>4. ~conn.my[s].live /\ ~conn.my[s].executed /\ ~conn.my[s].broken /\ ~php.obj[s].old
  BY <1>2, <1>3 DEF ObjectInv, Mine
<1>5. Prepares(conn, s, r)
  BY <1>3, <1>4, PrepareServes DEF PrepareReply
<1>6. /\ conn' = r.conn
      /\ php' = IF Failed(r) THEN php ELSE [php EXCEPT !.run = Method("query", s, FALSE)]
      /\ told' = IF Failed(r) THEN Said("query", None, "error", FALSE, TRUE, 0) ELSE Nothing
  BY <1>1 DEF QueryPrepared
<1> HIDE DEF r
<1>7. /\ Serves(r.conn) /\ Spares(conn, s, r.conn) /\ r.conn.lib.owner # s
      /\ r.rc \in {"OK", "ERROR"} /\ (r.conn.my[s].live <=> r.rc = "OK")
      /\ ~r.conn.my[s].executed /\ ~r.conn.my[s].broken /\ (r.rc = "ERROR" => r.conn.errcode)
  BY <1>4, <1>5 DEF Prepares
<1>8. CASE r.rc = "ERROR"
  <2>1. Failed(r)
    BY <1>8 DEF Failed
  <2>2. ObjectInv(r.conn, php, s)
    BY <1>2, <1>3, <1>4, <1>7, <1>8 DEF ObjectInv, Mine
  <2>3. Only(php, s, php.obj[s], php.run, php)
    BY <1>3 DEF Only
  <2>4. LinkInv(r.conn, php)
    BY <1>2, <1>7, <2>2, <2>3, RestKeeps
  <2>5. LET m == Said("query", None, "error", FALSE, TRUE, 0)
        IN Tells(r.conn, php, m) /\ Refetches(php, m)
    BY <1>7, <1>8, PlainTells
  <2> QED BY <1>6, <2>1, <2>4, <2>5, StepIs
<1>9. CASE r.rc = "OK"
  <2> DEFINE q == [php EXCEPT !.run = Method("query", s, FALSE)]
  <2>1. ~Failed(r)
    BY <1>9 DEF Failed
  <2>2. Method("query", s, FALSE) \in MethodType
    BY MethodIs
  <2>3. Only(php, s, php.obj[s], Method("query", s, FALSE), q)
    BY <1>3, <2>2, OnlyIs
  <2> HIDE DEF q
  <2>4. Unrun(r.conn, s)
    BY <1>7 DEF Unrun
  <2>5. LinkInv(r.conn, q)
    BY <1>2, <1>4, <1>7, <1>9, <2>3, <2>4, MethodStarts
  <2>6. Tells(r.conn, q, Nothing) /\ Refetches(php, Nothing)
    BY NothingTells
  <2> QED BY <1>6, <2>1, <2>5, <2>6, StepIs DEF q
<1> QED BY <1>7, <1>8, <1>9

(* The object of a statement just prepared. *)
LEMMA PreparedObject ==
  ASSUME NEW params \in BOOLEAN
  PROVE  LET o == [NewObject EXCEPT !.live = TRUE, !.params = params]
         IN /\ o \in ObjectType /\ o.live /\ ~o.old /\ o.step = "DONE" /\ ~o.executed
            /\ ~o.prefetched /\ o.missing = 0
<1>1. 0 \in Nat
  BY SMT
<1> QED BY <1>1 DEF NewObject, ObjectType

(* prepare of the three packages. *)
LEMMA PrepareKeeps ==
  ASSUME PhpInv, NEW s \in Stmts, Prepare(s)
  PROVE  PhpInv' /\ Refetches(php, told')
<1>1. PICK prepare \in PrepareReply, params \in BOOLEAN :
        Prepared(s, MylitePrepare(conn, s, prepare),
                 [NewObject EXCEPT !.live = TRUE, !.params = params])
  BY DEF Prepare
<1> DEFINE r == MylitePrepare(conn, s, prepare)
           o == [NewObject EXCEPT !.live = TRUE, !.params = params]
           q == [php EXCEPT !.obj[s] = o]
           m == Said("prepare", None, Outcome(Failed(r)), FALSE, Failed(r), 0)
<1>2. LinkInv(conn, php) /\ php.run = NoMethod /\ ~php.obj[s].live
  BY DEF PhpInv, Prepare, Linked, Idle, Unused
<1>3. /\ Serves(conn) /\ php \in PhpType /\ php.run.call = "none" /\ php.obj[s] \in ObjectType
      /\ ObjectInv(conn, php, s) /\ (conn.my[s].live <=> Mine(php, s))
  BY <1>2, IdleIs
<1>4. ~conn.my[s].live /\ ~conn.my[s].executed /\ ~conn.my[s].broken /\ ~php.obj[s].old
  BY <1>2, <1>3 DEF ObjectInv, Mine
<1>5. Prepares(conn, s, r)
  BY <1>3, <1>4, PrepareServes DEF PrepareReply
<1>6. conn' = r.conn /\ php' = (IF Failed(r) THEN php ELSE q) /\ told' = m
  BY <1>1 DEF Prepared
<1>7. /\ o \in ObjectType /\ o.live /\ ~o.old /\ o.step = "DONE" /\ ~o.executed
      /\ ~o.prefetched /\ o.missing = 0
  BY PreparedObject
<1>8. Only(php, s, o, php.run, q)
  BY <1>3, <1>7, NoMethodIs, OnlyIs
<1> HIDE DEF r, o, q
<1>9. /\ Serves(r.conn) /\ Spares(conn, s, r.conn) /\ r.conn.lib.owner # s
      /\ r.rc \in {"OK", "ERROR"} /\ (r.conn.my[s].live <=> r.rc = "OK")
      /\ ~r.conn.my[s].executed /\ ~r.conn.my[s].broken /\ (r.rc = "ERROR" => r.conn.errcode)
  BY <1>4, <1>5 DEF Prepares
<1>10. (Outcome(Failed(r)) = "error" <=> r.rc = "ERROR") /\ (Failed(r) <=> r.rc = "ERROR")
       /\ Outcome(Failed(r)) \in {"ok", "error"}
  BY <1>9 DEF Failed, Outcome
<1>11. \A p : Tells(r.conn, p, m) /\ Refetches(php, m)
  BY <1>9, <1>10, PlainTells
<1> HIDE DEF m
<1>12. CASE r.rc = "ERROR"
  <2>1. ObjectInv(r.conn, php, s)
    BY <1>2, <1>3, <1>4, <1>9, <1>12 DEF ObjectInv, Mine
  <2>2. Only(php, s, php.obj[s], php.run, php)
    BY <1>3 DEF Only
  <2>3. LinkInv(r.conn, php)
    BY <1>2, <1>9, <2>1, <2>2, RestKeeps
  <2> QED BY <1>6, <1>10, <1>11, <1>12, <2>3, StepIs
<1>13. CASE r.rc = "OK"
  <2>1. MyliteObject(r.conn, s, o)
    BY <1>7 DEF MyliteObject, Settled
  <2>2. PdoObject(r.conn, s, o)
    BY <1>7, <1>9 DEF PdoObject, Unrun
  <2>3. q.obj[s] = o /\ q.run.call = "none"
    BY <1>3, <1>8 DEF Only
  <2>4. ObjectInv(r.conn, q, s)
    BY <1>7, <1>9, <1>13, <2>1, <2>2, <2>3 DEF ObjectInv, Mine
  <2>5. LinkInv(r.conn, q)
    BY <1>2, <1>8, <1>9, <2>4, RestKeeps
  <2> QED BY <1>6, <1>10, <1>11, <1>13, <2>5, StepIs
<1> QED BY <1>9, <1>12, <1>13

(* exec, and what goes through it: it concerns no statement. *)
LEMMA RunExecKeeps ==
  ASSUME PhpInv, RunExec
  PROVE  PhpInv' /\ Refetches(php, told')
<1>1. PICK reply \in OkReply \cup RowsReply \cup BadReply \cup ErrorReply \cup CallReply :
        ExecDone(Observe(conn, None, ExecWithoutRows(conn, reply)))
  BY DEF RunExec
<1> DEFINE e == ExecWithoutRows(conn, reply)
           r == Observe(conn, None, e)
           m == Said("exec", None, Outcome(Failed(r)), r.ran, Failed(r), 0)
<1>2. LinkInv(conn, php) /\ php.run = NoMethod /\ php.run.call = "none"
  BY NoMethodIs DEF PhpInv, RunExec, Linked, Idle
<1>3. Serves(conn) /\ php \in PhpType /\ ~php.lost /\ ShimInv(conn, php)
  BY <1>2 DEF LinkInv
<1>4. Execs(conn, reply[1], e)
  BY <1>3, ExecServes
<1>5. conn' = r.conn /\ told' = m /\ php' = php
  BY <1>1 DEF ExecDone
<1> HIDE DEF e
<1>6. /\ Calls(conn, None, e) /\ e.rc \in {"OK", "ERROR"}
      /\ e.rc = "ERROR" => e.conn.errcode
  BY <1>4 DEF Execs
<1>7. Serves(r.conn) /\ Observed(conn, None, e, r)
  BY <1>3, <1>6, CallServes
<1>8. Spares(conn, None, r.conn)
  BY <1>6, <1>7, ObserveSpares DEF Calls
<1>9. r.rc = e.rc /\ r.conn.errcode = e.conn.errcode
  BY <1>7 DEF Observed
<1> HIDE DEF r
<1>10. Outcome(Failed(r)) \in {"ok", "error"} /\ (Outcome(Failed(r)) = "error" => r.conn.errcode)
  BY <1>6, <1>9 DEF Failed, Outcome
<1>11. Tells(r.conn, php, m) /\ Refetches(php, m)
  BY <1>10, PlainTells
<1>12. ASSUME NEW t \in Stmts PROVE ObjectInv(r.conn, php, t)
  <2>1. t \in Stmts \ {None} /\ ObjectInv(conn, php, t)
    BY <1>2, LibraryAssumption DEF LinkInv
  <2> QED BY <1>2, <1>8, <2>1, SparedObject
<1>13. ShimInv(r.conn, php)
  <2>1. CASE php.driver = "mysqli"
    <3>1. (\A t \in Stmts : ~conn.my[t].broken) /\ conn.lib.owner = None
      BY <1>2, <1>3, <2>1 DEF ShimInv
    <3>2. \A t \in Stmts : ~r.conn.my[t].broken
      BY <1>8, <3>1, LibraryAssumption DEF Spares
    <3>3. ConnOK(conn) /\ ConnOK(r.conn) /\ Ready(conn.lib)
      BY <1>3, <1>7, <3>1 DEF Serves, ConnOK, LibInv, Ready
    <3>4. r.conn.lib.owner = None
      BY <1>8, <3>3, SparesReady
    <3> QED BY <3>2, <3>4 DEF ShimInv
  <2> QED BY <2>1 DEF ShimInv
<1>14. MethodInv(r.conn, php)
  BY <1>2 DEF MethodInv
<1>15. LinkInv(r.conn, php)
  BY <1>3, <1>7, <1>12, <1>13, <1>14 DEF LinkInv
<1> HIDE DEF m
<1> QED BY <1>5, <1>11, <1>15, StepIs

(* The end of query. *)
LEMMA FinishQueryKeeps ==
  ASSUME PhpInv, FinishQuery
  PROVE  PhpInv' /\ Refetches(php, told')
<1> DEFINE s == php.run.stmt
           n == MyliteFinalize(conn, s).conn
           q == [php EXCEPT !.run = NoMethod]
           outcome == Outcome(php.run.rc # "DONE")
           m == Said("query", None, outcome, php.run.ran, php.run.failed, php.run.missing)
<1>1. LinkInv(conn, php) /\ php.run.call = "finalize" /\ conn' = n /\ php' = q /\ told' = m
  BY DEF PhpInv, FinishQuery
<1>2. /\ Serves(conn) /\ php \in PhpType /\ s \in Stmts /\ ObjectInv(conn, php, s)
      /\ ~php.obj[s].live
      /\ php.run.rc \in {"DONE", "ERROR"} /\ (php.run.rc = "DONE" => php.run.missing = 0)
      /\ php.run.rc = "ERROR" => conn.errcode
  BY <1>1 DEF LinkInv, MethodInv
<1>3. Finalizes(conn, s, n)
  BY <1>2, FinalizeServes
<1>4. php.obj[s] \in ObjectType
  BY <1>2 DEF PhpType
<1>5. Only(php, s, php.obj[s], NoMethod, q)
  BY <1>2, <1>4, NoMethodIs, OnlyIs
<1> HIDE DEF s, n, q, outcome
<1>6. /\ Serves(n) /\ Spares(conn, s, n) /\ n.lib.owner # s /\ n.errcode = conn.errcode
      /\ ~n.my[s].live /\ ~n.my[s].executed /\ ~n.my[s].broken
  BY <1>3 DEF Finalizes
<1>7. q.obj[s] = php.obj[s] /\ q.run = NoMethod /\ q.run.call = "none" /\ NoMethod.call = "none"
  BY <1>5, NoMethodIs DEF Only
<1>8. ObjectInv(n, q, s)
  BY <1>2, <1>6, <1>7 DEF ObjectInv, Mine
<1>9. MethodInv(n, q)
  BY <1>7 DEF MethodInv
<1>10. LinkInv(n, q)
  <2>1. RunsFor(php.run, s) /\ RunsFor(NoMethod, s) /\ LeavesShim(php.driver, s, NoMethod, n)
    BY <1>6, <1>7 DEF RunsFor, LeavesShim, s
  <2>2. LinkInv(conn, php) /\ s \in Stmts /\ Serves(n) /\ Spares(conn, s, n)
    BY <1>1, <1>2, <1>6
  <2> QED BY <1>5, <1>8, <1>9, <2>1, <2>2, LinkKeeps
<1>11. /\ outcome \in {"ok", "error"} /\ (outcome = "ok" => php.run.missing = 0)
       /\ outcome = "error" => n.errcode
  BY <1>2, <1>6 DEF Outcome, outcome
<1>12. m.call = "query" /\ m.rc = outcome /\ m.missing = php.run.missing
  BY DEF Said
<1> HIDE DEF m
<1>13. Tells(n, q, m) /\ Refetches(php, m)
  BY <1>11, <1>12 DEF Tells, Refetches
<1> QED BY <1>1, <1>10, <1>13, StepIs
-----------------------------------------------------------------------------
(* A connection that does not change spares every statement. *)
LEMMA SparesSelf ==
  ASSUME NEW c, NEW s
  PROVE  Spares(c, s, c)
BY DEF Spares

(* A statement object that a method may be called on. *)
LEMMA UsableIs ==
  ASSUME PhpInv, NEW s \in Stmts, Usable(s)
  PROVE  /\ LinkInv(conn, php) /\ php.run = NoMethod /\ php.run.call = "none"
         /\ Serves(conn) /\ php \in PhpType /\ php.obj[s] \in ObjectType
         /\ php.obj[s].live /\ ~php.obj[s].old /\ conn.my[s].live /\ ObjectInv(conn, php, s)
         /\ php.driver = "mylite" => MyliteObject(conn, s, php.obj[s])
         /\ php.driver = "pdo" => PdoObject(conn, s, php.obj[s])
         /\ php.driver = "mysqli" => ~conn.my[s].broken /\ Ready(conn.lib)
<1>1. LinkInv(conn, php) /\ php.run = NoMethod /\ php.obj[s].live /\ ~php.obj[s].old
  BY DEF PhpInv, Usable, Idle
<1>2. /\ Serves(conn) /\ php \in PhpType /\ php.run.call = "none" /\ php.obj[s] \in ObjectType
      /\ ObjectInv(conn, php, s) /\ (conn.my[s].live <=> Mine(php, s))
      /\ php.driver = "mysqli" => ~conn.my[s].broken /\ Ready(conn.lib)
  BY <1>1, IdleIs
<1>3. Mine(php, s)
  BY <1>1 DEF Mine
<1> QED BY <1>1, <1>2, <1>3 DEF ObjectInv

(* Call r leaves s ready for the step of an execute. *)
Startable(c, driver, s, r) ==
  /\ r.rc \in {"OK", "ERROR"} /\ Serves(r.conn) /\ Spares(c, s, r.conn) /\ r.conn.my[s].live
  /\ Unrun(r.conn, s) \/ (driver = "pdo" /\ Spent(r.conn, s))
  /\ driver = "mysqli" => r.rc = "OK" /\ ~r.conn.my[s].broken

(* An execute goes on to its step. *)
LEMMA ExecuteStarts ==
  ASSUME PhpInv, NEW s \in Stmts, Usable(s), NEW o \in ObjectType, o.live, ~o.old,
         NEW r, ExecuteOn(s, o, r), Startable(conn, php.driver, s, r)
  PROVE  PhpInv' /\ Refetches(php, told')
<1> DEFINE run == Method("execute", s, Failed(r))
           q == [php EXCEPT !.obj[s] = o, !.run = run]
<1>1. LinkInv(conn, php) /\ php.run = NoMethod /\ php \in PhpType
  BY UsableIs
<1>2. conn' = r.conn /\ php' = q /\ told' = Nothing
  BY DEF ExecuteOn
<1>3. /\ Failed(r) \in BOOLEAN /\ Serves(r.conn) /\ Spares(conn, s, r.conn)
      /\ r.conn.my[s].live /\ (Unrun(r.conn, s) \/ (php.driver = "pdo" /\ Spent(r.conn, s)))
      /\ php.driver = "mysqli" => ~Failed(r) /\ ~r.conn.my[s].broken
  BY DEF Failed, Startable
<1>4. run \in MethodType
  BY <1>3, MethodIs
<1>5. Only(php, s, o, run, q)
  BY <1>1, <1>4, OnlyIs
<1> HIDE DEF q
<1>6. LinkInv(r.conn, q)
  BY <1>1, <1>3, <1>5, MethodStarts
<1>7. Tells(r.conn, q, Nothing) /\ Refetches(php, Nothing)
  BY NothingTells
<1> QED BY <1>2, <1>6, <1>7, StepIs

(* An execute ends before its step. *)
LEMMA ExecuteStops ==
  ASSUME PhpInv, NEW s \in Stmts, Usable(s), NEW call \in {"execute", "bind"}, NEW r,
         ExecuteRefused(s, call, r), call = "execute" => r.conn.errcode, php.driver # "mysqli",
         Serves(r.conn), Spares(conn, s, r.conn), ObjectInv(r.conn, php, s)
  PROVE  PhpInv' /\ Refetches(php, told')
<1> DEFINE m == Said(call, None, "error", FALSE, TRUE, 0)
<1>1. LinkInv(conn, php) /\ php.run = NoMethod /\ php \in PhpType
  BY UsableIs
<1>2. conn' = r.conn /\ php' = php /\ told' = m
  BY DEF ExecuteRefused
<1>3. Only(php, s, php.obj[s], php.run, php)
  BY <1>1 DEF Only
<1>4. LinkInv(r.conn, php)
  BY <1>1, <1>3, RestKeeps
<1>5. Tells(r.conn, php, m) /\ Refetches(php, m)
  BY PlainTells
<1> HIDE DEF m
<1> QED BY <1>2, <1>4, <1>5, StepIs

(* The call that is not made when there is nothing to reset. *)
LEMMA NotResetIs ==
  ASSUME NEW c, NEW s
  PROVE  NotReset(c).conn = c /\ NotReset(c).rc = "OK" /\ Spares(c, s, NotReset(c).conn)
BY SparesSelf DEF NotReset, Result

(* Statement::execute of the native extension. *)
LEMMA MyliteExecuteKeeps ==
  ASSUME PhpInv, NEW s \in Stmts, MyliteExecute(s)
  PROVE  PhpInv' /\ Refetches(php, told')
<1> DEFINE o == php.obj[s]
<1>1. php.driver = "mylite" /\ Usable(s)
  BY DEF MyliteExecute
<1>2. /\ Serves(conn) /\ o \in ObjectType /\ o.live /\ ~o.old /\ conn.my[s].live
      /\ ObjectInv(conn, php, s) /\ MyliteObject(conn, s, o) /\ php.run.call = "none"
  BY <1>1, UsableIs
<1>3. CASE o.step \in {"ROW", "DONE"}
  <2> DEFINE r == MyliteReset(conn, s)
  <2>1. AfterMyliteReset(s, r)
    BY <1>3 DEF MyliteExecute
  <2>2. Resets(conn, s, r)
    BY <1>2, ResetServes
  <2> HIDE DEF r
  <2>3. /\ Serves(r.conn) /\ Spares(conn, s, r.conn) /\ r.rc \in {"OK", "ERROR"}
        /\ r.conn.my[s].live /\ ~r.conn.my[s].has_result
        /\ r.rc = "OK" => ~r.conn.my[s].executed
        /\ r.rc = "ERROR" => /\ r.conn.errcode /\ r.conn.my[s].broken
                             /\ r.conn.my[s].executed = conn.my[s].executed
    BY <1>2, <2>2 DEF Resets
  <2>4. CASE r.rc = "OK"
    <3>1. ExecuteOn(s, o, r)
      BY <2>1, <2>4 DEF AfterMyliteReset, Failed
    <3>2. Startable(conn, php.driver, s, r)
      BY <1>1, <2>3, <2>4 DEF Unrun, Startable
    <3> QED BY <1>1, <1>2, <3>1, <3>2, ExecuteStarts
  <2>5. CASE r.rc = "ERROR"
    <3>1. ExecuteRefused(s, "execute", r)
      BY <2>1, <2>5 DEF AfterMyliteReset, Failed
    <3>2. MyliteObject(r.conn, s, o)
      BY <1>2, <1>3, <2>3, <2>5 DEF MyliteObject, Reads, Spent, Settled
    <3>3. ObjectInv(r.conn, php, s)
      BY <1>1, <1>2, <2>3, <3>2 DEF ObjectInv
    <3> QED BY <1>1, <2>3, <2>5, <3>1, <3>3, ExecuteStops
  <2> QED BY <2>3, <2>4, <2>5
<1>4. CASE o.step \notin {"ROW", "DONE"}
  <2> DEFINE r == NotReset(conn)
  <2>1. r.conn = conn /\ r.rc = "OK" /\ Spares(conn, s, r.conn)
    BY NotResetIs
  <2>2. AfterMyliteReset(s, r)
    BY <1>4 DEF MyliteExecute
  <2> HIDE DEF r
  <2>3. ExecuteOn(s, o, r)
    BY <2>1, <2>2 DEF AfterMyliteReset, Failed
  <2>4. o.step = "ERROR"
    BY <1>2, <1>4 DEF ObjectType
  <2>5. Startable(conn, php.driver, s, r)
    BY <1>1, <1>2, <2>1, <2>4 DEF MyliteObject, Startable
  <2> QED BY <1>1, <1>2, <2>3, <2>5, ExecuteStarts
<1> QED BY <1>3, <1>4

(* PDOStatement::execute. *)
LEMMA PdoExecuteKeeps ==
  ASSUME PhpInv, NEW s \in Stmts, PdoExecute(s)
  PROVE  PhpInv' /\ Refetches(php, told')
<1> DEFINE o == [php.obj[s] EXCEPT !.prefetched = FALSE, !.done = FALSE]
<1>1. php.driver = "pdo" /\ Usable(s)
  BY DEF PdoExecute
<1>2. /\ Serves(conn) /\ php.obj[s] \in ObjectType /\ php.obj[s].live /\ ~php.obj[s].old
      /\ conn.my[s].live /\ ObjectInv(conn, php, s) /\ PdoObject(conn, s, php.obj[s])
  BY <1>1, UsableIs
<1>3. o \in ObjectType /\ o.live /\ ~o.old
  BY <1>2 DEF ObjectType
<1> HIDE DEF o
<1>4. CASE php.obj[s].params /\ conn.my[s].executed
  <2> DEFINE r == Result(conn, "MISUSE", FALSE)
  <2>1. ExecuteRefused(s, "bind", r)
    BY <1>4 DEF PdoExecute
  <2>2. r.conn = conn
    BY DEF Result
  <2> HIDE DEF r
  <2>3. Serves(r.conn) /\ Spares(conn, s, r.conn) /\ ObjectInv(r.conn, php, s)
    BY <1>2, <2>2, SparesSelf
  <2>4. php.driver # "mysqli"
    BY <1>1
  <2> QED BY <1>1, <2>1, <2>3, <2>4, ExecuteStops
<1>5. CASE ~(php.obj[s].params /\ conn.my[s].executed) /\ php.obj[s].executed
  <2> DEFINE r == MyliteReset(conn, s)
  <2>1. ExecuteOn(s, o, r)
    BY <1>5 DEF PdoExecute, o
  <2>2. Resets(conn, s, r)
    BY <1>2, ResetServes
  <2> HIDE DEF r
  <2>3. /\ Serves(r.conn) /\ Spares(conn, s, r.conn) /\ r.rc \in {"OK", "ERROR"}
        /\ r.conn.my[s].live /\ ~r.conn.my[s].has_result
        /\ r.rc = "OK" => ~r.conn.my[s].executed
        /\ r.rc = "ERROR" => r.conn.my[s].broken
    BY <1>2, <2>2 DEF Resets
  <2>4. Unrun(r.conn, s) \/ Spent(r.conn, s)
    BY <2>3 DEF Unrun, Spent
  <2>5. Startable(conn, php.driver, s, r)
    BY <1>1, <2>3, <2>4 DEF Startable
  <2> QED BY <1>1, <1>3, <2>1, <2>5, ExecuteStarts
<1>6. CASE ~(php.obj[s].params /\ conn.my[s].executed) /\ ~php.obj[s].executed
  <2> DEFINE r == NotReset(conn)
  <2>1. r.conn = conn /\ r.rc = "OK" /\ Spares(conn, s, r.conn)
    BY NotResetIs
  <2>2. ExecuteOn(s, o, r)
    BY <1>6 DEF PdoExecute, o
  <2> HIDE DEF r
  <2>3. Unrun(conn, s) \/ Spent(conn, s)
    BY <1>2, <1>6 DEF PdoObject
  <2>4. Startable(conn, php.driver, s, r)
    BY <1>1, <1>2, <2>1, <2>3 DEF Startable
  <2> QED BY <1>1, <1>3, <2>2, <2>4, ExecuteStarts
<1> QED BY <1>4, <1>5, <1>6

(* mysqli_stmt::execute: the shim has left nothing that the reset could trip over. *)
LEMMA MysqliExecuteKeeps ==
  ASSUME PhpInv, NEW s \in Stmts, MysqliExecute(s)
  PROVE  PhpInv' /\ Refetches(php, told')
<1> DEFINE o == [php.obj[s] EXCEPT !.has_rows = FALSE]
           r == MyliteReset(conn, s)
<1>1. php.driver = "mysqli" /\ Usable(s) /\ AfterMysqliReset(s, r)
  BY DEF MysqliExecute
<1>2. /\ Serves(conn) /\ php.obj[s] \in ObjectType /\ php.obj[s].live /\ ~php.obj[s].old
      /\ conn.my[s].live /\ ~conn.my[s].broken /\ Ready(conn.lib)
  BY <1>1, UsableIs
<1>3. o \in ObjectType /\ o.live /\ ~o.old
  BY <1>2 DEF ObjectType
<1>4. Resets(conn, s, r)
  BY <1>2, ResetServes
<1> HIDE DEF r
<1>5. /\ Serves(r.conn) /\ Spares(conn, s, r.conn) /\ r.rc = "OK"
      /\ r.conn.my[s].live /\ ~r.conn.my[s].executed /\ ~r.conn.my[s].broken
  BY <1>2, <1>4 DEF Resets
<1>6. ExecuteOn(s, o, r)
  BY <1>1, <1>5 DEF AfterMysqliReset
<1>7. Startable(conn, php.driver, s, r)
  BY <1>5 DEF Startable, Unrun
<1> HIDE DEF o
<1> QED BY <1>1, <1>3, <1>6, <1>7, ExecuteStarts
-----------------------------------------------------------------------------
(* The outcomes of a step. *)
IsStep(r) == r.rc \in {"ROW", "DONE", "ERROR"}

(* The object x that o has become in an execute whose last step was r. *)
ExecutedAs(driver, o, r, m, x) ==
  /\ x \in ObjectType /\ x.live = o.live /\ x.old = o.old
  /\ driver = "mylite" => x.step = r.rc /\ x.missing = m
  /\ driver = "pdo" => /\ x.step = r.rc /\ x.missing = m
                       /\ x.prefetched = (r.rc = "ROW") /\ x.done = (r.rc = "DONE")
                       /\ r.rc # "ERROR" => x.executed

(* It is the one the model names. *)
LEMMA ExecutedObjectIs ==
  ASSUME php \in PhpType, NEW o \in ObjectType, NEW r, IsStep(r), NEW m \in Nat
  PROVE  ExecutedAs(php.driver, o, r, m, ExecutedObject(o, r, m))
<1> DEFINE x == ExecutedObject(o, r, m)
<1>1. php.driver \in {"mylite", "pdo", "mysqli"} /\ r.rc \in {"ROW", "DONE", "ERROR"}
  BY DEF PhpType, IsStep
<1>2. CASE php.driver = "mylite"
  <2>1. x = [o EXCEPT !.step = r.rc, !.missing = m]
    BY <1>2 DEF ExecutedObject
  <2> HIDE DEF x
  <2>2. x \in ObjectType /\ x.live = o.live /\ x.old = o.old /\ x.step = r.rc /\ x.missing = m
    BY <1>1, <2>1 DEF ObjectType
  <2>3. php.driver # "pdo"
    BY <1>2
  <2> QED BY <2>2, <2>3 DEF x, ExecutedAs
<1>3. CASE php.driver = "pdo"
  <2>1. x = [o EXCEPT !.step = r.rc, !.prefetched = r.rc = "ROW", !.done = r.rc = "DONE",
                      !.executed = @ \/ ~Failed(r), !.missing = m]
    BY <1>3 DEF ExecutedObject
  <2> HIDE DEF x
  <2>2. /\ x \in ObjectType /\ x.live = o.live /\ x.old = o.old /\ x.step = r.rc
        /\ x.missing = m /\ x.prefetched = (r.rc = "ROW") /\ x.done = (r.rc = "DONE")
        /\ x.executed = (o.executed \/ ~Failed(r))
    BY <1>1, <2>1 DEF ObjectType
  <2>3. r.rc # "ERROR" => x.executed
    BY <1>1, <2>2 DEF Failed
  <2>4. php.driver # "mylite"
    BY <1>3
  <2> QED BY <2>2, <2>3, <2>4 DEF x, ExecutedAs
<1>4. CASE php.driver = "mysqli"
  <2>1. x = [o EXCEPT !.has_rows = ~Failed(r) /\ conn.my[php.run.stmt].select]
    BY <1>4 DEF ExecutedObject
  <2> HIDE DEF x
  <2>2. x \in ObjectType /\ x.live = o.live /\ x.old = o.old
    BY <1>1, <2>1 DEF ObjectType
  <2>3. php.driver # "mylite" /\ php.driver # "pdo"
    BY <1>4
  <2> QED BY <2>2, <2>3 DEF x, ExecutedAs
<1> QED BY <1>1, <1>2, <1>3, <1>4

(* A method after step r of it, and whether on is that. *)
NextMethod(run, r, left) ==
  [run EXCEPT !.rc = r.rc, !.ran = @ \/ r.ran, !.failed = @ \/ Failed(r), !.missing = left]
SteppedAs(run, r, left, on) ==
  /\ on \in MethodType /\ on.call = run.call /\ on.stmt = run.stmt /\ on.rc = r.rc
  /\ on.ran <=> run.ran \/ r.ran
  /\ on.failed <=> run.failed \/ r.rc = "ERROR"
  /\ on.missing = left

(* It is that. *)
LEMMA SteppedMethod ==
  ASSUME NEW run \in MethodType, NEW r, IsStep(r), NEW left \in Nat
  PROVE  SteppedAs(run, r, left, NextMethod(run, r, left))
<1> DEFINE on == NextMethod(run, r, left)
<1>1. on.failed <=> run.failed \/ r.rc = "ERROR"
  BY DEF MethodType, Failed, NextMethod, IsStep
<1>2. /\ on \in MethodType /\ on.call = run.call /\ on.stmt = run.stmt /\ on.rc = r.rc
      /\ on.missing = left
  BY DEF MethodType, NextMethod, IsStep
<1>3. on.ran <=> run.ran \/ r.ran
  BY DEF MethodType, NextMethod
<1> QED BY <1>1, <1>2, <1>3 DEF SteppedAs

(* What holds of a method in progress and its statement. *)
LEMMA MethodFacts ==
  ASSUME NEW c, NEW p, LinkInv(c, p), p.run.call \in {"query", "execute"}
  PROVE  LET s == p.run.stmt
         IN /\ p \in PhpType /\ p.run \in MethodType /\ s \in Stmts /\ p.obj[s] \in ObjectType
            /\ c.my[s].live /\ ~p.obj[s].old
            /\ p.run.call = "query" => ~p.obj[s].live /\ p.driver # "pdo"
            /\ p.run.call = "execute" => p.obj[s].live
            /\ p.driver = "mysqli" => ~p.run.failed /\ ~c.my[s].broken
<1> DEFINE s == p.run.stmt
<1>1. /\ p \in PhpType /\ s \in Stmts /\ ObjectInv(c, p, s) /\ ShimInv(c, p)
      /\ p.run.call = "query" => ~p.obj[s].live /\ p.driver # "pdo"
      /\ p.run.call = "execute" => Mine(p, s)
      /\ p.driver = "mysqli" => ~p.run.failed
  BY DEF LinkInv, MethodInv
<1>2. p.run \in MethodType /\ p.obj[s] \in ObjectType
  BY <1>1 DEF PhpType
<1>3. c.my[s].live /\ ~p.obj[s].old /\ (p.run.call = "execute" => p.obj[s].live)
  BY <1>1 DEF ObjectInv, Mine
<1>4. p.driver = "mysqli" => ~c.my[s].broken
  BY <1>1 DEF ShimInv
<1> QED BY <1>1, <1>2, <1>3, <1>4

(* A step that reads a row of a method that reads them all. *)
LEMMA StepGoesOn ==
  ASSUME NEW c, NEW p, LinkInv(c, p), p.run.call \in {"query", "execute"},
         p.run.call = "query" \/ p.driver = "mysqli",
         NEW on \in MethodType, on.call = p.run.call, on.stmt = p.run.stmt, on.rc = "ROW",
         on.ran, on.failed <=> p.run.failed,
         NEW r, NEW m, StepsTo(c, p.run.stmt, p.run.ran, r, m), r.rc = "ROW", on.missing = m - 1
  PROVE  LinkInv(r.conn, [p EXCEPT !.run = on])
<1> DEFINE s == p.run.stmt
           n == r.conn
           q == [p EXCEPT !.run = on]
<1>1. /\ p \in PhpType /\ s \in Stmts /\ p.obj[s] \in ObjectType
      /\ c.my[s].live /\ ~p.obj[s].old
      /\ p.run.call = "query" => ~p.obj[s].live /\ p.driver # "pdo"
      /\ p.run.call = "execute" => p.obj[s].live
      /\ p.driver = "mysqli" => ~p.run.failed /\ ~c.my[s].broken
  BY MethodFacts
<1>2. Only(p, s, p.obj[s], on, q)
  BY <1>1, OnlyIs
<1>3. on.stmt = s /\ p.run.stmt = s
  OBVIOUS
<1> HIDE DEF q, s
<1>4. q.driver = p.driver /\ q.run = on /\ q.obj[s] = p.obj[s]
  BY <1>2 DEF Only
<1>5. /\ Serves(n) /\ Spares(c, s, n) /\ n.my[s].live /\ n.my[s].broken = c.my[s].broken
      /\ n.my[s].executed /\ n.lib.owner = s /\ ~n.my[s].disturbed /\ m = n.my[s].left + 1
  BY <1>1, <1>3 DEF StepsTo
<1>6. n.my[s].left \in Nat
  BY <1>1, <1>5 DEF Serves, ConnOK, StmtType
<1>7. on.missing = n.my[s].left
  BY <1>5, <1>6, SMT
<1> HIDE DEF n
<1>8. ObjectInv(n, q, s)
  BY <1>1, <1>3, <1>4, <1>5 DEF ObjectInv, Mine
<1>9. ReadsOn(n, q)
  BY <1>3, <1>4, <1>5, <1>7 DEF ReadsOn
<1>10. MethodInv(n, q)
  BY <1>1, <1>3, <1>4, <1>9 DEF MethodInv, Mine
<1>11. RunsFor(p.run, s) /\ RunsFor(on, s) /\ LeavesShim(p.driver, s, on, n)
  BY <1>1, <1>3, <1>5 DEF RunsFor, LeavesShim
<1>12. Serves(n) /\ Spares(c, s, n)
  BY <1>5
<1>13. LinkInv(n, q)
  BY <1>1, <1>2, <1>8, <1>10, <1>11, <1>12, LinkKeeps
<1> QED BY <1>13 DEF n, q

(* The last step of a query. *)
LEMMA StepFinalizes ==
  ASSUME NEW c, NEW p, LinkInv(c, p), p.run.call = "query",
         NEW end \in MethodType, end.call = "finalize", end.stmt = p.run.stmt,
         NEW r, NEW m, StepsTo(c, p.run.stmt, p.run.ran, r, m), r.rc # "ROW",
         end.rc = r.rc, end.missing = m
  PROVE  LinkInv(r.conn, [p EXCEPT !.run = end])
<1> DEFINE s == p.run.stmt
           n == r.conn
           q == [p EXCEPT !.run = end]
<1>1. /\ p \in PhpType /\ s \in Stmts /\ p.obj[s] \in ObjectType
      /\ c.my[s].live /\ ~p.obj[s].old /\ ~p.obj[s].live /\ p.driver # "pdo"
      /\ p.driver = "mysqli" => ~c.my[s].broken
  BY MethodFacts
<1>2. Only(p, s, p.obj[s], end, q)
  BY <1>1, OnlyIs
<1>3. end.stmt = s /\ p.run.stmt = s
  OBVIOUS
<1> HIDE DEF q, s
<1>4. q.driver = p.driver /\ q.run = end /\ q.obj[s] = p.obj[s]
  BY <1>2 DEF Only
<1>5. /\ Serves(n) /\ Spares(c, s, n) /\ n.my[s].live /\ n.my[s].broken = c.my[s].broken
      /\ r.rc \in {"DONE", "ERROR"} /\ (r.rc = "DONE" => m = 0) /\ (r.rc = "ERROR" => n.errcode)
  BY <1>1, <1>3 DEF StepsTo
<1> HIDE DEF n
<1>6. ObjectInv(n, q, s)
  BY <1>1, <1>3, <1>4, <1>5 DEF ObjectInv, Mine
<1>7. MethodInv(n, q)
  BY <1>1, <1>3, <1>4, <1>5 DEF MethodInv
<1>8. RunsFor(p.run, s) /\ RunsFor(end, s) /\ LeavesShim(p.driver, s, end, n)
  BY <1>1, <1>3, <1>5 DEF RunsFor, LeavesShim
<1>9. Serves(n) /\ Spares(c, s, n)
  BY <1>5
<1>10. LinkInv(n, q)
  BY <1>1, <1>2, <1>6, <1>7, <1>8, <1>9, LinkKeeps
<1> QED BY <1>10 DEF n, q

(* The last step of an execute. *)
LEMMA StepEnds ==
  ASSUME LinkInv(conn, php), php.run.call = "execute", NEW r, NEW m \in Nat,
         StepsTo(conn, php.run.stmt, php.run.ran, r, m),
         php.driver = "mysqli" => r.rc # "ROW",
         php.driver # "mysqli" /\ r.rc = "ERROR" =>
           Unrun(r.conn, php.run.stmt) /\ (r.conn.my[php.run.stmt].broken \/ m = 0)
  PROVE  LinkInv(r.conn, [php EXCEPT !.obj[php.run.stmt] =
                            ExecutedObject(php.obj[php.run.stmt], r, m), !.run = NoMethod])
<1> DEFINE s == php.run.stmt
           n == r.conn
           o == php.obj[s]
           x == ExecutedObject(o, r, m)
           q == [php EXCEPT !.obj[s] = x, !.run = NoMethod]
<1>1. /\ php \in PhpType /\ s \in Stmts /\ o \in ObjectType
      /\ conn.my[s].live /\ ~o.old /\ o.live
      /\ php.driver = "mysqli" => ~conn.my[s].broken
  BY MethodFacts
<1>2. r.rc \in {"ROW", "DONE", "ERROR"} /\ IsStep(r)
  BY DEF StepsTo, IsStep
<1>3. ExecutedAs(php.driver, o, r, m, x)
  BY <1>1, <1>2, ExecutedObjectIs
<1> HIDE DEF x, o
<1>4. /\ x \in ObjectType /\ x.live = o.live /\ x.old = o.old
      /\ php.driver = "mylite" => x.step = r.rc /\ x.missing = m
      /\ php.driver = "pdo" => /\ x.step = r.rc /\ x.missing = m
                               /\ x.prefetched = (r.rc = "ROW") /\ x.done = (r.rc = "DONE")
                               /\ r.rc # "ERROR" => x.executed
  BY <1>3 DEF ExecutedAs
<1>5. Only(php, s, x, NoMethod, q)
  BY <1>1, <1>4, NoMethodIs, OnlyIs
<1>6. php.run.stmt = s
  OBVIOUS
<1> HIDE DEF q, s
<1>7. q.driver = php.driver /\ q.run = NoMethod /\ q.run.call = "none" /\ q.obj[s] = x
  BY <1>5, NoMethodIs DEF Only
<1>8. /\ Serves(n) /\ Spares(conn, s, n) /\ n.my[s].live /\ n.my[s].broken = conn.my[s].broken
      /\ r.rc = "ROW" => n.my[s].executed /\ n.lib.owner = s /\ m >= 1 /\ m = n.my[s].left + 1
      /\ r.rc = "DONE" => n.lib.owner # s /\ m = 0
      /\ r.rc = "ERROR" => conn.my[s].broken \/ n.lib.owner # s
  BY <1>1, <1>6 DEF StepsTo
<1>9. php.driver # "mysqli" /\ r.rc = "ERROR" => Unrun(n, s) /\ (n.my[s].broken \/ m = 0)
  BY <1>6
<1> HIDE DEF n
<1>10. r.rc = "ROW" => Reads(n, s, m, 1)
  BY <1>8 DEF Reads
<1>11. r.rc = "DONE" \/ (r.rc = "ERROR" /\ php.driver # "mysqli") => Settled(n, s, m)
  BY <1>8, <1>9 DEF Settled
<1>12. php.driver = "mylite" => MyliteObject(n, s, x)
  BY <1>2, <1>4, <1>9, <1>10, <1>11 DEF MyliteObject
<1>13. php.driver = "pdo" => PdoObject(n, s, x)
  BY <1>2, <1>4, <1>9, <1>10, <1>11 DEF PdoObject
<1>14. ObjectInv(n, q, s)
  BY <1>1, <1>4, <1>7, <1>8, <1>12, <1>13 DEF ObjectInv, Mine
<1>15. MethodInv(n, q)
  BY <1>7 DEF MethodInv
<1>16. RunsFor(php.run, s) /\ RunsFor(NoMethod, s)
  BY <1>6, NoMethodIs DEF RunsFor
<1>17. LeavesShim(php.driver, s, NoMethod, n)
  BY <1>1, <1>2, <1>8 DEF LeavesShim
<1>18. Serves(n) /\ Spares(conn, s, n)
  BY <1>8
<1>19. LinkInv(n, q)
  BY <1>1, <1>5, <1>14, <1>15, <1>16, <1>17, <1>18, LinkKeeps
<1> QED BY <1>19 DEF n, q, x, o, s

(* What an execute tells at its end. *)
LEMMA ExecuteTells ==
  ASSUME NEW c, NEW p, NEW s, NEW q, NEW rc \in {"ok", "error"}, NEW ran, NEW failed, NEW missing,
         rc = "ok" => missing = 0 /\ (ran \/ (p.driver = "pdo" /\ c.my[s].broken)),
         rc = "ok" /\ p.driver = "mysqli" => ~failed, rc = "error" => c.errcode
  PROVE  LET m == Said("execute", s, rc, ran, failed, missing) IN Tells(c, p, m) /\ Refetches(q, m)
<1> DEFINE m == Said("execute", s, rc, ran, failed, missing)
<1>1. /\ m.call = "execute" /\ m.stmt = s /\ m.rc = rc /\ m.ran = ran
      /\ m.failed = failed /\ m.missing = missing
  BY DEF Said
<1> HIDE DEF m
<1>2. Tells(c, p, m)
  BY <1>1 DEF Tells
<1>3. Refetches(q, m)
  BY <1>1 DEF Refetches
<1> QED BY <1>2, <1>3 DEF m

(* A step of query, or of an execute of the three packages. *)
LEMMA StepMethodKeeps ==
  ASSUME PhpInv, StepMethod
  PROVE  PhpInv' /\ Refetches(php, told')
<1> DEFINE run == php.run
           s == run.stmt
           all == run.call = "query" \/ php.driver = "mysqli"
<1>1. PICK reply \in ReplyTo(s) : Stepped(run, all, reply, MyliteStep(conn, s, reply))
  BY DEF StepMethod
<1> DEFINE r == MyliteStep(conn, s, reply)
           m == Missing(run.missing, r, reply)
           left == IF all THEN Given(m, r) ELSE m
           on == NextMethod(run, r, left)
           end == [on EXCEPT !.call = "finalize"]
<1>2. LinkInv(conn, php) /\ run.call \in {"query", "execute"}
  BY DEF PhpInv, StepMethod
<1>3. /\ php \in PhpType /\ run \in MethodType
      /\ php.driver = "mysqli" => ~run.failed
  BY <1>2, MethodFacts
<1>4. /\ StepsTo(conn, s, run.ran, r, m)
      /\ run.rc = "OK" /\ r.rc = "ERROR" =>
           Unrun(r.conn, s) /\ (r.conn.my[s].broken \/ m = 0)
      /\ run.rc # "OK" => all
      /\ r.rc # "ERROR" => run.ran \/ r.ran \/ (php.driver = "pdo" /\ r.conn.my[s].broken)
  BY <1>1, <1>2, MethodStep
<1>5. /\ conn' = r.conn
      /\ all /\ r.rc = "ROW" => php' = [php EXCEPT !.run = on] /\ told' = Nothing
      /\ ~(all /\ r.rc = "ROW") /\ run.call = "query" =>
           php' = [php EXCEPT !.run = end] /\ told' = Nothing
      /\ ~(all /\ r.rc = "ROW") /\ run.call # "query" =>
           /\ php' = [php EXCEPT !.obj[s] = ExecutedObject(php.obj[s], r, on.missing),
                                 !.run = NoMethod]
           /\ told' = Said("execute", s, Outcome(Failed(r)), on.ran, on.failed,
                           IF all THEN on.missing ELSE 0)
  BY <1>1 DEF Stepped, NextMethod
<1> HIDE DEF r, m
<1>6. /\ r.rc \in {"ROW", "DONE", "ERROR"} /\ m \in Nat /\ (r.rc = "ROW" => m - 1 \in Nat)
      /\ r.rc = "ROW" => run.ran \/ r.ran
      /\ r.rc = "DONE" => m = 0
      /\ r.rc = "ERROR" => r.conn.errcode
  BY <1>4 DEF StepsTo
<1>7. left = (IF all /\ r.rc = "ROW" THEN m - 1 ELSE m) /\ left \in Nat
  BY <1>6 DEF Given
<1> HIDE DEF left
<1>8. SteppedAs(run, r, left, on)
  <2>1. run \in MethodType /\ IsStep(r) /\ left \in Nat
    BY <1>3, <1>6, <1>7 DEF IsStep
  <2> QED BY <2>1, SteppedMethod
<1> HIDE DEF on
<1>9. /\ on \in MethodType /\ on.call = run.call /\ on.stmt = s /\ on.rc = r.rc
      /\ on.ran <=> run.ran \/ r.ran
      /\ on.failed <=> run.failed \/ r.rc = "ERROR"
      /\ on.missing = left
  BY <1>8 DEF SteppedAs
<1>10. /\ end \in MethodType /\ end.call = "finalize" /\ end.stmt = s
       /\ end.rc = r.rc /\ end.missing = left
  BY <1>9 DEF MethodType
<1> HIDE DEF end
<1>11. CASE all /\ r.rc = "ROW"
  <2>1. /\ on.rc = "ROW" /\ on.ran /\ (on.failed <=> run.failed) /\ on.missing = m - 1
    BY <1>6, <1>7, <1>9, <1>11
  <2>2. LinkInv(r.conn, [php EXCEPT !.run = on])
    BY <1>2, <1>4, <1>9, <1>11, <2>1, StepGoesOn
  <2>3. Tells(r.conn, [php EXCEPT !.run = on], Nothing) /\ Refetches(php, Nothing)
    BY NothingTells
  <2> QED BY <1>5, <1>11, <2>2, <2>3, StepIs
<1>12. CASE ~(all /\ r.rc = "ROW") /\ run.call = "query"
  <2>1. r.rc # "ROW" /\ end.missing = m
    BY <1>7, <1>10, <1>12
  <2>2. LinkInv(r.conn, [php EXCEPT !.run = end])
    BY <1>2, <1>4, <1>10, <1>12, <2>1, StepFinalizes
  <2>3. Tells(r.conn, [php EXCEPT !.run = end], Nothing) /\ Refetches(php, Nothing)
    BY NothingTells
  <2> QED BY <1>5, <1>12, <2>2, <2>3, StepIs
<1>13. CASE ~(all /\ r.rc = "ROW") /\ run.call = "execute"
  <2> DEFINE q == [php EXCEPT !.obj[s] = ExecutedObject(php.obj[s], r, m), !.run = NoMethod]
             outcome == Outcome(Failed(r))
             missing == IF all THEN on.missing ELSE 0
             told1 == Said("execute", s, outcome, on.ran, on.failed, missing)
  <2>1. on.missing = m /\ (all <=> php.driver = "mysqli")
    BY <1>7, <1>9, <1>13
  <2>2. conn' = r.conn /\ php' = q /\ told' = told1
    BY <1>5, <1>13, <2>1
  <2>3. LinkInv(r.conn, q)
    <3>1. /\ php.driver = "mysqli" => r.rc # "ROW"
          /\ php.driver # "mysqli" /\ r.rc = "ERROR" =>
               Unrun(r.conn, s) /\ (r.conn.my[s].broken \/ m = 0)
      BY <1>4, <1>13, <2>1
    <3> QED BY <1>2, <1>4, <1>6, <1>13, <3>1, StepEnds
  <2>4. q.driver = php.driver
    BY <1>3 DEF PhpType
  <2>5. outcome \in {"ok", "error"} /\ (outcome = "error" <=> r.rc = "ERROR")
    BY <1>6 DEF Outcome, Failed
  <2>6. outcome = "ok" => r.rc # "ERROR" /\ (all => r.rc = "DONE")
    BY <1>6, <1>13, <2>5
  <2>7. /\ outcome = "ok" => missing = 0
        /\ outcome = "ok" => on.ran \/ (q.driver = "pdo" /\ r.conn.my[s].broken)
        /\ outcome = "ok" /\ q.driver = "mysqli" => ~on.failed
        /\ outcome = "error" => r.conn.errcode
    BY <1>3, <1>4, <1>6, <1>9, <2>1, <2>4, <2>5, <2>6
  <2> HIDE DEF q, outcome, missing
  <2>8. Tells(r.conn, q, told1) /\ Refetches(php, told1)
    BY <2>5, <2>7, ExecuteTells
  <2> HIDE DEF told1
  <2> QED BY <2>2, <2>3, <2>8, StepIs
<1> QED BY <1>2, <1>11, <1>12, <1>13
=============================================================================
