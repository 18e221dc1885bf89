------------------------ MODULE PhpExtensionsProofs ------------------------
(***************************************************************************)
(* The theorems about PhpExtensions.  First the other methods: fetch and    *)
(* closeCursor, the destructors, close and connect.                         *)
(***************************************************************************)
EXTENDS PhpExecuteProofs

(* Leaves that name no prover are left to Zenon. *)
USE Zenon

(* What a fetch may tell. *)
LEMMA FetchTells ==
  ASSUME NEW c, NEW p, NEW s, NEW q, NEW rc \in {"row", "end", "error"}, NEW ran, NEW failed,
         NEW missing, rc = "end" => missing = 0, rc = "error" => c.errcode,
         ran => q.obj[s].step = "ERROR"
  PROVE  LET m == Said("fetch", s, rc, ran, failed, missing) IN Tells(c, p, m) /\ Refetches(q, m)
<1> DEFINE m == Said("fetch", s, rc, ran, failed, missing)
<1>1. m.call = "fetch" /\ m.stmt = s /\ m.rc = rc /\ m.ran = ran /\ m.missing = missing
  BY DEF Said
<1> HIDE DEF m
<1>2. Tells(c, p, m)
  BY <1>1 DEF Tells
<1>3. Refetches(q, m)
  BY <1>1 DEF Refetches
<1> QED BY <1>2, <1>3 DEF m

(* A statement and its object after a fetch. *)
RestsWith(c, driver, s, o, n) ==
  /\ o \in ObjectType /\ o.live /\ ~o.old
  /\ Serves(n) /\ Spares(c, s, n) /\ n.my[s].live
  /\ driver = "mylite" => MyliteObject(n, s, o)
  /\ driver = "pdo" => PdoObject(n, s, o)

(* A fetch ends. *)
LEMMA FetchedKeeps ==
  ASSUME PhpInv, NEW s \in Stmts, Usable(s), php.driver # "mysqli",
         NEW n, NEW o, NEW m, Fetched(s, n, o, m), RestsWith(conn, php.driver, s, o, n),
         \A p : Tells(n, p, m), Refetches(php, m)
  PROVE  PhpInv' /\ Refetches(php, told')
<1> DEFINE q == [php EXCEPT !.obj[s] = o]
<1>1. LinkInv(conn, php) /\ php.run = NoMethod /\ php \in PhpType /\ php.run.call = "none"
  BY UsableIs
<1>2. conn' = n /\ php' = q /\ told' = m
  BY DEF Fetched
<1>3. /\ o \in ObjectType /\ o.live /\ ~o.old
      /\ Serves(n) /\ Spares(conn, s, n) /\ n.my[s].live
      /\ php.driver = "mylite" => MyliteObject(n, s, o)
      /\ php.driver = "pdo" => PdoObject(n, s, o)
  BY DEF RestsWith
<1>4. Only(php, s, o, php.run, q)
  BY <1>1, <1>3, NoMethodIs, OnlyIs
<1> HIDE DEF q
<1>5. q.driver = php.driver /\ q.obj[s] = o /\ q.run.call = "none"
  BY <1>1, <1>4 DEF Only
<1>6. ObjectInv(n, q, s)
  BY <1>3, <1>5 DEF ObjectInv, Mine
<1>7. LinkInv(n, q)
  BY <1>1, <1>3, <1>4, <1>6, RestKeeps
<1> QED BY <1>2, <1>7, StepIs

(* Rows that are settled are not owed. *)
LEMMA SettledOwes ==
  ASSUME NEW s, NEW o, Settled(conn, s, o.missing)
  PROVE  Owed(s, o) = 0
BY DEF Settled, Owed

(* The step of fetchAssociative to the row after the one it gives. *)
LEMMA LookAhead ==
  ASSUME NEW c, Serves(c), NEW s \in Stmts, NEW reply, NEW r, Asks(c, s, reply, r),
         NEW k \in Nat, Reads(c, s, k, 1), c.my[s].live
  PROVE  /\ ~r.ran /\ k - 1 \in Nat /\ r.conn.my[s].live
         /\ r.rc = "ROW" => Reads(r.conn, s, k - 1, 1)
         /\ r.rc # "ROW" => Settled(r.conn, s, k - 1)
         /\ r.rc = "ERROR" => Unrun(r.conn, s)
<1> DEFINE n == r.conn
<1>1. /\ c.my[s].executed /\ k >= 1
      /\ Spent(c, s) \/ (c.lib.owner = s /\ k = c.my[s].left + 1)
  BY DEF Reads
<1>2. k - 1 \in Nat
  BY <1>1, SMT
<1>3. CASE Spent(c, s)
  <2>1. r.rc = "DONE" /\ ~r.ran /\ n.my = c.my
    <3>1. IdleStep(c, s, r)
      BY <1>3, SpentStep
    <3> QED BY <3>1 DEF IdleStep
  <2>2. Settled(n, s, k - 1)
    BY <1>3, <2>1 DEF Settled, Spent
  <2> QED BY <1>2, <2>1, <2>2
<1>4. CASE c.lib.owner = s /\ k = c.my[s].left + 1
  <2>1. Delivers(c, s, r) /\ ~r.ran /\ (r.rc # "ROW" => c.my[s].disturbed \/ c.my[s].left = 0)
    <3>1. c.my[s].executed /\ c.lib.owner = s
      BY <1>1, <1>4
    <3> QED BY <3>1, ReadStep
  <2>2. c.my[s].has_result /\ c.my[s].left \in Nat
    BY <1>4 DEF Serves, ConnOK, StmtInv, StmtType
  <2>3. k - 1 = c.my[s].left
    BY <1>4, <2>2, SMT
  <2>4. /\ n.my[s].live /\ n.my[s].executed /\ n.my[s].disturbed = c.my[s].disturbed
        /\ r.rc = "ROW" => /\ n.lib.owner = s
                           /\ c.my[s].left > 0 /\ n.my[s].left = c.my[s].left - 1
        /\ r.rc = "ERROR" => n.my[s].has_result /\ Faulty(n.lib.stmt[s])
    BY <1>1, <2>1, <2>2 DEF Delivers
  <2>5. r.rc = "ROW" => k - 1 >= 1 /\ k - 1 = n.my[s].left + 1
    BY <2>2, <2>3, <2>4, SMT
  <2>6. r.rc = "ROW" => Reads(n, s, k - 1, 1)
    BY <2>4, <2>5 DEF Reads
  <2>7. r.rc # "ROW" => Settled(n, s, k - 1)
    BY <2>1, <2>3, <2>4 DEF Settled
  <2>8. r.rc = "ERROR" => Unrun(n, s)
    BY <2>4 DEF Unrun
  <2> QED BY <1>2, <2>1, <2>4, <2>6, <2>7, <2>8
<1> QED BY <1>1, <1>3, <1>4

(* Statement::fetchAssociative of the native extension. *)
LEMMA MyliteFetchKeeps ==
  ASSUME PhpInv, NEW s \in Stmts, MyliteFetch(s)
  PROVE  PhpInv' /\ Refetches(php, told')
<1> DEFINE o == php.obj[s]
<1>1. php.driver = "mylite" /\ Usable(s) /\ php.driver # "mysqli" /\ php.driver # "pdo"
  BY DEF MyliteFetch
<1>2. /\ Serves(conn) /\ o \in ObjectType /\ o.live /\ ~o.old /\ conn.my[s].live
      /\ MyliteObject(conn, s, o)
  BY <1>1, UsableIs
<1>3. CASE o.step = "ROW"
  <2>1. PICK reply \in ReplyTo(s) : LookedAhead(s, o, MyliteStep(conn, s, reply))
    BY <1>3 DEF MyliteFetch
  <2> DEFINE r == MyliteStep(conn, s, reply)
             x == [o EXCEPT !.step = r.rc, !.missing = o.missing - 1]
             m == Said("fetch", s, "row", r.ran, Failed(r), 0)
  <2>2. Asks(conn, s, reply, r)
    BY <1>2, StepAsks
  <2>3. Fetched(s, r.conn, x, m)
    BY <2>1 DEF LookedAhead
  <2> HIDE DEF r
  <2>4. Reads(conn, s, o.missing, 1) /\ o.missing \in Nat
    BY <1>2, <1>3 DEF MyliteObject, ObjectType
  <2>5. /\ ~r.ran /\ o.missing - 1 \in Nat /\ r.conn.my[s].live
        /\ r.rc = "ROW" => Reads(r.conn, s, o.missing - 1, 1)
        /\ r.rc # "ROW" => Settled(r.conn, s, o.missing - 1)
        /\ r.rc = "ERROR" => Unrun(r.conn, s)
    BY <1>2, <2>2, <2>4, LookAhead
  <2>6. r.rc \in {"ROW", "DONE", "ERROR"} /\ Serves(r.conn) /\ Spares(conn, s, r.conn)
    BY <2>2 DEF Asks, Steps
  <2>7. /\ x \in ObjectType /\ x.live /\ ~x.old /\ x.step = r.rc /\ x.missing = o.missing - 1
    BY <1>2, <2>5, <2>6 DEF ObjectType
  <2> HIDE DEF x, o
  <2>8. MyliteObject(r.conn, s, x)
    BY <2>5, <2>7 DEF MyliteObject
  <2>9. RestsWith(conn, php.driver, s, x, r.conn)
    BY <1>1, <2>5, <2>6, <2>7, <2>8 DEF RestsWith
  <2>10. (\A p : Tells(r.conn, p, m)) /\ Refetches(php, m)
    BY <2>5, FetchTells
  <2> HIDE DEF m
  <2> QED BY <1>1, <2>3, <2>9, <2>10, FetchedKeeps
<1>4. CASE o.step # "ROW"
  <2> DEFINE owed == Owed(s, o)
             m == Said("fetch", s, "end", FALSE, o.step # "DONE", owed)
  <2>1. Fetched(s, conn, o, m)
    BY <1>4 DEF MyliteFetch
  <2>2. owed = 0
    BY <1>2, <1>4, SettledOwes DEF MyliteObject
  <2>3. RestsWith(conn, php.driver, s, o, conn)
    BY <1>1, <1>2, SparesSelf DEF RestsWith
  <2> HIDE DEF owed, o
  <2>4. (\A p : Tells(conn, p, m)) /\ Refetches(php, m)
    BY <2>2, FetchTells
  <2> HIDE DEF m
  <2> QED BY <1>1, <2>1, <2>3, <2>4, FetchedKeeps
<1> QED BY <1>3, <1>4

(* Step r of a fetch of PDO, after which m rows are missing and its own is not given. *)
PdoSteps(c, s, r, m) ==
  LET n == r.conn IN
  /\ Serves(n) /\ Spares(c, s, n) /\ IsStep(r) /\ n.my[s].live /\ m \in Nat
  /\ r.rc = "ROW" => m - 1 \in Nat /\ Reads(n, s, m - 1, 0)
  /\ r.rc = "DONE" => Settled(n, s, m) /\ Settled(c, s, m)
  /\ r.rc = "ERROR" => Unrun(n, s) /\ n.errcode

(* The step of a fetch after a row. *)
LEMMA PdoReads ==
  ASSUME NEW c, Serves(c), NEW s \in Stmts, NEW reply, NEW r, Asks(c, s, reply, r),
         NEW k \in Nat, Reads(c, s, k, 0), c.my[s].live
  PROVE  ~r.ran /\ PdoSteps(c, s, r, Missing(k, r, reply))
<1> DEFINE n == r.conn
<1>1. /\ c.my[s].executed
      /\ Spent(c, s) \/ (c.lib.owner = s /\ k = c.my[s].left + 0)
  BY DEF Reads
<1>2. Serves(n) /\ Spares(c, s, n) /\ IsStep(r)
  BY DEF Asks, Steps, IsStep
<1>3. CASE Spent(c, s)
  <2>1. IdleStep(c, s, r)
    BY <1>3, SpentStep
  <2>2. r.rc = "DONE" /\ ~r.ran /\ n.my = c.my
    BY <2>1 DEF IdleStep
  <2>3. Settled(n, s, k) /\ Settled(c, s, k)
    BY <1>3, <2>2 DEF Settled, Spent
  <2>4. Missing(k, r, reply) = k
    BY <2>2 DEF Missing
  <2>5. PdoSteps(c, s, r, k)
    BY <1>2, <2>2, <2>3 DEF PdoSteps
  <2> QED BY <2>2, <2>4, <2>5
<1>4. CASE c.lib.owner = s /\ k = c.my[s].left + 0
  <2>1. Delivers(c, s, r) /\ ~r.ran /\ (r.rc # "ROW" => c.my[s].disturbed \/ c.my[s].left = 0)
    <3>1. c.my[s].executed /\ c.lib.owner = s
      BY <1>1, <1>4
    <3> QED BY <3>1, ReadStep
  <2>2. c.my[s].has_result /\ c.my[s].left \in Nat
    BY <1>4 DEF Serves, ConnOK, StmtInv, StmtType
  <2>3. k = c.my[s].left
    BY <1>4, <2>2, SMT
  <2>4. /\ n.my[s].live /\ n.my[s].executed /\ n.my[s].disturbed = c.my[s].disturbed
        /\ r.rc = "ROW" => /\ n.lib.owner = s
                           /\ c.my[s].left > 0 /\ n.my[s].left = c.my[s].left - 1
        /\ r.rc = "ERROR" => n.errcode /\ n.my[s].has_result /\ Faulty(n.lib.stmt[s])
    BY <1>1, <2>1, <2>2 DEF Delivers
  <2>5. r.rc = "ROW" => k - 1 \in Nat /\ k - 1 >= 0 /\ k - 1 = n.my[s].left + 0
    BY <2>2, <2>3, <2>4, SMT
  <2>6. r.rc = "ROW" => k - 1 \in Nat /\ Reads(n, s, k - 1, 0)
    BY <2>4, <2>5 DEF Reads
  <2>7. r.rc = "DONE" => Settled(n, s, k) /\ Settled(c, s, k)
    BY <2>1, <2>3, <2>4 DEF Settled
  <2>8. r.rc = "ERROR" => Unrun(n, s) /\ n.errcode
    BY <2>4 DEF Unrun
  <2>9. Missing(k, r, reply) = k
    BY <2>1 DEF Missing
  <2>10. PdoSteps(c, s, r, k)
    BY <1>2, <2>4, <2>6, <2>7, <2>8 DEF PdoSteps
  <2> QED BY <2>1, <2>9, <2>10
<1> QED BY <1>1, <1>3, <1>4

(* The step of a fetch after a step that failed: it may execute the statement. *)
LEMMA PdoRuns ==
  ASSUME NEW c, Serves(c), NEW s \in Stmts, NEW reply, NEW r, Asks(c, s, reply, r),
         NEW k \in Nat, Unrun(c, s), c.my[s].live
  PROVE  PdoSteps(c, s, r, Missing(k, r, reply))
<1> DEFINE n == r.conn
           m == Missing(0, r, reply)
<1>1. /\ StepsTo(c, s, FALSE, r, m) /\ (r.rc = "ERROR" => Unrun(n, s))
      /\ r.rc # "ERROR" => r.ran
  BY FirstStep
<1>2. (r.ran => Missing(k, r, reply) = m) /\ (~r.ran => Missing(k, r, reply) = k)
  BY DEF Missing
<1> HIDE DEF m
<1>3. /\ Serves(n) /\ Spares(c, s, n) /\ IsStep(r) /\ n.my[s].live /\ m \in Nat
      /\ r.rc = "ROW" => /\ n.my[s].executed /\ n.lib.owner = s
                         /\ m >= 1 /\ m = n.my[s].left + 1 /\ m - 1 \in Nat
      /\ r.rc = "DONE" => m = 0
      /\ r.rc = "ERROR" => n.errcode
  BY <1>1 DEF StepsTo, IsStep
<1>4. n.my[s].left \in Nat
  BY <1>3 DEF Serves, ConnOK, StmtType
<1>5. r.rc = "ROW" => m - 1 >= 0 /\ m - 1 = n.my[s].left + 0
  BY <1>3, <1>4, SMT
<1>6. r.rc = "ROW" => m - 1 \in Nat /\ Reads(n, s, m - 1, 0)
  BY <1>3, <1>5 DEF Reads
<1>7. r.rc = "DONE" => Settled(n, s, m) /\ Settled(c, s, m)
  BY <1>3 DEF Settled
<1>8. PdoSteps(c, s, r, m)
  BY <1>1, <1>3, <1>6, <1>7 DEF PdoSteps
<1>9. CASE r.rc # "ERROR"
  BY <1>1, <1>2, <1>8, <1>9
<1>10. CASE r.rc = "ERROR"
  <2>1. Missing(k, r, reply) \in Nat
    BY <1>2, <1>3
  <2> QED BY <1>1, <1>3, <1>10, <2>1 DEF PdoSteps
<1> QED BY <1>9, <1>10

(* The object after that step. *)
LEMMA PdoSteppedObject ==
  ASSUME NEW o \in ObjectType, o.live, ~o.old, o.executed, ~o.prefetched,
         NEW c, NEW s, NEW r, PdoSteps(c, s, r, o.missing)
  PROVE  RestsWith(c, "pdo", s, [o EXCEPT !.step = r.rc, !.done = r.rc = "DONE",
                                          !.missing = Given(o.missing, r)], r.conn)
<1> DEFINE n == r.conn
           left == Given(o.missing, r)
           x == [o EXCEPT !.step = r.rc, !.done = r.rc = "DONE", !.missing = left]
<1>1. /\ Serves(n) /\ Spares(c, s, n) /\ r.rc \in {"ROW", "DONE", "ERROR"} /\ n.my[s].live
      /\ o.missing \in Nat
      /\ r.rc = "ROW" => o.missing - 1 \in Nat /\ Reads(n, s, o.missing - 1, 0)
      /\ r.rc = "DONE" => Settled(n, s, o.missing)
      /\ r.rc = "ERROR" => Unrun(n, s)
  BY DEF PdoSteps, IsStep
<1>2. /\ left \in Nat /\ (r.rc = "ROW" => left = o.missing - 1)
      /\ r.rc # "ROW" => left = o.missing
  BY <1>1 DEF Given
<1> HIDE DEF left
<1>3. /\ x \in ObjectType /\ x.live /\ ~x.old /\ x.executed /\ ~x.prefetched
      /\ x.step = r.rc /\ x.done = (r.rc = "DONE") /\ x.missing = left
  BY <1>1, <1>2 DEF ObjectType
<1> HIDE DEF x
<1>4. PdoObject(n, s, x)
  BY <1>1, <1>2, <1>3 DEF PdoObject
<1>5. RestsWith(c, "pdo", s, x, n)
  BY <1>1, <1>3, <1>4 DEF RestsWith
<1> QED BY <1>5 DEF x, left

(* PDOStatement::fetch. *)
LEMMA PdoFetchKeeps ==
  ASSUME PhpInv, NEW s \in Stmts, PdoFetch(s)
  PROVE  PhpInv' /\ Refetches(php, told')
<1> DEFINE o == php.obj[s]
<1>1. php.driver = "pdo" /\ Usable(s) /\ php.driver # "mysqli" /\ php.driver # "mylite"
  BY DEF PdoFetch
<1>2. /\ Serves(conn) /\ o \in ObjectType /\ o.live /\ ~o.old /\ conn.my[s].live
      /\ PdoObject(conn, s, o) /\ o.executed
  BY <1>1, UsableIs DEF PdoFetch
<1>3. /\ o.done = (o.step = "DONE") /\ (o.prefetched => o.step = "ROW")
      /\ o.step = "ROW" => Reads(conn, s, o.missing, IF o.prefetched THEN 1 ELSE 0)
      /\ o.step = "DONE" => Settled(conn, s, o.missing)
      /\ o.step = "ERROR" => Unrun(conn, s)
      /\ o.step \in {"ROW", "DONE", "ERROR"} /\ o.missing \in Nat
  BY <1>2 DEF PdoObject, ObjectType
<1>4. CASE o.done
  <2> DEFINE owed == Owed(s, o)
             m == Said("fetch", s, "end", FALSE, FALSE, owed)
  <2>1. Fetched(s, conn, o, m)
    BY <1>4 DEF PdoFetch
  <2>2. Settled(conn, s, o.missing)
    BY <1>3, <1>4
  <2>3. owed = 0
    BY <2>2, SettledOwes
  <2>4. RestsWith(conn, php.driver, s, o, conn)
    BY <1>1, <1>2, SparesSelf DEF RestsWith
  <2> HIDE DEF owed, o
  <2>5. (\A p : Tells(conn, p, m)) /\ Refetches(php, m)
    BY <2>3, FetchTells
  <2> HIDE DEF m
  <2> QED BY <1>1, <2>1, <2>4, <2>5, FetchedKeeps
<1>5. CASE ~o.done /\ o.prefetched
  <2> DEFINE x == [o EXCEPT !.prefetched = FALSE, !.missing = o.missing - 1]
             m == Said("fetch", s, "row", FALSE, FALSE, 0)
  <2>1. Fetched(s, conn, x, m)
    BY <1>5 DEF PdoFetch
  <2>2. o.step = "ROW" /\ Reads(conn, s, o.missing, 1)
    BY <1>3, <1>5
  <2>3. conn.my[s].left \in Nat
    BY <1>2 DEF Serves, ConnOK, StmtType
  <2>4. /\ conn.my[s].executed /\ o.missing >= 1
        /\ Spent(conn, s) \/ (conn.lib.owner = s /\ o.missing = conn.my[s].left + 1)
    BY <2>2 DEF Reads
  <2>5. /\ o.missing - 1 \in Nat /\ o.missing - 1 >= 0
        /\ o.missing = conn.my[s].left + 1 => o.missing - 1 = conn.my[s].left + 0
    BY <1>3, <2>3, <2>4, SMT
  <2>6. Reads(conn, s, o.missing - 1, 0)
    BY <2>4, <2>5 DEF Reads
  <2>7. /\ x \in ObjectType /\ x.live /\ ~x.old /\ x.executed /\ ~x.prefetched
        /\ x.step = "ROW" /\ ~x.done /\ x.done = FALSE /\ x.missing = o.missing - 1
    BY <1>2, <1>3, <1>5, <2>2, <2>5 DEF ObjectType
  <2> HIDE DEF x, o
  <2>8. PdoObject(conn, s, x)
    BY <2>6, <2>7 DEF PdoObject
  <2>9. RestsWith(conn, php.driver, s, x, conn)
    BY <1>1, <1>2, <2>7, <2>8, SparesSelf DEF RestsWith
  <2>10. (\A p : Tells(conn, p, m)) /\ Refetches(php, m)
    BY FetchTells
  <2> HIDE DEF m
  <2> QED BY <1>1, <2>1, <2>9, <2>10, FetchedKeeps
<1>6. CASE ~o.done /\ ~o.prefetched
  <2>1. PICK reply \in ReplyTo(s) : PdoRan(s, o, reply, MyliteStep(conn, s, reply))
    BY <1>6 DEF PdoFetch
  <2> DEFINE r == MyliteStep(conn, s, reply)
             k == Missing(o.missing, r, reply)
             o1 == [o EXCEPT !.missing = k]
             x == [o1 EXCEPT !.step = r.rc, !.done = r.rc = "DONE", !.missing = Given(o1.missing, r)]
  <2>2. Asks(conn, s, reply, r)
    BY <1>2, StepAsks
  <2>3. PdoStepped(s, o1, r)
    BY <2>1 DEF PdoRan
  <2> HIDE DEF r
  <2>4. PdoSteps(conn, s, r, k) /\ (r.ran => o.step = "ERROR")
    <3>1. CASE o.step = "ROW"
      <4>1. Reads(conn, s, o.missing, 0)
        BY <1>3, <1>6, <3>1
      <4> HIDE DEF o
      <4> QED BY <1>2, <1>3, <2>2, <4>1, PdoReads
    <3>2. CASE o.step = "ERROR"
      <4>1. Unrun(conn, s)
        BY <1>3, <3>2
      <4> HIDE DEF o
      <4> QED BY <1>2, <1>3, <2>2, <3>2, <4>1, PdoRuns
    <3> QED BY <1>3, <1>6, <3>1, <3>2
  <2>5. k \in Nat
    BY <2>4 DEF PdoSteps
  <2> HIDE DEF k
  <2>6. /\ o1 \in ObjectType /\ o1.live /\ ~o1.old /\ o1.executed /\ ~o1.prefetched
        /\ o1.missing = k
    BY <1>2, <1>6, <2>5 DEF ObjectType
  <2> HIDE DEF o1
  <2>7. PdoSteps(conn, s, r, o1.missing)
    BY <2>4, <2>6
  <2>8. RestsWith(conn, php.driver, s, x, r.conn)
    <3>1. RestsWith(conn, "pdo", s, x, r.conn)
      BY <2>6, <2>7, PdoSteppedObject
    <3> QED BY <1>1, <3>1
  <2> HIDE DEF x
  <2>9. /\ r.rc \in {"ROW", "DONE", "ERROR"}
        /\ r.rc = "DONE" => Settled(conn, s, o1.missing)
        /\ r.rc = "ERROR" => r.conn.errcode
    BY <2>7 DEF PdoSteps, IsStep
  <2> DEFINE owed == Owed(s, o1)
  <2>10. r.rc = "DONE" => owed = 0
    BY <2>9, SettledOwes
  <2>11. php.obj[s].step = o.step
    OBVIOUS
  <2> HIDE DEF owed, o
  <2>12. CASE r.rc = "ROW"
    <3> DEFINE m == Said("fetch", s, "row", r.ran, FALSE, 0)
    <3>1. Fetched(s, r.conn, x, m)
      BY <2>3, <2>12 DEF PdoStepped, Failed, x
    <3>2. (\A p : Tells(r.conn, p, m)) /\ Refetches(php, m)
      BY <2>4, <2>11, FetchTells
    <3> HIDE DEF m
    <3> QED BY <1>1, <2>8, <3>1, <3>2, FetchedKeeps
  <2>13. CASE r.rc = "DONE"
    <3> DEFINE m == Said("fetch", s, "end", r.ran, FALSE, owed)
    <3>1. Fetched(s, r.conn, x, m)
      BY <2>3, <2>13 DEF PdoStepped, Failed, x, owed
    <3>2. (\A p : Tells(r.conn, p, m)) /\ Refetches(php, m)
      BY <2>4, <2>10, <2>11, <2>13, FetchTells
    <3> HIDE DEF m
    <3> QED BY <1>1, <2>8, <3>1, <3>2, FetchedKeeps
  <2>14. CASE r.rc = "ERROR"
    <3> DEFINE m == Said("fetch", s, "error", r.ran, TRUE, 0)
    <3>1. Fetched(s, r.conn, x, m)
      BY <2>3, <2>14 DEF PdoStepped, Failed, x
    <3>2. (\A p : Tells(r.conn, p, m)) /\ Refetches(php, m)
      BY <2>4, <2>9, <2>11, <2>14, FetchTells
    <3> HIDE DEF m
    <3> QED BY <1>1, <2>8, <3>1, <3>2, FetchedKeeps
  <2> QED BY <2>9, <2>12, <2>13, <2>14
<1> QED BY <1>4, <1>5, <1>6

(* PDOStatement::closeCursor. *)
LEMMA PdoCloseCursorKeeps ==
  ASSUME PhpInv, NEW s \in Stmts, PdoCloseCursor(s)
  PROVE  PhpInv' /\ Refetches(php, told')
<1> DEFINE r == MyliteReset(conn, s)
           o == [php.obj[s] EXCEPT !.prefetched = FALSE, !.done = TRUE, !.executed = FALSE,
                                   !.missing = 0]
           m == Said("closeCursor", None, "ok", FALSE, Failed(r), 0)
<1>1. php.driver = "pdo" /\ Usable(s) /\ php.driver # "mysqli" /\ php.driver # "mylite"
  BY DEF PdoCloseCursor
<1>2. /\ Serves(conn) /\ php.obj[s] \in ObjectType /\ php.obj[s].live /\ ~php.obj[s].old
      /\ conn.my[s].live
  BY <1>1, UsableIs
<1>3. Fetched(s, r.conn, o, m)
  BY DEF PdoCloseCursor, CursorClosed
<1>4. Resets(conn, s, r)
  BY <1>2, ResetServes
<1> HIDE DEF r
<1>5. /\ Serves(r.conn) /\ Spares(conn, s, r.conn) /\ r.rc \in {"OK", "ERROR"}
      /\ r.conn.my[s].live /\ ~r.conn.my[s].has_result
      /\ r.rc = "OK" => ~r.conn.my[s].executed
      /\ r.rc = "ERROR" => r.conn.my[s].broken
  BY <1>2, <1>4 DEF Resets
<1>6. Unrun(r.conn, s) \/ Spent(r.conn, s)
  BY <1>5 DEF Unrun, Spent
<1>7. 0 \in Nat
  BY SMT
<1>8. o \in ObjectType /\ o.live /\ ~o.old /\ ~o.executed /\ ~o.prefetched
  BY <1>2, <1>7 DEF ObjectType
<1> HIDE DEF o
<1>9. RestsWith(conn, php.driver, s, o, r.conn)
  BY <1>1, <1>5, <1>6, <1>8 DEF RestsWith, PdoObject
<1>10. (\A p : Tells(r.conn, p, m)) /\ Refetches(php, m)
  BY PlainTells
<1> HIDE DEF m
<1> QED BY <1>1, <1>3, <1>9, <1>10, FetchedKeeps
-----------------------------------------------------------------------------
(* Between two methods, a call that leaves the statements alone and a change *)
(* of the link that leaves its objects alone.                                *)
LEMMA SameLink ==
  ASSUME NEW c, NEW p, LinkInv(c, p), p.run = NoMethod,
         NEW n, Serves(n), n.lib = c.lib, n.my = c.my,
         NEW q \in PhpType, ~q.lost, q.driver = p.driver, q.obj = p.obj, q.run = p.run
  PROVE  LinkInv(n, q)
<1>1. p.run.call = "none" /\ q.run.call = "none"
  BY NoMethodIs
<1>2. ASSUME NEW t \in Stmts PROVE ObjectInv(n, q, t)
  <2>1. ObjectInv(c, p, t)
    BY DEF LinkInv
  <2>2. Spares(c, None, n)
    BY DEF Spares
  <2>3. t \in Stmts \ {None}
    BY LibraryAssumption
  <2>4. q.obj[t] = p.obj[t]
    OBVIOUS
  <2> QED BY <1>1, <2>1, <2>2, <2>3, <2>4, SparedObject
<1>3. MethodInv(n, q)
  BY <1>1 DEF MethodInv
<1>4. ShimInv(n, q)
  <2>1. ShimInv(c, p)
    BY DEF LinkInv
  <2> QED BY <1>1, <2>1 DEF ShimInv
<1> QED BY <1>2, <1>3, <1>4 DEF LinkInv

(* A destructor closes the handle, if it is the last, and the close succeeds. *)
LEMMA CollectKeeps ==
  ASSUME NEW c, NEW p, LinkInv(c, p), p.run = NoMethod
  PROVE  LinkInv(c, Collect(c, p))
<1>1. CASE ~p.held /\ Objects(p) = {}
  <2> DEFINE q == CloseAndForget(c, p)
  <2>1. Serves(c) /\ p \in PhpType /\ ~p.lost /\ p.run.call = "none"
    BY NoMethodIs DEF LinkInv
  <2>2. ASSUME NEW t \in Stmts PROVE ~c.my[t].live
    <3>1. ObjectInv(c, p, t) /\ ~p.obj[t].live
      BY <1>1 DEF LinkInv, Objects
    <3> QED BY <2>1, <3>1 DEF ObjectInv, Mine
  <2>3. Live(c) = {}
    BY <2>2 DEF Live
  <2>4. MyliteClose(c).rc = "OK"
    BY <2>1, <2>3, CloseServes
  <2>5. /\ q \in PhpType /\ ~q.lost /\ q.driver = p.driver /\ q.obj = p.obj /\ q.run = p.run
    BY <2>1, <2>4 DEF CloseAndForget, PhpType
  <2> HIDE DEF q
  <2>6. LinkInv(c, q)
    BY <2>1, <2>5, SameLink
  <2> QED BY <1>1, <2>6 DEF Collect, q
<1>2. CASE ~(~p.held /\ Objects(p) = {})
  BY <1>2 DEF Collect
<1> QED BY <1>1, <1>2

(* The script drops a statement object. *)
LEMMA FreeStatementKeeps ==
  ASSUME PhpInv, NEW s \in Stmts, FreeStatement(s)
  PROVE  PhpInv' /\ Refetches(php, told')
<1> DEFINE n == IF php.obj[s].old THEN conn ELSE MyliteFinalize(conn, s).conn
           q == [php EXCEPT !.obj[s] = NewObject]
<1>1. /\ LinkInv(conn, php) /\ php.run = NoMethod
      /\ conn' = n /\ php' = Collect(n, q) /\ told' = Nothing
  BY DEF PhpInv, FreeStatement, Idle, Freed
<1>2. /\ Serves(conn) /\ php \in PhpType /\ php.run.call = "none" /\ php.obj[s] \in ObjectType
      /\ ObjectInv(conn, php, s) /\ (conn.my[s].live <=> Mine(php, s))
      /\ php.driver = "mysqli" => ~conn.my[s].broken /\ conn.lib.owner = None
  BY <1>1, IdleIs
<1>3. /\ Serves(n) /\ Spares(conn, s, n)
      /\ ~n.my[s].live /\ ~n.my[s].executed /\ ~n.my[s].broken
      /\ php.driver = "mysqli" => n.lib.owner # s
  <2>1. CASE php.obj[s].old
    <3>1. n = conn
      BY <2>1
    <3>2. Spares(conn, s, conn) /\ None # s
      BY SparesSelf, LibraryAssumption
    <3> HIDE DEF n
    <3> QED BY <1>2, <2>1, <3>1, <3>2 DEF ObjectInv, Mine
  <2>2. CASE ~php.obj[s].old
    <3>1. n = MyliteFinalize(conn, s).conn
      BY <2>2
    <3>2. Finalizes(conn, s, MyliteFinalize(conn, s).conn)
      BY <1>2, FinalizeServes
    <3> HIDE DEF n
    <3> QED BY <3>1, <3>2 DEF Finalizes
  <2> QED BY <2>1, <2>2
<1> HIDE DEF n
<1>4. 0 \in Nat
  BY SMT
<1>5. NewObject \in ObjectType /\ ~NewObject.live /\ ~NewObject.old
  BY <1>4 DEF NewObject, ObjectType
<1>6. Only(php, s, NewObject, php.run, q)
  BY <1>2, <1>5, NoMethodIs, OnlyIs
<1> HIDE DEF q
<1>7. q.obj[s] = NewObject /\ q.run = NoMethod /\ q.run.call = "none"
  BY <1>1, <1>2, <1>6 DEF Only
<1>8. ObjectInv(n, q, s)
  BY <1>3, <1>5, <1>7 DEF ObjectInv, Mine
<1>9. LinkInv(n, q)
  BY <1>1, <1>3, <1>6, <1>8, RestKeeps
<1>10. LinkInv(n, Collect(n, q))
  BY <1>7, <1>9, CollectKeeps
<1>11. Tells(n, Collect(n, q), Nothing) /\ Refetches(php, Nothing)
  BY NothingTells
<1> QED BY <1>1, <1>10, <1>11, StepIs

(* The script drops the connection object. *)
LEMMA DropLinkKeeps ==
  ASSUME PhpInv, DropLink
  PROVE  PhpInv' /\ Refetches(php, told')
<1> DEFINE q == [php EXCEPT !.held = FALSE]
<1>1. /\ LinkInv(conn, php) /\ php.run = NoMethod
      /\ conn' = conn /\ php' = Collect(conn, q) /\ told' = Nothing
  BY DEF PhpInv, DropLink, Idle
<1>2. Serves(conn) /\ php \in PhpType /\ ~php.lost
  BY <1>1 DEF LinkInv
<1>3. q \in PhpType /\ ~q.lost /\ q.driver = php.driver /\ q.obj = php.obj /\ q.run = php.run
  BY <1>2 DEF PhpType
<1> HIDE DEF q
<1>4. LinkInv(conn, q) /\ q.run = NoMethod
  BY <1>1, <1>2, <1>3, SameLink
<1>5. LinkInv(conn, Collect(conn, q))
  BY <1>4, CollectKeeps
<1>6. Tells(conn, Collect(conn, q), Nothing) /\ Refetches(php, Nothing)
  BY NothingTells
<1> QED BY <1>1, <1>5, <1>6, StepIs

(* close of the native extension and of the shim. *)
LEMMA CloseLinkKeeps ==
  ASSUME PhpInv, CloseLink
  PROVE  PhpInv' /\ Refetches(php, told')
<1> DEFINE r == MyliteClose(conn)
           q == [php EXCEPT !.open = Failed(r)]
           outcome == IF Failed(r) THEN "error" ELSE "ok"
           m == Said("close", None, outcome, FALSE, Failed(r), 0)
<1>1. /\ LinkInv(conn, php) /\ php.run = NoMethod
      /\ conn' = r.conn /\ php' = q /\ told' = m
  BY DEF PhpInv, CloseLink, Linked, Idle
<1>2. Serves(conn) /\ php \in PhpType /\ ~php.lost
  BY <1>1 DEF LinkInv
<1>3. /\ Serves(r.conn) /\ r.conn.lib = conn.lib /\ r.conn.my = conn.my
      /\ r.rc \in {"OK", "BUSY"} /\ (r.rc = "BUSY" => r.conn.errcode)
  BY <1>2, CloseServes
<1> HIDE DEF r
<1>4. /\ outcome \in {"ok", "error"} /\ (outcome = "error" => r.conn.errcode)
      /\ Failed(r) \in BOOLEAN
  BY <1>3 DEF Failed
<1>5. q \in PhpType /\ ~q.lost /\ q.driver = php.driver /\ q.obj = php.obj /\ q.run = php.run
  BY <1>2, <1>4 DEF PhpType
<1> HIDE DEF q, outcome
<1>6. LinkInv(r.conn, q)
  BY <1>1, <1>3, <1>5, SameLink
<1>7. Tells(r.conn, q, m) /\ Refetches(php, m)
  BY <1>4, PlainTells
<1> HIDE DEF m
<1> QED BY <1>1, <1>6, <1>7, StepIs

(* A handle just opened, with no statement of its own. *)
LEMMA FreshLink ==
  ASSUME NEW q \in PhpType, ~q.lost, q.run = NoMethod,
         \A t \in Stmts : ~Mine(q, t) /\ (q.obj[t].old => q.obj[t].live /\ q.driver = "mysqli")
  PROVE  LinkInv(OpenConnection, q)
<1> DEFINE c == OpenConnection
<1>1. Serves(c) /\ c.lib.owner = None /\ (\A t \in Stmts : c.my[t] = NewStatement)
  BY OpenServes
<1>2. ~NewStatement.live /\ ~NewStatement.executed /\ ~NewStatement.broken
  BY DEF NewStatement
<1>3. q.run.call = "none"
  BY NoMethodIs
<1> HIDE DEF c
<1>4. \A t \in Stmts : ~c.my[t].live /\ ~c.my[t].executed /\ ~c.my[t].broken
  BY <1>1, <1>2
<1>5. ASSUME NEW t \in Stmts PROVE ObjectInv(c, q, t)
  BY <1>3, <1>4 DEF ObjectInv
<1>6. MethodInv(c, q)
  BY <1>3 DEF MethodInv
<1>7. ShimInv(c, q)
  BY <1>1, <1>4 DEF ShimInv
<1>8. LinkInv(c, q)
  BY <1>1, <1>5, <1>6, <1>7 DEF LinkInv
<1> QED BY <1>8 DEF c

(* A new connection object. *)
LEMMA NewLinkIs ==
  ASSUME NEW driver \in {"mylite", "pdo", "mysqli"}, NEW lost, lost = FALSE
  PROVE  LinkInv(OpenConnection, [NewLink(driver) EXCEPT !.lost = lost])
         /\ LinkInv(OpenConnection, NewLink(driver))
<1> DEFINE p == NewLink(driver)
           q == [p EXCEPT !.lost = lost]
<1>1. 0 \in Nat
  BY SMT
<1>2. NewObject \in ObjectType /\ ~NewObject.live /\ ~NewObject.old
  BY <1>1 DEF NewObject, ObjectType
<1>3. [s \in Stmts |-> NewObject] \in [Stmts -> ObjectType]
  BY <1>2
<1>4. p \in PhpType /\ ~p.lost /\ p.run = NoMethod /\ p.obj = [s \in Stmts |-> NewObject]
  BY <1>3, NoMethodIs DEF NewLink, PhpType
<1>5. q \in PhpType /\ ~q.lost /\ q.run = NoMethod /\ q.obj = p.obj
  BY <1>4 DEF PhpType
<1> HIDE DEF p, q
<1>6. \A t \in Stmts : p.obj[t] = NewObject
  BY <1>4
<1>7. \A t \in Stmts : /\ ~Mine(p, t) /\ ~p.obj[t].old
                       /\ ~Mine(q, t) /\ ~q.obj[t].old
  BY <1>2, <1>5, <1>6 DEF Mine
<1>8. LinkInv(OpenConnection, q)
  BY <1>5, <1>7, FreshLink
<1>9. LinkInv(OpenConnection, p)
  BY <1>4, <1>7, FreshLink
<1> QED BY <1>8, <1>9 DEF p, q

(* A new connection object, once there is none. *)
LEMMA ConnectKeeps ==
  ASSUME PhpInv, Connect
  PROVE  PhpInv' /\ Refetches(php, told')
<1> DEFINE q == [NewLink(php.driver) EXCEPT !.lost = php.lost]
<1>1. conn' = OpenConnection /\ php' = q /\ told' = Nothing
  BY DEF Connect
<1>2. php.driver \in {"mylite", "pdo", "mysqli"} /\ php.lost = FALSE
  BY DEF PhpInv, LinkInv, PhpType
<1>3. LinkInv(OpenConnection, q)
  BY <1>2, NewLinkIs
<1> HIDE DEF q
<1>4. Tells(OpenConnection, q, Nothing) /\ Refetches(php, Nothing)
  BY NothingTells
<1> QED BY <1>1, <1>3, <1>4, StepIs

(* real_connect of mysqli. *)
LEMMA RealConnectKeeps ==
  ASSUME PhpInv, RealConnect
  PROVE  PhpInv' /\ Refetches(php, told')
<1>1. PICK opened \in BOOLEAN :
        /\ conn' = OpenConnection
        /\ php' = [CloseAndForget(conn, php) EXCEPT
                     !.open = opened, !.lost = php.lost,
                     !.obj = [s \in Stmts |-> [php.obj[s] EXCEPT !.old = @ \/ php.obj[s].live]]]
        /\ told' = Said("open", None, IF opened THEN "ok" ELSE "error", FALSE, ~opened, 0)
  BY DEF RealConnect
<1> DEFINE x == CloseAndForget(conn, php)
           obj == [s \in Stmts |-> [php.obj[s] EXCEPT !.old = @ \/ php.obj[s].live]]
           q == [x EXCEPT !.open = opened, !.lost = php.lost, !.obj = obj]
           outcome == IF opened THEN "ok" ELSE "error"
           m == Said("open", None, outcome, FALSE, ~opened, 0)
<1>2. conn' = OpenConnection /\ php' = q /\ told' = m
  BY <1>1
<1>3. LinkInv(conn, php) /\ php.run = NoMethod /\ php.driver = "mysqli"
  BY DEF PhpInv, RealConnect, Idle
<1>4. php \in PhpType /\ ~php.lost /\ php.obj \in [Stmts -> ObjectType]
  BY <1>3 DEF LinkInv, PhpType
<1>5. /\ x.obj = php.obj /\ x.run = php.run /\ x.driver = php.driver /\ x.held = php.held
      /\ DOMAIN x = DOMAIN php
  BY <1>4 DEF CloseAndForget, PhpType
<1>6. x \in PhpType
  BY <1>4 DEF CloseAndForget, PhpType
<1> HIDE DEF x
<1>7. ASSUME NEW t \in Stmts
      PROVE  /\ obj[t] \in ObjectType /\ obj[t].live = php.obj[t].live
             /\ obj[t].old <=> php.obj[t].live
  <2>1. /\ php.obj[t] \in ObjectType /\ php.obj[t].old \in BOOLEAN
        /\ php.obj[t].live \in BOOLEAN
        /\ obj[t] = [php.obj[t] EXCEPT !.old = php.obj[t].old \/ php.obj[t].live]
    BY <1>4, <1>5 DEF ObjectType
  <2>2. php.obj[t].old => php.obj[t].live
    BY <1>3 DEF LinkInv, ObjectInv
  <2> HIDE DEF obj
  <2>3. /\ obj[t] \in ObjectType /\ obj[t].live = php.obj[t].live
        /\ obj[t].old = (php.obj[t].old \/ php.obj[t].live)
    BY <2>1 DEF ObjectType
  <2> QED BY <2>2, <2>3
<1>8. obj \in [Stmts -> ObjectType]
  BY <1>7
<1> HIDE DEF obj
<1>9. q \in PhpType /\ ~q.lost /\ q.run = NoMethod /\ q.obj = obj /\ q.driver = "mysqli"
  BY <1>3, <1>4, <1>5, <1>6, <1>8 DEF PhpType
<1> HIDE DEF q
<1>10. \A t \in Stmts : ~Mine(q, t) /\ (q.obj[t].old => q.obj[t].live /\ q.driver = "mysqli")
  BY <1>7, <1>9 DEF Mine
<1>11. LinkInv(OpenConnection, q)
  BY <1>9, <1>10, FreshLink
<1>12. outcome \in {"ok", "error"}
  OBVIOUS
<1>13. m.call = "open" /\ m.rc = outcome /\ m.missing = 0
  BY DEF Said
<1> HIDE DEF outcome, m
<1>14. Tells(OpenConnection, q, m) /\ Refetches(php, m)
  BY <1>12, <1>13 DEF Tells, Refetches
<1> QED BY <1>2, <1>11, <1>14, StepIs
-----------------------------------------------------------------------------
(* A step of any method keeps the invariant. *)
LEMMA NextKeeps ==
  ASSUME PhpInv, Next
  PROVE  PhpInv' /\ Refetches(php, told')
<1>1. CASE \E s \in Stmts :
             \/ RunQuery(s) \/ Prepare(s) \/ FreeStatement(s)
             \/ MyliteExecute(s) \/ MyliteFetch(s)
             \/ PdoExecute(s) \/ PdoFetch(s) \/ PdoCloseCursor(s)
             \/ MysqliExecute(s)
  <2>1. PICK s \in Stmts :
             \/ RunQuery(s) \/ Prepare(s) \/ FreeStatement(s)
             \/ MyliteExecute(s) \/ MyliteFetch(s)
             \/ PdoExecute(s) \/ PdoFetch(s) \/ PdoCloseCursor(s)
             \/ MysqliExecute(s)
    BY <1>1
  <2>2. CASE RunQuery(s) \/ Prepare(s) \/ FreeStatement(s)
    BY <2>2, RunQueryKeeps, PrepareKeeps, FreeStatementKeeps
  <2>3. CASE MyliteExecute(s) \/ MyliteFetch(s) \/ MysqliExecute(s)
    BY <2>3, MyliteExecuteKeeps, MyliteFetchKeeps, MysqliExecuteKeeps
  <2>4. CASE PdoExecute(s) \/ PdoFetch(s) \/ PdoCloseCursor(s)
    BY <2>4, PdoExecuteKeeps, PdoFetchKeeps, PdoCloseCursorKeeps
  <2> QED BY <2>1, <2>2, <2>3, <2>4
<1>2. CASE StepMethod \/ FinishQuery
  BY <1>2, StepMethodKeeps, FinishQueryKeeps
<1>3. CASE RunExec \/ DropLink \/ CloseLink \/ Connect \/ RealConnect
  BY <1>3, RunExecKeeps, DropLinkKeeps, CloseLinkKeeps, ConnectKeeps, RealConnectKeeps
<1> QED BY <1>1, <1>2, <1>3 DEF Next

(* The first connection object. *)
LEMMA InitHolds ==
  ASSUME Init
  PROVE  PhpInv
<1>1. PICK driver \in {"mylite", "pdo", "mysqli"} : php = NewLink(driver)
  BY DEF Init
<1>2. LinkInv(OpenConnection, NewLink(driver))
  <2>1. LinkInv(OpenConnection, [NewLink(driver) EXCEPT !.lost = FALSE])
        /\ LinkInv(OpenConnection, NewLink(driver))
    BY NewLinkIs
  <2> QED BY <2>1
<1>3. conn = OpenConnection /\ told = Nothing
  BY DEF Init
<1>4. Tells(conn, php, told)
  BY <1>3, NothingTells
<1> QED BY <1>1, <1>2, <1>3, <1>4 DEF PhpInv

(* The invariant of the PHP packages: the connection serves, every statement  *)
(* object agrees with the mylite_stmt behind it, the method in progress has   *)
(* come as far as its fields say, and what a method told was true.            *)
THEOREM PhpInvariant == Spec => []PhpInv
<1>1. Init => PhpInv
  BY InitHolds
<1>2. PhpInv /\ [Next]_vars => PhpInv'
  <2> SUFFICES ASSUME PhpInv, [Next]_vars PROVE PhpInv'
    OBVIOUS
  <2>1. CASE Next
    BY <2>1, NextKeeps
  <2>2. CASE UNCHANGED vars
    <3>1. conn' = conn /\ php' = php /\ told' = told
      BY <2>2 DEF vars
    <3> QED BY <3>1 DEF PhpInv
  <2> QED BY <2>1, <2>2
<1> QED BY <1>1, <1>2, PTL DEF Spec

(* The objects keep their types; in particular no more rows are given than an *)
(* execution has produced.                                                    *)
THEOREM PhpTypes == Spec => []TypeOK
<1>1. PhpInv => TypeOK
  BY DEF PhpInv, LinkInv, PhpType, MethodType, Tells, TypeOK
<1> QED BY <1>1, PhpInvariant, PTL

(* A script that is told of the end of the rows, or given a whole result, has *)
(* been given every row of the execution, but for rows that a call for        *)
(* another statement or a refused reset threw away.                           *)
THEOREM EndIsComplete == Spec => []EndMeansComplete
<1>1. PhpInv => EndMeansComplete
  BY DEF PhpInv, Tells, EndMeansComplete
<1> QED BY <1>1, PhpInvariant, PTL

(* An execute that reports success ran the statement, but for the refused     *)
(* resets that the PDO driver ignores.                                        *)
THEOREM ExecuteRuns == Spec => []ExecuteRan
<1>1. PhpInv => ExecuteRan
  BY DEF PhpInv, Tells, ExecuteRan
<1> QED BY <1>1, PhpInvariant, PTL

(* The diagnostics of an error are still there when the extension looks them  *)
(* up, after mylite_finalize too.                                             *)
THEOREM DiagnosticsStay == Spec => []DiagnosticsSurvive
<1>1. PhpInv => DiagnosticsSurvive
  BY DEF PhpInv, Tells, DiagnosticsSurvive
<1> QED BY <1>1, PhpInvariant, PTL

(* The shim leaves no statement reading: it reads every row or its error.     *)
THEOREM ShimIsReady == Spec => []ShimStaysReady
<1>1. PhpInv => ShimStaysReady
  <2> SUFFICES ASSUME PhpInv, php.driver = "mysqli", Idle
               PROVE  /\ Ready(conn.lib)
                      /\ told.call = "execute" /\ told.rc = "ok" => ~told.failed
    BY DEF ShimStaysReady
  <2>1. Serves(conn) /\ ShimInv(conn, php) /\ php.run.call = "none"
    BY NoMethodIs DEF PhpInv, LinkInv, Idle
  <2>2. conn.lib.owner = None
    BY <2>1 DEF ShimInv
  <2>3. Ready(conn.lib)
    BY <2>1, <2>2 DEF Serves, ConnOK, LibInv, Ready
  <2> QED BY <2>3 DEF PhpInv, Tells
<1> QED BY <1>1, PhpInvariant, PTL

(* No destructor's close is refused, in whatever order the objects are freed. *)
THEOREM NoHandleIsLost == Spec => []HandlesAreClosed
<1>1. PhpInv => HandlesAreClosed
  BY DEF PhpInv, LinkInv, HandlesAreClosed
<1> QED BY <1>1, PhpInvariant, PTL

(* A fetch executes the statement only after a step of it that failed.        *)
THEOREM FetchesDoNotRun == Spec => FetchNeverRuns
<1>1. PhpInv /\ [Next]_vars =>
        [told'.call = "fetch" /\ told'.ran => php.obj[told'.stmt].step = "ERROR"]_vars
  <2> SUFFICES ASSUME PhpInv, Next
               PROVE  told'.call = "fetch" /\ told'.ran => php.obj[told'.stmt].step = "ERROR"
    OBVIOUS
  <2> QED BY NextKeeps DEF Refetches
<1> QED BY <1>1, PhpInvariant, PTL DEF Spec, FetchNeverRuns
=============================================================================
