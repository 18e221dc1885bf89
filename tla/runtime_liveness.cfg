SPECIFICATION LiveSpec
CONSTANTS
  p1 = p1
  p2 = p2
  t1 = t1
  t2 = t2
  t3 = t3
  a1 = a1
  dir = dir
  None = None
  Stale = Stale
  Memory = Memory
  Procs = {p1, p2}
  Threads = {t1, t2, t3}
  ProcOf <- MCProcOf
  Paths = {a1}
  DirOf <- MCDirOf
  Handles = {h1, h2}
  Timeouts = {1}
  MaxStatements = 0
  MaxOpens = 1
  Mortal = {p2}
INVARIANTS
  Inv
PROPERTIES
  CallsReturn
  LockIsGivenBack
CHECK_DEADLOCK FALSE
