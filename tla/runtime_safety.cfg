SPECIFICATION Spec
CONSTANTS
  p1 = p1
  p2 = p2
  t1 = t1
  t2 = t2
  t3 = t3
  a1 = a1
  a2 = a2
  dir = dir
  None = None
  Stale = Stale
  Memory = Memory
  Procs = {p1, p2}
  Threads = {t1, t2, t3}
  ProcOf <- MCProcOf
  Paths = {a1, a2}
  DirOf <- MCDirOf
  Handles = {h1, h2}
  Timeouts = {1}
  MaxStatements = 1
SYMMETRY Symmetry
INVARIANTS
  TypeOK
  RefCountExact
  ServerOwnsDirectory
  HandlesHaveRuntime
  RestOwnsNothing
PROPERTIES
  FilesChangeUnderLock
  RuntimeImplementsOwnership
