SPECIFICATION Spec
CONSTANTS
  s1 = s1
  s2 = s2
  Stmts = {s1, s2}
  None = None
  Rows = {0, 2}
  Counts = {1}
  Warnings = {0}
  MaxSets = 1
  MaxDepth = 1
  ReentrantCall = FALSE
SYMMETRY Symmetry
INVARIANT DoneMeansComplete
