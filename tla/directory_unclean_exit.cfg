SPECIFICATION Spec
CONSTANTS
  Openers = {o1, o2, o3}
  Faults = {"crash"}
SYMMETRY Symmetry
INVARIANT UncleanExitAllowsOpen
