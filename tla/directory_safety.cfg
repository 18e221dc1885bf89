SPECIFICATION Spec
CONSTANTS
  Openers = {o1, o2, o3}
  Faults = {"crash", "io", "flush"}
SYMMETRY Symmetry
INVARIANTS
  TypeOK
  NoSilentRepair
  OkMeansLayout
  RacingCreatorsConverge
