SPECIFICATION Spec
CONSTANTS
  Window = 20
  MaxAssignments = 2
INVARIANTS
  RefusesUnsupported
  AcceptsSupported
  SchemaFollowsUse
