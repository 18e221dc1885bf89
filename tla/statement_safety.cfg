SPECIFICATION Spec
CONSTANTS
  None = None
  SqlNull = SqlNull
  NumColumns = 2
  Buffers = {b1, b2, b3, b4}
  MaxLength = 3
  InitialSize = 1
  MaxRows = 3
  Params = {i1}
  Values = {v1}
SYMMETRY Symmetry
INVARIANTS
  TypeOK
  FetchTargetsOwned
  RowIsComplete
  DoneMeansDelivered
  BindingsFrozen
  
