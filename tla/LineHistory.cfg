CONSTANTS
  HistoryMax = 4
  Empty = Empty
  Lines = {Empty, a, b}
  Ptr = {p1, p2, p3, p4, p5}
  Null = Null
  Unused = Unused
  MallocFails = FALSE
SYMMETRY Blocks
SPECIFICATION Spec
INVARIANT OneOwner
PROPERTY ImplementsInputHistory
CHECK_DEADLOCK FALSE
