CONSTANTS
  Sessions = {s1, s2}
  Handles = {h1, h2}
  Null = Null
  Faults = {"alloc", "malloc", "populate", "set_operation_key"}
  KeyIds = {k1}
  KeySizes = {2}
  Chunks = {c1, c2}
  MaxChunks = 1
  DemoKey = k1
  First = c1
  Second = c2
SYMMETRY Symmetry
SPECIFICATION DemoSpec
CHECK_DEADLOCK FALSE
INVARIANTS
  TypeOK
  HandlesExact
  OpHasObject
  ResultsRight
  NeverOutOfOrder
PROPERTIES
  ImplementsKeyService
