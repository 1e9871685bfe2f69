CONSTANTS
  c1 = c1
  c2 = c2
  small = small
  large = large
  huge = huge
  Clients = {c1, c2}
  Ids = {i1, i2}
  Values = {small, large, huge}
  SizeOf <- MCSizeOf
  HeapBlocks = 4
  Faults = {"create", "write", "open", "read"}
  Null = Null
  Empty = Empty
  Object = i1
  Strangers = {c2}
  DataOf <- MCDataOf
SPECIFICATION DemoSpec
INVARIANTS
  TypeOK
  ReadsWhatWasWritten
  HeapAccounted
  ContentAsWritten
  LeavesNothing
PROPERTIES
  FailsForCause
