CONSTANTS
  s1 = s1
  s2 = s2
  k1 = k1
  k2 = k2
  iv1 = iv1
  iv2 = iv2
  Sessions = {s1, s2}
  Strangers = {s2}
  Handles = {h1, h2}
  Null = Null
  Faults = {"alloc", "malloc", "populate", "set_operation_key"}
  KeyIds = {k1, k2}
  Ivs = {iv1, iv2}
  HeapBlocks = 3
  KeyOf <- MCKeyOf
  IvOf <- MCIvOf
SPECIFICATION DemoSpec
CHECK_DEADLOCK FALSE
INVARIANTS
  TypeOK
  NoStaleHandle
  NoLeak
  BothOrNeither
  ResetAllowed
  SizesAgree
  DecodedIsClear
  OnlyFailsForResources
PROPERTIES
  ImplementsService
  EndsClean
  Answered
