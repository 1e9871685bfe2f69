CONSTANTS
  Sessions = {s1}
  Handles = {h1, h2}
  Null = Null
  Faults = {}
  KeyIds = {k1}
  Ivs = {iv1}
  HeapBlocks = 3
SPECIFICATION Spec
INVARIANT
  KeyLengthAsPrepared
