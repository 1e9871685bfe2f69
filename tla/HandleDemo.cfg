CONSTANTS
  Procs = {p1, p2}
  Sessions <- MCSessions
  Handles = {h1, h2, h3, h4}
  Null = Null
  Peer = Peer
  Own = Own
  Vectors = {Peer, Own}
  Strangers = {p2}
  MaxGrasp = 1
  Faults = {"alloc", "malloc", "populate", "set_operation_key"}
SYMMETRY Symmetry
SPECIFICATION DemoSpec
CHECK_DEADLOCK FALSE
INVARIANTS
  SecretsAgree
  SignatureVerifies
  FailsForCause
  Footprint
