CONSTANTS
  Procs = {p1, p2}
  Null = Null
  Faults = {"open", "driver"}
  Garbage <- MCGarbage
  Said <- MCSaid
  MaxLeft = 12
  Strangers = {p2}
  BufSize = 2
  MaxHurt = 1
SPECIFICATION DemoSpec
CHECK_DEADLOCK FALSE
INVARIANTS
  AnswerGenuine
  ScanFailsForCause
  HuntEnds
  Released
