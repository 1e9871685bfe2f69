CONSTANTS
  LA = LA
  LB = LB
  SOM = SOM
  Boards = {LA, LB, SOM}
  Modes <- MCModes
  HasDir = {LA, LB}
  Contents <- Complete
  MaxGen = 2
  MaxRounds = 3
  MaxMounts = 2
  Faults = {"signtool", "bin2ext4"}
  Missing = Missing
  Broken = Broken
SPECIFICATION Spec
INVARIANTS
  RunUpdates
CHECK_DEADLOCK FALSE
