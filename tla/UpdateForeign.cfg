CONSTANTS
  LA = LA
  LB = LB
  SOM = SOM
  Boards = {LA, LB, SOM}
  Modes <- MCModes
  HasDir = {LA, LB}
  Contents <- TeeAlone
  MaxGen = 2
  MaxRounds = 3
  MaxMounts = 2
  Faults = {"signtool"}
  Missing = Missing
  Broken = Broken
SPECIFICATION Spec
INVARIANTS
  OwnImagesOnly
CHECK_DEADLOCK FALSE
