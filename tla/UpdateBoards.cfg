CONSTANTS
  LA = LA
  LB = LB
  SOM = SOM
  Boards = {LA, LB, SOM}
  Modes <- MCModes
  HasDir = {LA, LB}
  Contents <- TeeAlone
  MaxGen = 2
  MaxRounds = 3
  MaxMounts = 2
  Faults = {"mount", "cp", "umount", "sbmeta.py", "signtool", "mv", "bin2ext4"}
  Missing = Missing
  Broken = Broken
SPECIFICATION Spec
INVARIANTS
  TypeOK
  CleanVouches
  UpdatedOrTold
CHECK_DEADLOCK FALSE
