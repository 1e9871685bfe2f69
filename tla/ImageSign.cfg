CONSTANTS
  kernel = kernel
  dtb = dtb
  d1 = d1
  d2 = d2
  LA = LA
  Singles = {"tf"}
  BootFiles <- MCBootFiles
  Data = {d1, d2}
  Versions <- MCVersions
  Boards = {LA, NoBoard}
  Requests <- MCRequests
  MaxRuns = 3
  Faults = {"signtool", "cat", "mount", "cp", "umount"}
  NoBoard = NoBoard
  Missing = Missing
  Broken = Broken
SYMMETRY Symmetry
SPECIFICATION Spec
INVARIANTS
  SignedAsAsked
  BootFilesKept
