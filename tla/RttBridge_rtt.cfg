SPECIFICATION FairSpec
CONSTANTS
  Size = 3
  Chunk = 2
  DumpMax = 2
  TxRoom = 2
  MinRoom = 1
  RxRoom = 2
  MaxUp = 2
  MaxDown = 3
  MaxDumps = 2
  MaxResets = 1
  MaxErrs = 1
CHECK_DEADLOCK FALSE
INVARIANTS
  UpKept
  DownKept
PROPERTY UpArrives
