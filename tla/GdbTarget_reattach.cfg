SPECIFICATION Spec
CONSTANTS
  NumCores = 2
  Ram = {"r1"}
  Rom = {"f1", "f2"}
  Watches = {"w1"}
  FpbComps = 1
  DwtComps = 1
  TableSize = 2
  MaxOps = 4
  MaxErrs = 0
INVARIANTS
  SavedIsOriginal
CHECK_DEADLOCK FALSE
