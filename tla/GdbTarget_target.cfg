SPECIFICATION FairSpec
CONSTANTS
  NumCores = 2
  Ram = {"r1"}
  Rom = {"f1", "f2"}
  Watches = {"w1"}
  FpbComps = 1
  DwtComps = 2
  TableSize = 2
  MaxOps = 4
  MaxErrs = 1
INVARIANTS
  AllStop
  ArmedOnAll
  CodeRestored
  StopKind
PROPERTIES
  StopReported
CHECK_DEADLOCK FALSE
