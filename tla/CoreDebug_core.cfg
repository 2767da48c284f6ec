SPECIFICATION Spec
CONSTANTS
  Clobbered <- MCClobbered
  Breakable = {"f1", "f2"}
  Unbreakable = {"ram"}
  Watches = {"w1", "w2"}
  NumFp = 2
  NumDwt = 2
  Polls = 2
  MaxOps = 5
  MaxErrs = 1
INVARIANTS
  CallTransparent
  ReplyIsArmed
  WatchArmedWhole
  ReasonHeld
CHECK_DEADLOCK FALSE
