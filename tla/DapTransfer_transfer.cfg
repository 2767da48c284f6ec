SPECIFICATION FairSpec
CONSTANTS
  MaxRequests = 4
  MaxDecoded = 3
  MaxBlock = 3
  Ops <- AllOps
  DecodeOps = {"APR", "DPW", "APM"}
  Patterns <- WordPatterns
  Packets <- MCPackets
  Ports = {"Swd"}
  RetryCounts = {0, 2}
  MatchRetries = {1}
INVARIANTS
  ResponseInOrder
  ResponseComplete
  CountedOnceInOrder
  OkMeansConfirmed
  MatchComparesOwnRegister
  NeverPanics
  ConsumedExceptAfterDrain
PROPERTY CommandAnswered
