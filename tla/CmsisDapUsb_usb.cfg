SPECIFICATION FairSpec
CONSTANTS
  Requests <- TwoPackets
  MaxPacket = 4
  MaxSent = 4
  MaxKills = 2
  MaxResets = 2
INVARIANTS
  DeliveredInOrder
  AnswerNotLost
PROPERTIES
  NothingLeaksAcrossReset
  SessionKept
  IdleRequestServed
