SPECIFICATION FairSpec
CONSTANTS
  Requests <- OneCommand
  MaxPacket = 4
  MaxSent = 3
  MaxKills = 0
  MaxResets = 0
PROPERTY RequestServed
