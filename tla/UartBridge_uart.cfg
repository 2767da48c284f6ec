SPECIFICATION FairSpec
CONSTANTS
  RxRoom = 2
  TxRoom = 1
  FifoRoom = 1
  UsbRoom = 1
  MaxRx = 3
  MaxTx = 2
  MaxAsks = 1
  c1 = c1
  c2 = c2
  c3 = c3
  Codings = {c1, c2, c3}
  Supported = {c1, c2}
  UsbCoding = c2
  UartCoding = c1
INVARIANTS
  StoppedOnlyWhileFull
PROPERTIES
  ChannelsKept
  BytesMove
  CodingApplied
