SPECIFICATION FlashSpec
CONSTANTS
  Families = {"rp2040", "nrf52", "nrf54"}
  NumSectors = 2
  Data = {"a", "b"}
  MaxRequests = 3
  MaxFailures = 2
INVARIANTS
  WrittenIsFlash
  FlashReadable
CHECK_DEADLOCK FALSE
