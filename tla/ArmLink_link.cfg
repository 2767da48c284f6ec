SPECIFICATION Spec
CONSTANTS
  Families = {"rp2040", "nrf"}
  WordBytes = 2
  RunBytes = 8
  ChunkWords = 2
  MemBytes = 12
  Spans <- MCSpans
  Retries = 1
  Polls = 2
  MaxOps = 4
  MaxFaults = 2
INVARIANTS
  CachesAgree
  MemoryExact
CHECK_DEADLOCK FALSE
