SPECIFICATION PinsSpec
CONSTANTS
  Transports = {"swd", "jtag", "swj", "pio_swd", "pio_jtag"}
  MaxParts = 2
  MaxCommands = 12
CHECK_DEADLOCK FALSE
INVARIANTS
  ResetOnlyAsked
  ReleasedUnlessLoose
  WritesReach
