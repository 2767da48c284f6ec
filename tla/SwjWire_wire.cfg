SPECIFICATION Spec
CONSTANTS
  Links = {"bitbang", "pio"}
  Ports = {"Swd", "Jtag"}
  Bits = 2
  Addrs <- TwoAddrs
  Words <- TwoWords
  Trns = {1, 2}
  Idles = {0, 2}
  Chains <- TwoChains
  ResetOnes = 13
  MaxOps = 4
  MaxNoise = 1
CHECK_DEADLOCK FALSE
INVARIANTS
  NoContention
  InStep
  ResultExact
  OnlyAskedAlone
