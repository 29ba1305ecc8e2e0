SPECIFICATION ClockSpec
CONSTANTS
  PPAGES = 4
  VFIRST = 1
  VLAST = 5
  MAX_SWAP_OFFSET = 7
  Values = {"v"}
PROPERTIES
  AccessedStays
