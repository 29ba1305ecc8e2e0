SPECIFICATION FairSpec
CONSTANTS
  idle = idle
  mutex = mutex
  N = 3
  TIMES = 2
  Procs <- MCProcs
  Sems <- MCSems
INVARIANTS
  NoMissedFork
PROPERTIES
  ForksExclusive
  AllQuit
