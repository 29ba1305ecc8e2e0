SPECIFICATION FairSpec
CONSTANTS
  idle = idle
  s1 = s1
  s2 = s2
  Procs = {p1, p2, p3}
  Sems <- MCSems
  Initial <- MCInitial
  MaxValue = 2
INVARIANTS
  QueuesExact
  NoWaiterLeft
PROPERTIES
  Semaphore
  WaiterServed
