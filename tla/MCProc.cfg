SPECIFICATION FairSpec
CONSTANTS
  u1 = u1
  u2 = u2
  init = init
  idle = idle
  AnyChild = AnyChild
  Procs <- MCProcs
  MAX_PROCESS = 4
INVARIANTS
  RunQueueExact
  ZombieInert
  ParentAlive
  NoMissedChild
  TimerOfSleeper
  InitEndsAlone
PROPERTIES
  OrphanReaped
  KilledSleeperExits
