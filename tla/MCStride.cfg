SPECIFICATION FairSpec
CONSTANTS
  p1 = p1
  p2 = p2
  p3 = p3
  idle = idle
  NULL = NULL
  Procs <- MCProcs
  W = 3
  MAX_TIME_SLICE = 1
  Priorities = {0, 1, 2}
  MaybeSlices <- MCSlices
VIEW LiveState
INVARIANTS
  HeapExact
PROPERTIES
  PicksSmallest
  SwitchIsSched
  QueuedRuns
