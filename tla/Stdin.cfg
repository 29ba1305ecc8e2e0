SPECIFICATION FairSpec
CONSTANTS
  idle = idle
  Procs = {p1, p2, p3}
  STDIN_BUFSIZE = 2
  MaxLen = 3
  MaxTyped = 3
INVARIANTS
  NoLostChar
  QueueExact
PROPERTIES
  RingIsLine
  CharIsRead
