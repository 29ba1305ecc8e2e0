SPECIFICATION ForkSpec
CONSTANTS
  Procs = {p1, p2, p3, p4}
  MAX_PROCESS = 5
  MAX_PID = 7
  Owners = {o1, o2}
  NULL = NULL
  Regular = {file}
  Dirs = {root, dir}
  root = root
  NENTRY = 2
  STD = 1
  Structs = {s1, s2}
  MaxLost = 1
INVARIANTS
  InodesExact
  ResourcesExact
PROPERTIES
  PidsUnique
  ScanEnds
CHECK_DEADLOCK FALSE
