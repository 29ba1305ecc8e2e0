SPECIFICATION ListsSpec
CONSTANTS
  Procs = {p1, p2, p3}
  MaxTime = 4
  NoProc = NoProc
  u1 = u1
  u2 = u2
  u3 = u3
  u4 = u4
  idle = idle
  init = init
  NULL = NULL
  Relatives <- MCRelatives
  PPAGES = 3
  VFIRST = 1
  VLAST = 4
  MAX_SWAP_OFFSET = 7
  Values = {"v", "w"}
  N = 8
  free_list = free_list
  TopStaysFree = TRUE
  PAGE_SIZE = 10
  SLOB_UNIT = 2
  BIGBLOCK = 3
  HEAPPAGES = 3
  Requests = {2, 3, 11, 21}
VIEW Matters
SYMMETRY Sym
INVARIANTS
  LinksAgree
  FreeListExact
  SlobExact
PROPERTIES
  FiresOnTime
  LinksAreFamily
  FifoPaging
  FirstFitPool
  HeapIsPool
