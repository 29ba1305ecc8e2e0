SPECIFICATION Spec
CONSTANTS
  Procs = {p1, p2}
  NPAGES = 18
  FAN = 2
  STACKLOADED = 1
  Values = {"v", "w"}
  Image = "v"
  Programs <- MCPrograms
  STACK <- MCStack
VIEW Live
SYMMETRY Sym
PROPERTIES
  PagesExact
  MemoryIsPrivate
CHECK_DEADLOCK FALSE
