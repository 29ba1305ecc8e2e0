SPECIFICATION Spec
CONSTANTS
  f1 = f1
  f2 = f2
  d1 = d1
  d2 = d2
  FileNames <- MCFileNames
  Descs <- MCDescs
  BLKSIZE = 2
  NDIRECT = 1
  BLK_NENTRY = 2
  NBLOCKS = 3
  MAX_FILE_SIZE = 5
VIEW Live
SYMMETRY Sym
INVARIANTS
  BlocksExact
PROPERTIES
  FilesAreBytes
  StopsOnlyIf
CHECK_DEADLOCK FALSE
