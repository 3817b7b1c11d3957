CONSTANTS
  NumSectors = 9
  SectorSize = 2
  NumDirEntries = 3
  Straddle = 2
  NumDirect = 2
  FileNames <- MCFileNames
  Requests <- MCRequests
  HeapBytes <- MCHeapBytes
  Sizes = {0, 3}
  Bytes = {0, 1}
  MaxRequest = 3
  NoFile = NoFile
  a = a
  b = b
  x = x
  y = y
  z = z
SYMMETRY NameSymmetry
SPECIFICATION Spec
INVARIANTS MapExact MetadataSafe CrashDamage
PROPERTY ImplementsStore
CHECK_DEADLOCK FALSE
