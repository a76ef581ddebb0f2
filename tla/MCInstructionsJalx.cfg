SPECIFICATION InstructionsSpec
CONSTANTS
  ENTRIES = 3
  Asids = {0, 1}
  UserPages = {1, 2}
  Mappable <- OwnedPages
  WIRED_SPAN = 2
  t1 = t1
  t2 = t2
  Tasks = {t1, t2}
  Kernel = kernel
  w1 = w1
  w2 = w2
  Words = {w1, w2}
  NoWord = none
  MAX_WRITES = 3
  MEMORY_SIZE = 8
  SPACE = 16
  CHUNK = 3
  FillValue = 99
  FirstRam <- DistinctRam
  FirstReg <- DistinctReg
  MaxRounds = 2
  WIDTH = 4
  Seeds = {5, 15}
  REGION = 32
  REGIONS = 2
INVARIANTS
  JalxAsPrinted
CHECK_DEADLOCK FALSE
