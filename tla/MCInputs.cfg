SPECIFICATION InputsSpec
CONSTANTS
  Chars = {"r", "1", " "}
  Space = " "
  LINE = 7
  MAX_TOKENS = 3
  Reg <- Keyword
  MemWrite <- WriteKeyword
  Readers <- ReadKeywords
  RegisterNames <- ConsoleNames
  ReadOnlyNames <- Constants
  Addresses <- Constants
  Numbers <- Constants
  EXCESS = 1
  INITIAL_CAPACITY = 2
  MAX_CAPACITY = 4
  CHUNK = 3
  RX_FIFO_SIZE = 2
  INPUT = 7
  WORD = 64
  RAM_SIZE = 6
  MAX_LOAD_SEGMENTS = 2
  CHUNK_SIZE = 2
  IMAGE_SIZE = 4
  COUNT = 3
  ProgramHeaders <- MCProgramHeaders
  Entries <- MCEntries
  ReservedSets <- MCReservedSets
  MEMORY_END = 11
  Alignments <- MCAlignments
  Sizes <- MCSizes
  Reservations <- MCReservations
  DTB_PHYSICAL_ADDRESS = 2
  DTB_RESERVED_SIZE = 3
  FDT_HEADER_SIZE = 1
  INITRAMFS_ALIGNMENT = 2
  Kernels <- MCKernels
  Blobs <- MCBlobs
  BOOTS = 2
  INITRD_START = 5
  INITRD_END = 7
  DEPTH = 2
  PROPS = 2
INVARIANTS
  ConsoleSafe
  InputSafe
  ElfSafe
  PlaceSafe
  FdtSafe
  BootSafe
PROPERTIES
  ChangesAsTyped
  LossIsSignalled
CHECK_DEADLOCK FALSE
