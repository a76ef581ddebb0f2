SPECIFICATION CpuSpec
CONSTANTS
  ADDR_SPACE = 20
  COUNT_SPACE = 1
  COUNT_DIVIDER = 1
  IRQ_LINE = 4
  Vector <- VectorMap
  RESET_VECTOR = 8
  LINUX_ENTRY = 12
  Targets = {12, 18}
  StatusWrites <- FlowStatus
  CauseWrites = {}
INVARIANTS
  CpuSafe
PROPERTIES
  CpuImplementsFlow
