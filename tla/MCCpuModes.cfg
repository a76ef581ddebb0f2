SPECIFICATION EditSpec
CONSTANTS
  ADDR_SPACE = 8
  COUNT_SPACE = 1
  COUNT_DIVIDER = 1
  IRQ_LINE = 4
  Vector <- VectorMap
  RESET_VECTOR = 0
  LINUX_ENTRY = 4
  Targets = {4}
  StatusWrites <- ModeStatus
  CauseWrites <- TwoCauses
INVARIANTS
  EditHeals
PROPERTIES
  UserConfined
