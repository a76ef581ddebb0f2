SPECIFICATION CpuSpec
CONSTANTS
  ADDR_SPACE = 8
  COUNT_SPACE = 3
  COUNT_DIVIDER = 2
  IRQ_LINE = 7
  Vector <- VectorMap
  RESET_VECTOR = 0
  LINUX_ENTRY = 4
  Targets = {4}
  StatusWrites <- ClockStatus
  CauseWrites <- TwoCauses
PROPERTIES
  TimerNotLost
