SPECIFICATION CpuFairSpec
CONSTANTS
  ADDR_SPACE = 4
  COUNT_SPACE = 3
  COUNT_DIVIDER = 2
  IRQ_LINE = 4
  Vector <- VectorMap
  RESET_VECTOR = 0
  LINUX_ENTRY = 0
  Targets = {0}
  StatusWrites <- ClockStatus
  CauseWrites <- TwoCauses
PROPERTIES
  TimerNotLost
  TimerDelivered
