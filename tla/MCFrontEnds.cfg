SPECIFICATION FrontEndsSpec
CONSTANTS
  TUI_BATCH = 2
  HEADLESS_BATCH = 3
  MANY = 3
  LIMITS <- MCLimits
  BATCH = 3
  STEP_MANY = 2
  MaxLoads = 3
  MaxTicks = 3
  SURFACE_WIDTH = 20
  SURFACE_HEIGHT = 20
  InitialPhases = {0, 2}
  Limits = {0, 2}
  Topologies <- MCTopologies
  DX = 3
  DY = 2
  TICKS = 2
INVARIANTS
  StepsExact
  StopsExactly
  LoopSafe
  DeskSafe
PROPERTIES
  LoopEnds
  PlayerSafe
CHECK_DEADLOCK FALSE
