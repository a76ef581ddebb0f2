SPECIFICATION HostSpec
CONSTANTS
  WIDTH = 2
  HEIGHT = 2
  STRIDE = 6
  COUNT = 4
  TREE_WIDTH = 5
  TREE_HEIGHT = 3
  Shapes <- MCShapes
  Thresholds <- MCThresholds
  TRACE_CAPACITY = 3
  EXCEPTION_CAPACITY = 2
  MAX_EVENTS = 4
  UART_LINE_CAPACITY = 2
  UART_LINE_LENGTH = 3
  MONITOR_LINE_CAPACITY = 3
  DEBUG_LINE_LENGTH = 3
  PAGE = 2
  ROWS = {3, 6, 8}
  MAX_TEXT = 9
INVARIANTS
  FbSafe
  TreeSafe
  TraceSafe
  PanesSafe
  SessionSafe
PROPERTIES
  DebtKept
CHECK_DEADLOCK FALSE
