SPECIFICATION RingsSpec
CONSTANTS
  b1 = b1
  b2 = b2
  Bytes = {b1, b2}
  RX_FIFO_SIZE = 3
  TX_FIFO_SIZE = 3
  MaxOut = 5
  MaxRegisterOut = 2
  MaxRegisterIn = 2
  MEMORY_SIZE = 4
  FB_BASE = 4
  FB_CAPACITY = 4
  UART_BASE = 8
  MAX_STORES = 4
INVARIANTS
  RxRingSafe
  TxRingSafe
  BusExact
PROPERTIES
  PromisesKept
  RxImplementsQueue
  TxImplementsStream
  WaitingGuestSeesThre
  RequestsKept
  HandlerReturns
