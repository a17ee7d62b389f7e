SPECIFICATION Spec
CONSTANTS
  Irqs <- MCIrqs
  NPrio = 2
  Addrs <- MCAddrs
  NoAddr = 99
  FifoSize = 2
  Bytes <- MCBytes
  MRs = {0}
  Word = 4
  Uarts = {2}
  Timers = {0}
  UART_INT_CYCLE = 6
  Tns = {0}
  EoiFirst = TRUE
  Level <- MCFlat
  Period = 3
  MaxIn = 3
  Boots <- MCBoots
INVARIANTS
  RxInOrder
  TxInOrder
  EoiRetiresOwnRequest
PROPERTIES
  AllReceived
  AllSent
  TimerServed
