SPECIFICATION Spec
CONSTANTS
  Irqs <- MCIrqs
  NPrio = 2
  Addrs <- MCAddrs
  NoAddr = 99
  FifoSize = 2
  Bytes <- MCBytes
  MRs = {0}
  Word = 4
  Uarts = {0}
  Timers = {0}
  UART_INT_CYCLE = 6
  Tns = {0}
  EoiFirst = FALSE
  Level <- MCAbove
  Period = 3
  MaxIn = 2
  Boots <- MCRx
INVARIANTS
  EoiRetiresOwnRequest
