SPECIFICATION Spec
CONSTANTS
  Irqs <- MCIrqs
  NPrio = 1
  Addrs = {0}
  NoAddr = 0
  FifoSize = 2
  Bytes <- MCBytes
  MRs = {0}
  Word = 3
  Uarts = {0}
  Timers = {0, 1}
  UART_INT_CYCLE = 2
  Tns = {0, 2}
  IerData <- MCIerData
  LcrData = {TRUE, FALSE}
  TcrData <- MCTcrData
  McrData <- MCMcrData
  CountData = {2}
  PreData <- MCPreData
  CtcrData <- MCCtcrData
  MaxIn = 2
  Guests <- MCGuests
INVARIANTS
  TypeOK
  LineHasCause
  TxConservation
  StepStopsAtMatch
