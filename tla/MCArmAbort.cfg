SPECIFICATION MCSpec
CHECK_DEADLOCK FALSE
CONSTANTS
  Values = {0, 1, 2}
  FiqRegs = {8}
  MayAbort = {TRUE}
  PsrData <- MCPsrData
  LoadData <- MCLoadData
  RetData = {1}
  MaxSteps = 5
PROPERTY
  UserTransferKeepsBanks
