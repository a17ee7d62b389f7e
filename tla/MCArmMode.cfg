SPECIFICATION MCSpec
CHECK_DEADLOCK FALSE
CONSTANTS
  Values = {0, 1, 2}
  FiqRegs = {8}
  MayAbort = {FALSE}
  PsrData <- MCPsrData
  LoadData <- MCLoadData
  RetData = {1}
  MaxSteps = 4
INVARIANTS
  TypeOK
  RoundTrip
PROPERTIES
  BanksAreInvisible
  UserModeIsConfined
