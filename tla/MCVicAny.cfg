SPECIFICATION Spec
CONSTANTS
  Irqs <- MCIrqs
  NPrio = 2
  Addrs = {0}
  NoAddr = 0
  SelectData <- MCSelectData
  SoftData <- MCSoftData
  MaskData <- MCMaskData
  PrioData <- MCPrioData
INVARIANTS
  TypeOK
  SignalsFollowStatus
  NoOverlookedIrq
PROPERTY
  NestingDiscipline
