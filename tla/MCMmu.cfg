SPECIFICATION Spec
CONSTANTS
  PageWords = 4
  SectionPages = 2
  L1desc <- MCL1
  L2desc <- MCL2
  LineWords = 4
  WbNum = 2
  Domains = {0}
  FlushWords = {12, 13, 14, 15}
  Loaded <- MCLoaded
  Table = 0
  Access <- MCAccess
  VPages = {0, 1, 2, 3, 4}
  MapOf <- MCMapOf
  FreePage = 1
  DescVa = 3
  DescPa = 3
  Programs <- MCPrograms
  Data = {0, 1}
INVARIANTS
  TypeOK
  
  TlbCurrent
  LoadsAgree
