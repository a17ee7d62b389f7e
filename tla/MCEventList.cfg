SPECIFICATION Spec
CONSTANTS
  EVENTLISTSIZE = 5
  TimeWord = 15
  Events = {1, 2, 3}
  Delays = {1, 3, 4}
  Cycles = {0, 1, 2}
INVARIANTS
  TypeOK
  
PROPERTY
  EveryEventRuns
