\* No faults, two printers: what must eventually happen does, in order and as
\* PrintService says.
SPECIFICATION FairSpec
CONSTANTS
  JobIds = {j1, j2}
  Printers = {p1, p2}
  Documents = {d1}
  MaxActive = 2
  MaxAttemptsLimit = 2
  MaxSubmissions = 2
  Faults = {}
  DEGRADED_AFTER = 1
  Horizon = 0
INVARIANTS
  PrinterFifo
PROPERTIES
  Implements
  
  
