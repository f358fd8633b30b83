\* A worker whose job panics, scheduled fairly: what happens to the other jobs.
SPECIFICATION FairSpec
CONSTANTS
  JobIds = {j1, j2}
  Printers = {p1}
  Documents = {d1}
  MaxActive = 2
  MaxAttemptsLimit = 2
  MaxSubmissions = 2
  Faults = {"panic"}
  DEGRADED_AFTER = 1
  Horizon = 0
PROPERTIES
  OnlyThatJobIsLost
