\* Two ids on one printer, submitted twice.  The process may crash, a job may
\* panic, the database fail, the port be taken and the clock be set back.
SPECIFICATION Spec
CONSTANTS
  JobIds = {j1, j2}
  Printers = {p1}
  Documents = {d1}
  MaxActive = 2
  MaxAttemptsLimit = 2
  MaxSubmissions = 2
  Faults = {"db", "clock", "port", "panic", "crash"}
  DEGRADED_AFTER = 1
  Horizon = 1
SYMMETRY JobSymmetry
INVARIANTS
  NoReplay
  HonestVerdict
