\* A record of a kind the server does not send, and a bootstrap.
SPECIFICATION Spec
CONSTANTS
  Catalog = {c1}
  LocalOnly = {t1}
  MaxBatch = 1
  PageSize = 1
  MaxOps = 0
  MaxLog = 2
  MaxPushes = 0
  MaxSaves = 1
PROPERTIES
  LocalRecordsSurvive
CHECK_DEADLOCK FALSE
