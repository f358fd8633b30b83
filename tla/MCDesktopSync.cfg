\* Edits of one catalog record on both sides, lost and late pushes, pages of one
\* change, interruptions anywhere, compaction, and a local save.
SPECIFICATION Spec
CONSTANTS
  Catalog = {c1}
  LocalOnly = {t1}
  MaxBatch = 2
  PageSize = 1
  MaxOps = 2
  MaxLog = 3
  MaxPushes = 2
  MaxSaves = 1
INVARIANTS
  DiscardedNeverApplied
  OutcomesAreTrue
  RecordOrder
  CursorHonest
  AckedIsDurable
\* The instance stops when its bounds are used up.
CHECK_DEADLOCK FALSE
