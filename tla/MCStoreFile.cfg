\* Crashes, failing writes, failing renames and their fallback.
SPECIFICATION FileSpec
CONSTANTS
  MaxTx = 8
  Faults = {"crash", "disk", "rename"}
INVARIANTS
  PartialOnlyInPlace
  RolledBackUnlessInPlace
PROPERTIES
  AckedIsOnDisk
\* The instance stops when its transactions are used up, or for good when the file
\* does not parse.
CHECK_DEADLOCK FALSE
