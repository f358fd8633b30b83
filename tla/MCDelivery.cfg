\* Two jobs in turn, two copies each, documents of two transfers.
SPECIFICATION FairSpec
CONSTANTS
  Jobs = 2
  Copies = 2
  Chunks = 2
  Profiles <- EveryProfile
INVARIANTS
  VerdictsAreTrue
  OneRoute
  ReceiptsIntact
  NothingLeftOpen
PROPERTIES
  HangsAreBounded
\* The instance stops when its jobs are delivered.
CHECK_DEADLOCK FALSE
