\* A server with QRESYNC.
SPECIFICATION FairSpec
CONSTANTS
  MaxUid = 3
  Condstore = TRUE
  Qresync = TRUE
  EarlyChanges = FALSE
  MayFail = TRUE
  MaxModSeq = 3
  MaxSelects = 2
  MaxNet = 4
INVARIANTS
  SyncInv
PROPERTIES
  SyncEnds
\* All changes made, all synchronizations used up: the system may stop.
CHECK_DEADLOCK FALSE
