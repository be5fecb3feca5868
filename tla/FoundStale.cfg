\* A server with CONDSTORE and three synchronizations: a save between the UIDs and the flags.
SPECIFICATION Spec
CONSTANTS
  MaxUid = 3
  Condstore = TRUE
  Qresync = FALSE
  EarlyChanges = FALSE
  MayFail = FALSE
  MaxModSeq = 4
  MaxSelects = 3
  MaxNet = 2
INVARIANTS
  KnownAreServers
\* All changes made, all synchronizations used up: the system may stop.
CHECK_DEADLOCK FALSE
