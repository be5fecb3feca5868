\* A server without extensions.
SPECIFICATION Spec
CONSTANTS
  MaxUid = 3
  Condstore = FALSE
  Qresync = FALSE
  EarlyChanges = FALSE
  MayFail = FALSE
  MaxModSeq = 4
  MaxSelects = 2
  MaxNet = 4
INVARIANTS
  TypeOK
  ViewIsServers
  CacheIsServers
  ResponsesFit
  ListAscending
  UidNextAbove
PROPERTIES
  OnlyGoneLeave
\* All changes made, all synchronizations used up: the system may stop.
CHECK_DEADLOCK FALSE
