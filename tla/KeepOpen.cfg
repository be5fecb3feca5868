\* A server that refuses and ends IDLE as it likes.
SPECIFICATION Spec
CONSTANTS
  LimitActiveTasks = 2
  MayRefuse = TRUE
  ServerEndsIdle = TRUE
  MaxRequests = 2
  MaxExists = 1
INVARIANTS
  IdleInOrder
  LauncherKnows
  CleanHandOver
PROPERTIES
  HandOver
  IdleResumes
  TasksRun
\* Handed over or failed, all requests and announcements used up: the system may stop.
CHECK_DEADLOCK FALSE
