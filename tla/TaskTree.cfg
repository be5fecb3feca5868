CONSTANTS
  Mailboxes = {A, B}
  LimitActiveTasks = 3
  MaxTasks = 7
  MaxRefusals = 1
SPECIFICATION FairSpec
INVARIANTS
  RightMailbox
  TreeConsistent
PROPERTIES
  AllServed
CHECK_DEADLOCK FALSE
