CONSTANTS
  Mailboxes = {A, B}
  LimitActiveTasks = 3
  MaxTasks = 8
  MaxRefusals = 0
SPECIFICATION Spec
INVARIANTS
  NobodyOnOurToes
CHECK_DEADLOCK FALSE
