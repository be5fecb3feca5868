CONSTANTS
    Configs <- MCConfigs
    MaxAttempts = 1
SPECIFICATION FairSpec
INVARIANTS
  SendsComposed
CHECK_DEADLOCK FALSE
