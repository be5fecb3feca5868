CONSTANTS
    Configs <- MCConfigs
    MaxAttempts = 2
SPECIFICATION FairSpec
INVARIANTS
  OncePerAttempt
  SentIsDelivered
PROPERTIES
  Ends
CHECK_DEADLOCK FALSE
