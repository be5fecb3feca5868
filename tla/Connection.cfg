CONSTANTS
    Conn = {c1}
    Methods = {"plain", "starttls", "ssl"}
    CapSets = {{"IMAP4REV1", "STARTTLS", "LOGINDISABLED"}, {"IMAP4REV1", "COMPRESS=DEFLATE"}, {}}
    MaxOpened = 2
    MaxRefusals = 1
    MaxLosses = 1
SPECIFICATION FairSpec
INVARIANTS
  OfflineIsOffline
  CommandsInPhase
  CapsOfPhase
  DecisionExpected
PROPERTIES
  Settles
CHECK_DEADLOCK FALSE
