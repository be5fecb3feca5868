CONSTANTS
    Initial = 3
    Conversation <- MCConversation
    Matches <- MCMatches
    Incremental = TRUE
    MaxArrivals = 1
    MaxExpunges = 2
    MaxRequests = 2
    MaxRefusals = 1
    MaxEvents = 4
SPECIFICATION FairSpec
INVARIANTS
  TreeConsistent
  NoDangling
  PruneInAnyOrder
  ShownAsAsked
PROPERTIES
  Settles
CHECK_DEADLOCK FALSE
