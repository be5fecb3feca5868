\* Ascending UIDs, as FetchMsgPartTask and the incremental threading pass them.
SPECIFICATION Spec
CONSTANTS
  MaxUid = 5
  MaxLen = 5
  MaxAsked = 2
  AnyOrder = FALSE
INVARIANTS
  TypeOK
  SearchRight
  AllFound
PROPERTIES
  Ends
\* It returns.
CHECK_DEADLOCK FALSE
