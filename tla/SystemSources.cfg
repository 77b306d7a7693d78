CONSTANTS
  MemBytes = 17
  Requests = {0, 1, 3, 5}
  MaxCalls = 2
SPECIFICATION SourcesSpec
INVARIANT FilledInOrder
PROPERTY Ends
CHECK_DEADLOCK FALSE
