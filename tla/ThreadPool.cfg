SPECIFICATION FairSpec
CONSTANTS
  NumWorkers = 2
  MaxRequests = 4
  None = none
INVARIANTS RequestsKept AllEnded
PROPERTIES CallsReturn ImplementsChannel
