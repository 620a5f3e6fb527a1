SPECIFICATION FairSpec
CONSTANTS
  Threads = {t1, t2, t3}
  Values = {1, 2}
  None = none
  Cancellable = {t2}
  Consumers = {t3}
INVARIANTS LocksMatch Conserved BatchOrder
PROPERTIES EnqueueReturns Delivered ImplementsChannel
