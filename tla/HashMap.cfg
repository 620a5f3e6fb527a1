SPECIFICATION FairSpec
CONSTANTS
  Keys = {1, 2, 3, 4}
  Values = {v, w}
  NoValue = none
  Zero = v
  Default = w
  FallbackKeys = {1}
  Hash <- CollidingHash
  FirstCapacity = 2
CONSTRAINT OneKeyVaries
INVARIANTS CursorSound ChainsComplete ChainsSound
PROPERTIES CallsReturn ImplementsTable
