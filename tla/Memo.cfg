SPECIFICATION Spec
CONSTANTS
  Args = {1, 2, 3, 4, 5}
  Calls <- Recursion
  Depth <- Descent
  MaxDepth = 4
  Limits = {0, 1, 2, unlimited}
  Unlimited = unlimited
  Blocks = {b1, b2, b3, b4, b5, b6, b7, b8}
  NoArg = noarg
  NoBlock = noblock
  Writes = FALSE
INVARIANTS Bounded Right
PROPERTIES RunsOnce
