SPECIFICATION Spec
CONSTANTS
  Items = {a, b}
  Junk = junk
  Vars = {x}
  Heap = {p}
  Blocks = {b1, b2, b3, b4, b5}
  NoBlock = null
  NoLoop = noloop
  Looped = {}
  Referred = {x}
  Slack = 1
  MaxLen = 2
INVARIANTS OwnedOrMarked InBounds
PROPERTIES OneAtATime ImplementsValues
SYMMETRY Symmetry
VIEW View
