SPECIFICATION Spec
CONSTANTS
  Items = {a, b}
  Junk = junk
  Vars = {}
  Heap = {p}
  Blocks = {b1, b2, b3, b4, b5}
  NoBlock = null
  NoLoop = noloop
  Looped = {p}
  Referred = {}
  Slack = 1
  MaxLen = 3
PROPERTIES Snapshot
SYMMETRY Symmetry
VIEW View
