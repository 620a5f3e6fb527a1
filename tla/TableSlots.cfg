SPECIFICATION Spec
CONSTANTS
  Keys = {k1, k2, k3}
  Values = {v1}
  NoKey = nokey
  NoValue = novalue
  Vars = {x}
  Heap = {p}
  Blocks = {b1, b2, b3, b4}
  NoBlock = null
  FirstCapacity = 4
INVARIANT SlotsFit
VIEW View
