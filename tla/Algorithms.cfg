CONSTANTS
  Types <- MCTypes
  Values <- MCValues
  Patterns <- MCPatterns
  Depth <- MCDepth
SPECIFICATION Spec
PROPERTIES PatternsExhaustive TypesAgree ValuesFit MathAgrees UnitsAgree PromisesKept ReadsBack FilesLoad
