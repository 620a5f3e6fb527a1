SPECIFICATION Spec
CONSTANTS
  IntMax = 12
  LengthMax = 10
  StrideMax = 7
  ItemSize = 2
  MaxLength = 7
  Omitted = omitted
INVARIANTS LoopVisits MembersAgree SlicesAgree
