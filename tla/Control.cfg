SPECIFICATION FairSpec
CONSTANT Programs <- SomePrograms
INVARIANT Agree
PROPERTY JumpsEnd
CHECK_DEADLOCK FALSE
