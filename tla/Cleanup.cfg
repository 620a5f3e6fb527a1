SPECIFICATION Spec
CONSTANT Programs <- LosingPrograms
INVARIANT CleansUp
CHECK_DEADLOCK FALSE
