SPECIFICATION Spec
INVARIANTS
  CleanUpBeforeContext
CHECK_DEADLOCK FALSE
