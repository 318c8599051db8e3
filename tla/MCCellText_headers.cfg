SPECIFICATION HeadersSpec
INVARIANTS HeadersUnique
CHECK_DEADLOCK FALSE
