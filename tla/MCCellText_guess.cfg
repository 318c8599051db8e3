SPECIFICATION GuessSpec
INVARIANTS GuessMatchesSpec
CHECK_DEADLOCK FALSE
