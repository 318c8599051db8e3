SPECIFICATION TextSpec
INVARIANTS NormalizeIdempotent NormalizeMatchesSpec SheetNamesValid
CHECK_DEADLOCK FALSE
