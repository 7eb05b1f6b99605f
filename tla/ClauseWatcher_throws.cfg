SPECIFICATION Spec
CONSTANT Clauses <- ShortAndLong
INVARIANT ReplaceReturns
CHECK_DEADLOCK FALSE
