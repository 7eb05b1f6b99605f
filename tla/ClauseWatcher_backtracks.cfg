SPECIFICATION Spec
CONSTANT Clauses <- ShortAndLong
INVARIANT MaintainsTwoWatchers
CHECK_DEADLOCK FALSE
