SPECIFICATION Spec
CONSTANT Clauses <- ShortAndLong
INVARIANTS WatchesDiffer WatchesFree WatchesTwo
CHECK_DEADLOCK FALSE
