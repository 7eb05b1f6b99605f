---------------------------- MODULE MCSatCommand ----------------------------
EXTENDS SatCommand

\* A unit clause, one without its zero, one with numbers after it, an empty one.
NumberLinesRead == {<<1, 0>>, <<-2, 1>>, <<-1, 0, 2>>, <<0>>}
Counts == {-1, 0, 1, 2}
=============================================================================
