-------------------------- MODULE MCClauseWatcher --------------------------
EXTENDS ClauseWatcher

\* Every length up to four, both polarities, and a clause with a repeated variable.
ShortAndLong == {<<1>>, <<5, -1>>, <<1, -2, 3>>, <<1, 2, -3, 4>>, <<1, -1, 2>>}
=============================================================================
