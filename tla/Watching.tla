------------------------------ MODULE Watching ------------------------------
(***************************************************************************)
(* The operations of class clause_watcher (solver.cpp, solver.hh): two     *)
(* optional variable slots per clause.  NoWatch stands for std::nullopt.   *)
(***************************************************************************)
EXTENDS Cnf

NoWatch == 0

First(S) == CHOOSE i \in S : \A j \in S : i <= j

Unassigned(a, c) == {i \in DOMAIN c : a[Value(c[i])] = NotAssigned}

(***************************************************************************)
(* The constructor: the first two positions of the clause whose variable   *)
(* is not assigned at that moment.                                         *)
(***************************************************************************)
WatcherOf(a, c) ==
    LET free == Unassigned(a, c)
        i    == First(free)
        rest == free \ {i}
    IN  <<IF free = {} THEN NoWatch ELSE Value(c[i]),
          IF free = {} \/ rest = {} THEN NoWatch ELSE Value(c[First(rest)])>>

WatchCount(w) == Cardinality({s \in {1, 2} : w[s] # NoWatch})

Watched(w) == {w[1], w[2]} \ {NoWatch}
=============================================================================
