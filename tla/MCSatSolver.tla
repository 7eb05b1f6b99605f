---------------------------- MODULE MCSatSolver ----------------------------
(***************************************************************************)
(* Instances of SatSolver for TLC.                                         *)
(***************************************************************************)
EXTENDS SatSolver

Lits(V) == V \cup {-v : v \in V}

\* The model with the given clauses over the variables 1..n.
Over(n, cs) == [literals |-> [i \in 1..n |-> i], clauses |-> cs]

\* The formulas made of some of the clauses of a list, in its order.
SomeOf(n, cs) == {Over(n, SelectSeq(cs, LAMBDA c : c \in S)) : S \in SUBSET LitsOf(cs)}

\* All formulas of ten of the binary clauses over three variables.
BinaryModels ==
    SomeOf(3, << <<1, 2>>, <<1, 3>>, <<2, 3>>, <<-1, 2>>, <<1, -2>>, <<-1, -2>>,
                 <<-1, 3>>, <<1, -3>>, <<-1, -3>>, <<-2, 3>> >>)

\* All formulas of ternary clauses over three variables.
TernaryModels ==
    SomeOf(3, << <<1, 2, 3>>, <<-1, 2, 3>>, <<1, -2, 3>>, <<1, 2, -3>>,
                 <<-1, -2, 3>>, <<-1, 2, -3>>, <<1, -2, -3>>, <<-1, -2, -3>> >>)

\* All sequences of three clauses of one or two literals over two variables, the
\* first of which begins with a positive literal: unit clauses, repeated literals,
\* tautologies and repeated clauses included.
Short == {c \in UNION {[1..n -> Lits(1..2)] : n \in 1..2} :
            Value(c[1]) <= Value(c[Len(c)])}
ShortModels == {Over(2, cs) : cs \in {s \in [1..3 -> Short] : s[1][1] > 0}}

\* Formulas over four variables, satisfiable ones among them, in which conflict
\* analysis takes literals of lower levels from a propagating clause.
LayeredModels ==
    SomeOf(4, << <<-1, -2, 3>>, <<-2, -3, 4>>, <<-2, -3, -4>>, <<1, 2>>, <<1, -3>>, <<1, 4>>,
                 <<-1, 2, 4>>, <<1, -2, -4>> >>)

SmallModels == BinaryModels \cup TernaryModels \cup ShortModels \cup LayeredModels

----------------------------------------------------------------------------
(***************************************************************************)
(* Formulas over five variables on which the search goes through several   *)
(* decision levels, learns clauses on clauses it learned, backtracks below *)
(* the assertion level and restarts: each formula, and nine formulas that  *)
(* one clause less makes of it.                                            *)
(***************************************************************************)
Hard1 == << <<-1, -3, -4>>, <<2, -3, 5>>, <<-4, 5>>, <<-1, -3, 5>>, <<3, -4>>, <<1, -2, 3, 5>>,
            <<-1, 4, -5>>, <<-1, 2>>, <<-2, 5>>, <<-2, 3, 5>>, <<2, 3, 5>>, <<2, -3, 5>>,
            <<1, -2, -3>>, <<-2, 4, -5>>, <<1, 4>>, <<-1, 3, -4, -5>>, <<1, 5>>, <<2, -3, -4, -5>> >>
Hard2 == << <<1, 2, -4, 5>>, <<1, 4, -5>>, <<2, -3, 5>>, <<-3, 4, -5>>, <<-1, 2, -3, -5>>,
            <<2, 4, -5>>, <<1, -2, -3>>, <<2, 3, -4>>, <<1, 2, 3>>, <<2, -4, -5>>, <<-1, 4, -5>>,
            <<-2, 3, -4, -5>>, <<-1, -2, -4, -5>>, <<2, 3, -5>>, <<1, 5>>, <<1, -3, -4>>,
            <<-1, -2, 3>>, <<-1, -2, 5>> >>
Hard3 == << <<4, 5>>, <<-2, -3, 4, 5>>, <<-1, -5>>, <<2, -3, -4>>, <<2, 3, -4, -5>>, <<2, -3, 5>>,
            <<1, -2, 4>>, <<-1, 2, 3>>, <<1, -3>>, <<1, -2, 3>>, <<1, -2, -3>>, <<2, -4, 5>>,
            <<1, 4, 5>>, <<1, -2, 4, -5>>, <<-1, 3, 5>>, <<3, 4, -5>>, <<-2, 3, 4, 5>>, <<-1, -2, 5>> >>

Without(cs, k) == SubSeq(cs, 1, k - 1) \o SubSeq(cs, k + 1, Len(cs))

\* A formula with three solutions.
ThreeSolutions == {Over(2, << <<1, 2>> >>)}

\* solve() with its default argument, and solve(2).
DefaultAndTwo == {-1, 2}

HardModels == {Over(5, Without(cs, 2 * k - 1)) : cs \in {Hard1, Hard2, Hard3}, k \in 1..10}

Formulas == SmallModels \cup HardModels
=============================================================================
