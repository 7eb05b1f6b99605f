-------------------------------- MODULE Cnf --------------------------------
(***************************************************************************)
(* Literals, clauses and models of the SAT backend, and what it means for  *)
(* a clause to be satisfied or to follow from a model.                     *)
(*                                                                         *)
(* A literal is a non-zero integer: the class `literal' of solver.hh wraps *)
(* an int64 whose sign is the polarity and whose absolute value names the  *)
(* variable.  A clause is a SEQUENCE of literals, because unit_propagation *)
(* counts unassigned positions, so a repeated literal counts twice.  A     *)
(* variable is identified by its value; the struct_id that the solver      *)
(* stores next to each literal is the slot of the variable of that value.  *)
(***************************************************************************)
EXTENDS Integers, Sequences, FiniteSets

On == "on"
Off == "off"
NotAssigned == "not_assigned"
Assignments == {On, Off, NotAssigned}

IsOn(l) == l > 0
IsOff(l) == l < 0
Value(l) == IF l < 0 THEN -l ELSE l

(***************************************************************************)
(* `a' is an assignment of the variables: partial, when it is the solver's *)
(* (some variables not_assigned), or total, when it is a valuation.        *)
(***************************************************************************)
LitTrue(a, l) == \/ IsOn(l) /\ a[Value(l)] = On
                 \/ IsOff(l) /\ a[Value(l)] = Off

LitFalse(a, l) == \/ IsOn(l) /\ a[Value(l)] = Off
                  \/ IsOff(l) /\ a[Value(l)] = On

IsClauseSatisfied(a, c) == \E i \in DOMAIN c : LitTrue(a, c[i])

LitsOf(c) == {c[i] : i \in DOMAIN c}

----------------------------------------------------------------------------
(***************************************************************************)
(* A model: the declared variables, in the order in which the solver       *)
(* stores them, and the clauses over them.                                 *)
(***************************************************************************)
VarsOf(m) == {m.literals[i] : i \in DOMAIN m.literals}

LiteralsOver(V) == {l \in Int : l # 0 /\ Value(l) \in V}

(***************************************************************************)
(* The preconditions of solver_context's constructor, which it asserts:    *)
(* every literal of a clause is declared (solver.cpp:51) and no clause is  *)
(* empty (solver.cpp:76).  The variables are positive and distinct.        *)
(***************************************************************************)
WellFormedModel(m) ==
    /\ m.literals \in Seq(Nat \ {0})
    /\ \A i, j \in DOMAIN m.literals : m.literals[i] = m.literals[j] => i = j
    /\ m.clauses \in Seq(Seq(LiteralsOver(VarsOf(m))))
    /\ \A k \in DOMAIN m.clauses : m.clauses[k] # << >>

----------------------------------------------------------------------------
Valuations(m) == [VarsOf(m) -> {On, Off}]

SatisfiesModel(a, m) ==
    \A k \in DOMAIN m.clauses : IsClauseSatisfied(a, m.clauses[k])

Satisfiable(m) == \E a \in Valuations(m) : SatisfiesModel(a, m)

\* Every solution of the model makes one of the literals in the set S true.
EntailsSome(m, S) ==
    \A a \in Valuations(m) : SatisfiesModel(a, m) => \E l \in S : LitTrue(a, l)

\* The list of literals that an assignment of all variables is returned as.
SolutionOf(m, a) ==
    [i \in DOMAIN m.literals |->
        IF a[m.literals[i]] = On THEN m.literals[i] ELSE -m.literals[i]]

\* A list of literals, one per declared variable, read as an answer of the solver.
IsSolution(m, s) ==
    /\ DOMAIN s = DOMAIN m.literals
    /\ \A i \in DOMAIN s : Value(s[i]) = m.literals[i]
    /\ \A k \in DOMAIN m.clauses : \E i \in DOMAIN s : s[i] \in LitsOf(m.clauses[k])
=============================================================================
