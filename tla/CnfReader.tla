----------------------------- MODULE CnfReader -----------------------------
(***************************************************************************)
(* make_model_from_cnf_file (solver.cpp): one action per kind of line of   *)
(* the file, then the two assertions and the construction of the model.    *)
(* The file is chosen line by line while it is read.                       *)
(*                                                                         *)
(* A line is what its first character makes of it: skipped (empty or a     *)
(* comment), a problem line, or a sequence of numbers, where 0 stands for  *)
(* a zero and for whatever is not a number, since both end the clause.     *)
(***************************************************************************)
EXTENDS Cnf, SequencesExt

CONSTANTS
    Numbers,    \* the number lines a file may have: sequences of integers
    Declared,   \* the counts a problem line may declare
    MaxLines    \* bound: number of lines of a file

ASSUME LinesAssumption ==
    /\ Numbers \subseteq Seq(Int)
    /\ Declared \subseteq Int
    /\ MaxLines \in Nat

VARIABLES
    pc,                \* "reading", "returned" or "threw"
    ndebug,            \* the build defines NDEBUG: fabko_assert does nothing
    file,              \* the lines read so far
    clauses, clauses_capacity,
    literals_unique, literals_capacity,
    model              \* the result

vars == <<pc, ndebug, file, clauses, clauses_capacity, literals_unique, literals_capacity, model>>

NoModel == [literals |-> << >>, clauses |-> << >>]

Init ==
    /\ pc = "reading"
    /\ ndebug \in BOOLEAN
    /\ file = << >>
    /\ clauses = << >> /\ clauses_capacity = 0
    /\ literals_unique = {} /\ literals_capacity = 0
    /\ model = NoModel

----------------------------------------------------------------------------
Read(line) ==
    /\ pc = "reading"
    /\ Len(file) < MaxLines
    /\ file' = Append(file, line)
    /\ UNCHANGED <<ndebug, model>>

SkipLine ==
    /\ Read([kind |-> "skipped"])
    /\ UNCHANGED <<pc, clauses, clauses_capacity, literals_unique, literals_capacity>>

(***************************************************************************)
(* A problem line.  A second one is recognised by the capacity that the    *)
(* first gave to the clauses, or that the clauses read since have.  A      *)
(* count that does not parse reads as 0, and a negative one is too large a *)
(* size for reserve, which throws.                                         *)
(***************************************************************************)
Problem(cnf, v, c) == [kind |-> "problem", cnf |-> cnf, variables |-> v, clauses |-> c]

IsSecondProblem == clauses_capacity > 0

\* std::vector::reserve never shrinks.
Reserved(capacity, n) == IF capacity < n THEN n ELSE capacity

ReadProblem ==
    /\ ~IsSecondProblem
    /\ \E v, c \in Declared :
          /\ Read(Problem(TRUE, v, c))
          /\ v >= 0 /\ c >= 0
          /\ literals_capacity' = Reserved(literals_capacity, v)
          /\ clauses_capacity' = Reserved(clauses_capacity, c)
    /\ UNCHANGED <<pc, clauses, literals_unique>>

RejectProblem ==
    /\ \E cnf \in BOOLEAN, v, c \in Declared :
          /\ Read(Problem(cnf, v, c))
          /\ IsSecondProblem \/ ~cnf \/ v < 0 \/ c < 0
    /\ pc' = "threw"
    /\ UNCHANGED <<clauses, clauses_capacity, literals_unique, literals_capacity>>

(***************************************************************************)
(* A line of numbers: a clause up to the first zero, or nothing when there *)
(* is none before it.                                                      *)
(***************************************************************************)
\* Mutation: the zero is taken into the clause.
ClauseWithZero(numbers) == numbers
\* Mutation: zeros are skipped, and the clause goes on to the end of the line.
ClausePastZero(numbers) == SelectSeq(numbers, LAMBDA n : n # 0)
ClauseOf(numbers) ==
    LET ends == {i \in DOMAIN numbers : numbers[i] = 0}
    IN  IF ends = {} THEN numbers
        ELSE SubSeq(numbers, 1, (CHOOSE i \in ends : \A j \in ends : i <= j) - 1)

\* std::vector::push_back: the capacity doubles when it is used up.
Grown(size, capacity) ==
    IF size < capacity THEN capacity ELSE IF capacity = 0 THEN 1 ELSE 2 * capacity

\* Mutation: the literal is declared as it is written, not by its absolute value.
SignedVariables(clause) == LitsOf(clause)
VariablesOf(clause) == {Value(l) : l \in LitsOf(clause)}

AddedClause(clause) == IF clause = << >> THEN << >> ELSE <<clause>>

ReadClause ==
    /\ \E numbers \in Numbers :
          LET clause == ClauseOf(numbers)
          IN  /\ Read([kind |-> "numbers", numbers |-> numbers])
              /\ clauses' = clauses \o AddedClause(clause)
              /\ clauses_capacity' =
                    IF clauses' = clauses THEN clauses_capacity
                    ELSE Grown(Len(clauses), clauses_capacity)
              /\ literals_unique' = literals_unique \cup VariablesOf(clause)
    /\ UNCHANGED <<pc, literals_capacity>>

----------------------------------------------------------------------------
(***************************************************************************)
(* The end of the file: two assertions compare what was read with what the *)
(* problem line reserved, and the set of variables becomes a sorted list.  *)
(***************************************************************************)
\* Mutation: fewer variables than declared are accepted.
AtMostDeclared == Cardinality(literals_unique) <= literals_capacity
LiteralsAsserted == Cardinality(literals_unique) = literals_capacity

ClausesAsserted == Len(clauses) = clauses_capacity

\* std::set keeps its elements sorted, and they are copied in its order.
SortedList(S) ==
    CHOOSE list \in [1..Cardinality(S) -> S] :
        \A i, j \in DOMAIN list : i < j => list[i] < list[j]

ReturnModel ==
    /\ pc = "reading"
    /\ ndebug \/ (LiteralsAsserted /\ ClausesAsserted)
    /\ pc' = "returned"
    /\ model' = [literals |-> SortedList(literals_unique), clauses |-> clauses]
    /\ UNCHANGED <<ndebug, file, clauses, clauses_capacity, literals_unique, literals_capacity>>

FailAssertion ==
    /\ pc = "reading"
    /\ ~ndebug
    /\ ~(LiteralsAsserted /\ ClausesAsserted)
    /\ pc' = "threw"
    /\ UNCHANGED <<ndebug, file, clauses, clauses_capacity, literals_unique, literals_capacity, model>>

Next ==
    \/ SkipLine \/ ReadProblem \/ RejectProblem \/ ReadClause
    \/ ReturnModel \/ FailAssertion

Spec == Init /\ [][Next]_vars

----------------------------------------------------------------------------
ProblemLines == {i \in DOMAIN file : file[i].kind = "problem"}
NumberLines == {i \in DOMAIN file : file[i].kind = "numbers"}

(***************************************************************************)
(* Type invariant.                                                         *)
(***************************************************************************)
TypeOK ==
    /\ pc \in {"reading", "returned", "threw"}
    /\ ndebug \in BOOLEAN
    /\ Len(file) <= MaxLines
    /\ clauses \in Seq(Seq(Int \ {0}))
    /\ clauses_capacity \in Nat /\ Len(clauses) <= clauses_capacity
    /\ literals_unique \subseteq Nat \ {0}
    /\ literals_capacity \in Nat

(***************************************************************************)
(* A model that is returned, by a build with assertions or without, meets  *)
(* what solver_context's constructor asserts of it (solver.cpp:51, 76).    *)
(***************************************************************************)
ModelsWellFormed == pc = "returned" => WellFormedModel(model)

(***************************************************************************)
(* The clauses of the model are those of the file, in its order: the       *)
(* non-empty prefixes before a zero, wherever the other lines are.         *)
(***************************************************************************)
ReadsEveryClause ==
    pc = "returned" =>
        \E line \in [DOMAIN model.clauses -> NumberLines] :
            /\ \A j, k \in DOMAIN line : j < k => line[j] < line[k]
            /\ \A j \in DOMAIN line :
                  LET clause  == model.clauses[j]
                      numbers == file[line[j]].numbers
                  IN  /\ IsPrefix(clause, numbers)
                      /\ 0 \notin LitsOf(clause)
                      /\ Len(clause) < Len(numbers) => numbers[Len(clause) + 1] = 0
            /\ \A i \in NumberLines \ Range(line) :
                  file[i].numbers = << >> \/ file[i].numbers[1] = 0

(***************************************************************************)
(* With assertions, the model has as many variables as the problem line    *)
(* that declares the most of them, none without a problem line, and at     *)
(* least as many clauses as each declares: too few are never accepted.     *)
(* What the capacities do not tell is no part of it: more clauses than     *)
(* declared, when the vector has grown to their number, and a problem line *)
(* after one that declares no clauses.                                     *)
(***************************************************************************)
CountsDeclared ==
    pc = "returned" /\ ~ndebug =>
        /\ \A i \in ProblemLines :
              /\ file[i].variables <= Len(model.literals)
              /\ file[i].clauses <= Len(model.clauses)
        /\ \/ model.literals = << >>
           \/ \E i \in ProblemLines : file[i].variables = Len(model.literals)
=============================================================================
