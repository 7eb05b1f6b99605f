--------------------------- MODULE ClauseWatcher ---------------------------
(***************************************************************************)
(* A clause_watcher (solver.hh, solver.cpp) in the hands of a client that  *)
(* assigns and unassigns variables and reports them with replace, as the   *)
(* tests of the class do.  The solver itself only constructs watchers.     *)
(***************************************************************************)
EXTENDS Watching

CONSTANTS Clauses    \* the clauses a watcher may be constructed for

ASSUME ClausesAssumption ==
    \A c \in Clauses : c \in Seq(Int \ {0}) /\ c # << >>

VARIABLES
    clause,       \* the clause the watcher is constructed for
    assignment,   \* the variables of the clause, owned by the client
    watchers,     \* watchers_
    thrown,       \* replace has thrown bad_optional_access
    unreported,   \* history: assigned, and not passed to replace since
    unassigned    \* history: a variable has been unassigned

vars == <<clause, assignment, watchers, thrown, unreported, unassigned>>

ClauseVars == {Value(l) : l \in LitsOf(clause)}

\* The watcher may be constructed in the middle of a search.
Init ==
    /\ clause \in Clauses
    /\ assignment \in [ClauseVars -> Assignments]
    /\ watchers = WatcherOf(assignment, clause)
    /\ thrown = FALSE
    /\ unreported = {}
    /\ unassigned = FALSE

----------------------------------------------------------------------------
Assign(v, polarity) ==
    /\ ~thrown
    /\ assignment[v] = NotAssigned
    /\ assignment' = [assignment EXCEPT ![v] = polarity]
    /\ unreported' = unreported \cup {v}
    /\ UNCHANGED <<clause, watchers, thrown, unassigned>>

Unassign(v) ==
    /\ ~thrown
    /\ assignment[v] # NotAssigned
    /\ assignment' = [assignment EXCEPT ![v] = NotAssigned]
    /\ unreported' = unreported \ {v}
    /\ unassigned' = TRUE
    /\ UNCHANGED <<clause, watchers, thrown>>

(***************************************************************************)
(* replace(vs, clause, to_replace).  Nothing is done unless the variable   *)
(* is watched.  The slot is then found with watchers_[0].value(), which    *)
(* throws bad_optional_access when only the second slot is in use.  The    *)
(* new variable is the first unassigned one that the other slot does not   *)
(* watch, which may be the one being replaced.                             *)
(***************************************************************************)
ReplaceThrows(v) == watchers[1] = NoWatch /\ watchers[2] = v

SlotOf(v) == IF watchers[1] = v THEN 1 ELSE 2

\* Mutation: the variable that the other slot watches is not excluded.
AnyCandidate(v) == Unassigned(assignment, clause)
\* Mutation: the test of the assignment is inverted.
AssignedCandidates(v) == DOMAIN clause \ Unassigned(assignment, clause)
\* Mutation: no other variable is looked for.
NoCandidates(v) == {}
Candidates(v) ==
    {i \in Unassigned(assignment, clause) : Value(clause[i]) # watchers[3 - SlotOf(v)]}

Replaced(v) ==
    IF v \in Watched(watchers)
    THEN [watchers EXCEPT ![SlotOf(v)] =
             IF Candidates(v) = {} THEN NoWatch ELSE Value(clause[First(Candidates(v))])]
    ELSE watchers

Replace(v) ==
    /\ ~thrown
    /\ IF ReplaceThrows(v)
       THEN thrown' = TRUE /\ UNCHANGED <<watchers, unreported>>
       ELSE /\ watchers' = Replaced(v)
            /\ unreported' = unreported \ {v}
            /\ UNCHANGED thrown
    /\ UNCHANGED <<clause, assignment, unassigned>>

Next ==
    \E v \in ClauseVars :
        \/ \E polarity \in {On, Off} : Assign(v, polarity)
        \/ Unassign(v)
        \/ Replace(v)

Spec == Init /\ [][Next]_vars

----------------------------------------------------------------------------
\* No variable has two positions in the clause.
NoRepeats == \A i, j \in DOMAIN clause : Value(clause[i]) = Value(clause[j]) => i = j

FreeVars == {v \in ClauseVars : assignment[v] = NotAssigned}

(***************************************************************************)
(* Each slot is empty or watches a variable of the clause.                 *)
(***************************************************************************)
TypeOK ==
    /\ clause \in Seq(Int \ {0})
    /\ assignment \in [ClauseVars -> Assignments]
    /\ watchers \in (ClauseVars \cup {NoWatch}) \X (ClauseVars \cup {NoWatch})
    /\ thrown \in BOOLEAN
    /\ unreported \subseteq ClauseVars
    /\ unassigned \in BOOLEAN

(***************************************************************************)
(* The two slots of a watcher never watch the same variable, whatever the  *)
(* order in which variables are assigned, unassigned and replaced.         *)
(***************************************************************************)
WatchesDiffer == NoRepeats /\ watchers[1] = watchers[2] => Watched(watchers) = {}

(***************************************************************************)
(* A watched variable is free, or its assignment has not been reported to  *)
(* the watcher with replace.                                               *)
(***************************************************************************)
WatchesFree ==
    NoRepeats => \A v \in Watched(watchers) : v \in FreeVars \cup unreported

(***************************************************************************)
(* As long as no variable is unassigned, a watcher that was told of every  *)
(* assignment watches two variables of its clause, or all the free ones    *)
(* when fewer are left.  After an unassignment it need not                 *)
(* (MaintainsTwoWatchers): an emptied slot is never filled again.          *)
(***************************************************************************)
WatchesTwo ==
    NoRepeats /\ ~unassigned /\ ~thrown /\ unreported = {} =>
        \/ WatchCount(watchers) = 2
        \/ Watched(watchers) = FreeVars

(***************************************************************************)
(* What the comment of the class says: "It maintains two "watcher"         *)
(* literals per clause (except for unit clauses which have one), allowing  *)
(* for efficient propagation and backtracking" (solver.hh:93-94).  While   *)
(* two variables are free the watcher watches two, also when they have     *)
(* become free by backtracking.                                            *)
(***************************************************************************)
MaintainsTwoWatchers ==
    NoRepeats /\ ~thrown /\ unreported = {} /\ Cardinality(FreeVars) >= 2 =>
        WatchCount(watchers) = 2

(***************************************************************************)
(* replace returns ("test that if nothing left to be assigned, nothing get *)
(* assigned", watcher_testcase.cpp): it never throws.                      *)
(***************************************************************************)
ReplaceReturns == NoRepeats => ~thrown
=============================================================================
