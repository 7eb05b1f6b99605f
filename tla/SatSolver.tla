----------------------------- MODULE SatSolver -----------------------------
(***************************************************************************)
(* The CDCL solver of src/fabko/compiler/backend/sat: the constructor of   *)
(* solver_context, solver::solve, and solve_sat with the functions it      *)
(* calls (unit_propagation, resolve_conflict, learn_additional_clause,     *)
(* backtrack, update_vsids_activity, make_decision).                       *)
(*                                                                         *)
(* The solver is sequential.  An action is a turn of one of its loops: a   *)
(* visit of a clause by unit_propagation, a step down the trail by         *)
(* resolve_conflict, an iteration of solve_sat.                            *)
(***************************************************************************)
EXTENDS Watching

CONSTANTS
    Models,              \* the models the solver may be constructed with
    ExpectedCounts,      \* the arguments solver::solve may be called with
    MaxCalls,            \* bound: number of calls of solver::solve
    RestartThreshold,    \* configuration::restart_threshold
    RestartMultiplier,   \* configuration::restart_multiplier
    UInt32Range,         \* width: number of values of the uint32 threshold
    VsidsIncrement,      \* configuration::vsids_increment
    DecayInterval,       \* configuration::decay_interval
    RatioNum, RatioDen,  \* configuration::vsids_decay_ratio = RatioNum/RatioDen
    ActivityMax,         \* width: largest value of the int64 activity
    NormalizationFactor, \* NORMALIZATION_FACTOR
    StatisticsBound      \* bound: cap of the size_t statistics counters

ASSUME ModelsAssumption == \A m \in Models : WellFormedModel(m)

ASSUME ConfigurationAssumption ==
    /\ ExpectedCounts \subseteq Int
    /\ MaxCalls \in Nat
    /\ RestartThreshold \in Nat
    /\ RestartMultiplier \in Nat
    /\ UInt32Range \in Nat \ {0}
    /\ VsidsIncrement \in Nat
    /\ DecayInterval \in Nat \ {0}
    /\ RatioNum \in Nat \ {0}
    /\ RatioDen \in Nat \ {0}
    /\ ActivityMax \in Nat
    /\ NormalizationFactor \in Nat \ {0}
    /\ StatisticsBound \in Nat

VARIABLES
    \* solver::solve and its caller
    pc, calls, expected, results, error,
    \* solver_context: the model, vars_soa_ by column, clauses_soa_ by column
    model,
    assignment, decision_level, clause_propagation, vsids_activity,
    clauses, watchers,
    \* solver_context: the rest
    trail, current_decision_level, conflict_count_since_last_restart,
    restart_threshold, statistics,
    \* locals of unit_propagation and of resolve_conflict
    scan, propagated,
    learned, current_level_vars, backtrack_level, trail_index

api       == <<calls, expected, results, error>>
columns   == <<assignment, decision_level, clause_propagation>>
database  == <<clauses, watchers>>
restarts  == <<conflict_count_since_last_restart, restart_threshold>>
pass      == <<scan, propagated>>
analysis  == <<learned, current_level_vars, backtrack_level, trail_index>>

vars == <<pc, api, model, columns, vsids_activity, database, trail,
          current_decision_level, restarts, statistics, pass, analysis>>

----------------------------------------------------------------------------
NoClause == 0

Vars == VarsOf(model)
Literals == LiteralsOver(Vars)

ActivityMin == -ActivityMax - 1

IsDecision(v) == clause_propagation[v] = NoClause

Count(counter, n) ==
    [statistics EXCEPT ![counter] =
        IF @ + n <= StatisticsBound THEN @ + n ELSE StatisticsBound]

(***************************************************************************)
(* solver_context(model): every variable unassigned, its activity the      *)
(* number of its occurrences, and a watcher on each clause.                *)
(***************************************************************************)
Occurrences(m, v) ==
    UNION {{<<k, i>> : i \in {j \in DOMAIN m.clauses[k] : Value(m.clauses[k][j]) = v}}
              : k \in DOMAIN m.clauses}

Init ==
    /\ model \in Models
    /\ assignment = [v \in Vars |-> NotAssigned]
    /\ decision_level = [v \in Vars |-> 0]
    /\ clause_propagation = [v \in Vars |-> NoClause]
    /\ vsids_activity = [v \in Vars |-> Cardinality(Occurrences(model, v))]
    /\ clauses = model.clauses
    /\ watchers = [k \in DOMAIN model.clauses |-> WatcherOf(assignment, model.clauses[k])]
    /\ trail = << >>
    /\ current_decision_level = 0
    /\ conflict_count_since_last_restart = 0
    /\ restart_threshold = RestartThreshold
    /\ statistics = [restarts |-> 0, conflicts |-> 0, propagations |-> 0, decisions |-> 0,
                     backtracks |-> 0, learned_clause |-> 0, max_decision_lvl |-> 0]
    /\ pc = "idle" /\ calls = 0 /\ expected = 0 /\ results = << >> /\ error = "none"
    /\ scan = 1 /\ propagated = 0
    /\ learned = {} /\ current_level_vars = {} /\ backtrack_level = 0 /\ trail_index = 0

----------------------------------------------------------------------------
(***************************************************************************)
(* solver::solve(expected).  It asks solve_sat for `expected' answers, on  *)
(* the same context, and returns early on the first error.  The default    *)
(* argument is -1, for which the loop does not run.                        *)
(***************************************************************************)
CallSolve ==
    /\ pc = "idle"
    /\ calls < MaxCalls
    /\ \E n \in ExpectedCounts :
          /\ expected' = n
          /\ pc' = IF 0 < n THEN "loop" ELSE "idle"
    /\ calls' = calls + 1
    /\ results' = << >>
    /\ error' = "none"
    /\ UNCHANGED <<model, columns, vsids_activity, database, trail,
                   current_decision_level, restarts, statistics, pass, analysis>>

(***************************************************************************)
(* backtrack(ctx, level): pop the trail while its last variable is above   *)
(* the level.  The decision level of a popped variable is left as it was.  *)
(***************************************************************************)
\* Mutation: the first variable above the level is not reset.
PoppedButFirst(n, v) == \E i \in (n + 2)..Len(trail) : trail[i] = v
Popped(n, v) == \E i \in (n + 1)..Len(trail) : trail[i] = v

\* Mutation: a popped variable keeps the clause that propagated it.
KeepPropagations(n) == clause_propagation
ResetPropagations(n) ==
    [v \in Vars |-> IF Popped(n, v) THEN NoClause ELSE clause_propagation[v]]

Backtrack(level) ==
    /\ \E n \in 0..Len(trail) :
          /\ n # 0 => decision_level[trail[n]] <= level
          /\ \A i \in (n + 1)..Len(trail) : level < decision_level[trail[i]]
          /\ trail' = SubSeq(trail, 1, n)
          /\ assignment' =
                [v \in Vars |-> IF Popped(n, v) THEN NotAssigned ELSE assignment[v]]
          /\ clause_propagation' = ResetPropagations(n)
    /\ current_decision_level' = level
    /\ UNCHANGED decision_level

(***************************************************************************)
(* The top of solve_sat's loop: restart when due, then start to propagate. *)
(***************************************************************************)
StartPropagation ==
    /\ pc' = "propagate"
    /\ scan' = 1
    /\ propagated' = 0

Iterate ==
    /\ pc = "loop"
    /\ conflict_count_since_last_restart < restart_threshold
    /\ StartPropagation
    /\ UNCHANGED <<api, model, columns, vsids_activity, database, trail,
                   current_decision_level, restarts, statistics, analysis>>

\* Mutation: the threshold is divided by the multiplier.
DividedThreshold(t) == t \div RestartMultiplier
NextThreshold(t) == (t * RestartMultiplier) % UInt32Range

Restart ==
    /\ pc = "loop"
    /\ conflict_count_since_last_restart >= restart_threshold
    /\ conflict_count_since_last_restart' = 0
    /\ statistics' = Count("restarts", 1)
    /\ Backtrack(0)
    /\ restart_threshold' = NextThreshold(restart_threshold)
    /\ StartPropagation
    /\ UNCHANGED <<api, model, vsids_activity, database, analysis>>

----------------------------------------------------------------------------
(***************************************************************************)
(* unit_propagation: passes over all clauses, in order, until one pass     *)
(* propagates nothing or meets a conflict.                                 *)
(***************************************************************************)
Visiting == pc = "propagate" /\ scan <= Len(clauses)

\* Unit or falsified: not satisfied, and at most one unassigned position.
IsPending(a, c) ==
    /\ ~IsClauseSatisfied(a, c)
    /\ \A i, j \in Unassigned(a, c) : i = j

SkipClause ==
    /\ Visiting
    /\ ~IsPending(assignment, clauses[scan])
    /\ scan' = scan + 1
    /\ UNCHANGED <<pc, api, model, columns, vsids_activity, database, trail,
                   current_decision_level, restarts, statistics, propagated, analysis>>

\* Mutation: the polarity of the literal is ignored, as in make_decision.
AlwaysOn(l) == On
Polarity(l) == IF IsOn(l) THEN On ELSE Off

PropagateUnit ==
    /\ Visiting
    /\ IsPending(assignment, clauses[scan])
    /\ \E i \in DOMAIN clauses[scan] :
          LET l == clauses[scan][i]
              v == Value(l)
          IN  /\ Unassigned(assignment, clauses[scan]) = {i}
              /\ assignment' = [assignment EXCEPT ![v] = Polarity(l)]
              /\ decision_level' = [decision_level EXCEPT ![v] = current_decision_level]
              /\ clause_propagation' = [clause_propagation EXCEPT ![v] = scan]
              /\ trail' = Append(trail, v)
    /\ propagated' = propagated + 1
    /\ scan' = scan + 1
    /\ UNCHANGED <<pc, api, model, vsids_activity, database,
                   current_decision_level, restarts, statistics, analysis>>

(***************************************************************************)
(* No position is unassigned and none is true: a conflict.  The rest of    *)
(* the pass does nothing, and its propagations are not counted.  Then      *)
(* solve_sat counts the conflict and enters resolve_conflict, whose locals *)
(* start from the conflicting clause.  The vectors of resolve_conflict are *)
(* sets here: learned_clause is sorted and made unique before it is used,  *)
(* and of current_level_vars only the size and the members are, so it is a *)
(* set of pairs (variable, position in the conflicting clause).            *)
(***************************************************************************)
\* Mutation: the index is the size of the trail.
PastTrail == Len(trail)
TopOfTrail == Len(trail) - 1

FindConflict ==
    /\ Visiting
    /\ IsPending(assignment, clauses[scan])
    /\ Unassigned(assignment, clauses[scan]) = {}
    /\ conflict_count_since_last_restart' = conflict_count_since_last_restart + 1
    /\ statistics' = Count("conflicts", 1)
    /\ learned' = LitsOf(clauses[scan])
    /\ current_level_vars' =
          {<<Value(clauses[scan][i]), i>> :
             i \in {j \in DOMAIN clauses[scan] :
                      decision_level[Value(clauses[scan][j])] = current_decision_level}}
    /\ backtrack_level' = 0
    /\ trail_index' = TopOfTrail
    /\ pc' = "resolve"
    /\ UNCHANGED <<api, model, columns, vsids_activity, database, trail,
                   current_decision_level, restart_threshold, pass>>

\* Mutation: one pass only.
NeverAgain == FALSE
PassAgain == propagated > 0

EndPass ==
    /\ pc = "propagate"
    /\ scan > Len(clauses)
    /\ IF PassAgain
       THEN StartPropagation /\ statistics' = Count("propagations", propagated)
       ELSE pc' = "decide" /\ UNCHANGED <<pass, statistics>>
    /\ UNCHANGED <<api, model, columns, vsids_activity, database, trail,
                   current_decision_level, restarts, analysis>>

----------------------------------------------------------------------------
(***************************************************************************)
(* resolve_conflict: walk the trail down (trail_index counts from 0, as in *)
(* the code, and the bottom of the trail is never resolved), replacing     *)
(* each propagated variable of the current level by the other literals of  *)
(* the clause that propagated it, until one variable of the level is left. *)
(***************************************************************************)
TrailVar == trail[trail_index + 1]

\* Mutation: the loop leaves two variables of the level.
ManyButTwoLeft == \E p, q, r \in current_level_vars : p # q /\ q # r /\ p # r
ManyLeft == \E p, q \in current_level_vars : p # q

Resolving ==
    /\ pc = "resolve"
    /\ ManyLeft
    /\ trail_index > 0

HasAntecedent ==
    /\ ~IsDecision(TrailVar)
    /\ decision_level[TrailVar] = current_decision_level
    /\ \E p \in current_level_vars : p[1] = TrailVar

StepDownTrail ==
    /\ Resolving
    /\ ~HasAntecedent
    /\ trail_index' = trail_index - 1
    /\ UNCHANGED <<pc, api, model, columns, vsids_activity, database, trail, restarts,
                   current_decision_level, statistics, pass, learned,
                   current_level_vars, backtrack_level>>

\* Mutation: the trail variable is erased only as a positive literal.
KeptNegative == {l \in learned : l # TrailVar}
Kept == {l \in learned : Value(l) # TrailVar}

\* Mutation: only literals of the current level are added.
AddedOfLevel ==
    {l \in LitsOf(clauses[clause_propagation[TrailVar]]) :
        /\ Value(l) # TrailVar /\ \A k \in Kept : Value(k) # Value(l)
        /\ decision_level[Value(l)] = current_decision_level}
Added ==
    {l \in LitsOf(clauses[clause_propagation[TrailVar]]) :
        Value(l) # TrailVar /\ \A k \in Kept : Value(k) # Value(l)}

OfCurrentLevel(S) == {l \in S : decision_level[Value(l)] = current_decision_level}

ResolvedLevels ==
    {backtrack_level}
      \cup {decision_level[Value(l)] : l \in Added \ OfCurrentLevel(Added)}

ResolveAntecedent ==
    /\ Resolving
    /\ HasAntecedent
    /\ learned' = Kept \cup Added
    /\ current_level_vars' =
          {p \in current_level_vars : p[1] # TrailVar}
            \cup {<<Value(l), 0>> : l \in OfCurrentLevel(Added)}
    /\ \E b \in ResolvedLevels :
          /\ \A x \in ResolvedLevels : x <= b
          /\ backtrack_level' = b
    /\ trail_index' = trail_index - 1
    /\ UNCHANGED <<pc, api, model, columns, vsids_activity, database, trail, restarts,
                   current_decision_level, statistics, pass>>

\* What std::ranges::sort by value and unique by value leave of the literals in S.
SortedUnique(S) ==
    LET values == {Value(l) : l \in S}
    IN  {c \in [1..Cardinality(values) -> S] :
            /\ {Value(l) : l \in LitsOf(c)} = values
            /\ \A i, j \in DOMAIN c : i < j => Value(c[i]) < Value(c[j])}

----------------------------------------------------------------------------
(***************************************************************************)
(* update_vsids_activity.  Dividing the int64 activity by a float or a     *)
(* double truncates towards zero.  A quotient that does not fit in int64   *)
(* is undefined behaviour: x86-64 yields the smallest int64, AArch64       *)
(* saturates; `ub' is the value the build produces.                        *)
(***************************************************************************)
Truncated(n, d) == IF n >= 0 THEN n \div d ELSE -((-n) \div d)

Normalized(activity, V) ==
    IF \E v \in V : activity[v] >= ActivityMax - VsidsIncrement
    THEN [v \in Vars |-> Truncated(activity[v], NormalizationFactor)]
    ELSE activity

Bumped(activity, V) ==
    [v \in Vars |-> IF v \in V THEN activity[v] + VsidsIncrement ELSE activity[v]]

Decayed(activity, ub) ==
    [v \in Vars |-> LET q == Truncated(activity[v] * RatioDen, RatioNum)
                    IN  IF ActivityMin <= q /\ q <= ActivityMax THEN q ELSE ub]

UpdateVsidsActivity(V) ==
    LET bumped == Bumped(Normalized(vsids_activity, V), V)
    IN  IF statistics.conflicts % DecayInterval = 0
        THEN \E ub \in {ActivityMin, ActivityMax} : vsids_activity' = Decayed(bumped, ub)
        ELSE vsids_activity' = bumped

(***************************************************************************)
(* Back in solve_sat with the result of resolve_conflict: unsatisfiable,   *)
(* or learn the clause, backtrack and update the activities.  The watcher  *)
(* of the learned clause is built before the backtracking.                 *)
(***************************************************************************)
Resolved == pc = "resolve" /\ ~Resolving

\* Mutation: the decision level of the conflict is not tested.
IsRefutedAnywhere == backtrack_level = 0 \/ learned = {}
IsRefuted ==
    \/ current_decision_level = 0 /\ backtrack_level = 0
    \/ learned = {}

ReturnUnsatisfiable ==
    /\ Resolved
    /\ IsRefuted
    /\ error' = "unsatisfiable"
    /\ pc' = "idle"
    /\ UNCHANGED <<calls, expected, results, model, columns, vsids_activity, database, trail,
                   current_decision_level, restarts, statistics, pass, analysis>>

LearnAdditionalClause(c) ==
    /\ clauses' = Append(clauses, c)
    /\ watchers' = Append(watchers, WatcherOf(assignment, c))
    /\ statistics' = Count("learned_clause", 1)

LearnAndBacktrack ==
    /\ Resolved
    /\ ~IsRefuted
    /\ \E c \in SortedUnique(learned) :
          /\ LearnAdditionalClause(c)
          /\ UpdateVsidsActivity({Value(l) : l \in LitsOf(c)})
    /\ Backtrack(backtrack_level)
    /\ pc' = "loop"
    /\ UNCHANGED <<api, model, restarts, pass, analysis>>

----------------------------------------------------------------------------
(***************************************************************************)
(* make_decision: the first unassigned variable of highest activity is     *)
(* assigned `on', one level up.                                            *)
(***************************************************************************)
UnassignedVars == {i \in DOMAIN model.literals : assignment[model.literals[i]] = NotAssigned}

HighestVsids(i) ==
    \A j \in UnassignedVars :
        \/ vsids_activity[model.literals[j]] < vsids_activity[model.literals[i]]
        \/ /\ vsids_activity[model.literals[j]] = vsids_activity[model.literals[i]]
           /\ i <= j

\* Mutation: the decision is taken at the current level.
SameLevel == current_decision_level
NextLevel == current_decision_level + 1

MakeDecision ==
    /\ pc = "decide"
    /\ \E i \in UnassignedVars :
          LET v == model.literals[i]
          IN  /\ HighestVsids(i)
              /\ assignment' = [assignment EXCEPT ![v] = On]
              /\ decision_level' = [decision_level EXCEPT ![v] = NextLevel]
              /\ trail' = Append(trail, v)
    /\ current_decision_level' = NextLevel
    /\ statistics' = [Count("decisions", 1) EXCEPT !.max_decision_lvl =
                        IF @ < NextLevel THEN NextLevel ELSE @]
    /\ pc' = "loop"
    /\ UNCHANGED <<api, model, clause_propagation, vsids_activity, database, restarts,
                   pass, analysis>>

(***************************************************************************)
(* No decision is left.  A solution is returned to solver::solve when all  *)
(* clauses are satisfied and the list of literals is not empty: the loop   *)
(* of solve_sat tests that the list is empty, so it goes on otherwise.     *)
(***************************************************************************)
\* Mutation: the sign of the literal is not set.
UnsignedSolution == [i \in DOMAIN model.literals |-> model.literals[i]]
Solution == SolutionOf(model, assignment)

IsSatSolved == \A k \in DOMAIN clauses : IsClauseSatisfied(assignment, clauses[k])

CheckSolution ==
    /\ pc = "decide"
    /\ UnassignedVars = {}
    /\ IF IsSatSolved /\ model.literals # << >>
       THEN /\ results' = Append(results, Solution)
            /\ pc' = IF Len(results) + 1 < expected THEN "loop" ELSE "idle"
       ELSE results' = results /\ pc' = "loop"
    /\ UNCHANGED <<calls, expected, error, model, columns, vsids_activity, database, trail,
                   current_decision_level, restarts, statistics, pass, analysis>>

\* The caller makes no further call.
Finished ==
    /\ pc = "idle"
    /\ calls = MaxCalls
    /\ UNCHANGED vars

Step ==
    \/ Iterate \/ Restart
    \/ SkipClause \/ PropagateUnit \/ FindConflict \/ EndPass
    \/ StepDownTrail \/ ResolveAntecedent \/ ReturnUnsatisfiable \/ LearnAndBacktrack
    \/ MakeDecision \/ CheckSolution

Next == CallSolve \/ Step \/ Finished

\* The solver's thread keeps running while a call of solve is under way.
Fairness == WF_vars(Step)

Spec == Init /\ [][Next]_vars
FairSpec == Spec /\ Fairness

----------------------------------------------------------------------------
(***************************************************************************)
(* Invariants of the search.                                               *)
(***************************************************************************)
IsAssigned(v) == assignment[v] # NotAssigned

PcValues == {"idle", "loop", "propagate", "resolve", "decide"}

Counters == {"restarts", "conflicts", "propagations", "decisions", "backtracks",
             "learned_clause", "max_decision_lvl"}

(***************************************************************************)
(* Type invariant of solver_context and of the locals of the functions     *)
(* that work on it: every id names a slot that exists, and while           *)
(* resolve_conflict runs, its unsigned trail_index names a trail entry.    *)
(***************************************************************************)
TypeOK ==
    /\ WellFormedModel(model)
    /\ pc \in PcValues
    /\ calls \in Nat /\ expected \in Int
    /\ results \in Seq(Seq(Int))
    /\ error \in {"none", "unsatisfiable"}
    /\ assignment \in [Vars -> Assignments]
    /\ decision_level \in [Vars -> Nat]
    /\ clause_propagation \in [Vars -> 0..Len(clauses)]
    /\ vsids_activity \in [Vars -> Int]
    /\ clauses \in Seq(Seq(Literals))
    /\ watchers \in Seq((Vars \cup {NoWatch}) \X (Vars \cup {NoWatch}))
    /\ Len(watchers) = Len(clauses)
    /\ trail \in Seq(Vars)
    /\ current_decision_level \in Nat
    /\ conflict_count_since_last_restart \in Nat
    /\ restart_threshold \in Nat
    /\ statistics \in [Counters -> Nat]
    /\ scan \in Nat \ {0} /\ propagated \in Nat
    /\ learned \subseteq Literals
    /\ current_level_vars \subseteq Vars \X Nat
    /\ backtrack_level \in Nat
    /\ trail_index \in Nat
    /\ pc = "resolve" => trail_index < Len(trail)

(***************************************************************************)
(* The trail lists exactly the assigned variables, each once, in the order *)
(* of their levels, none above the current level.  backtrack relies on it: *)
(* it stops at the first variable that is not above its target.            *)
(***************************************************************************)
TrailSound ==
    /\ \A i, j \in DOMAIN trail :
          i < j => /\ trail[i] # trail[j]
                   /\ decision_level[trail[i]] <= decision_level[trail[j]]
    /\ \A v \in Vars : IsAssigned(v) <=> \E i \in DOMAIN trail : trail[i] = v
    /\ \A v \in Vars : IsAssigned(v) => decision_level[v] <= current_decision_level

(***************************************************************************)
(* Every level above 0 is opened by its decision: a variable of the trail  *)
(* is a decision exactly when the trail reaches a new level with it, and   *)
(* no level up to the current one is skipped.  is_decision() is only the   *)
(* absence of a propagating clause, so a stale one would break this.       *)
(***************************************************************************)
LevelBelow(i) == IF i = 1 THEN 0 ELSE decision_level[trail[i - 1]]

DecisionsOpenLevels ==
    /\ \A i \in DOMAIN trail :
          decision_level[trail[i]] =
              IF IsDecision(trail[i]) THEN LevelBelow(i) + 1 ELSE LevelBelow(i)
    /\ current_decision_level = LevelBelow(Len(trail) + 1)

(***************************************************************************)
(* The clause that propagated a variable still explains it: the literal of *)
(* the variable is true, all its other literals are false, and they were   *)
(* false no later than at the variable's level.                            *)
(***************************************************************************)
Explains(v, c) ==
    /\ \A i \in DOMAIN c : /\ decision_level[Value(c[i])] <= decision_level[v]
                            /\ IF Value(c[i]) = v THEN LitTrue(assignment, c[i])
                                                  ELSE LitFalse(assignment, c[i])
    /\ \E i \in DOMAIN c : Value(c[i]) = v

ReasonsSound ==
    \A v \in Vars : ~IsDecision(v) =>
        IsAssigned(v) /\ Explains(v, clauses[clause_propagation[v]])

(***************************************************************************)
(* Every clause of the database follows from the model: conflict analysis  *)
(* never learns a clause that excludes a solution.                         *)
(***************************************************************************)
ClausesFollow ==
    \A k \in DOMAIN clauses : EntailsSome(model, LitsOf(clauses[k]))

(***************************************************************************)
(* What is assigned at level 0 follows from the model, so that a conflict  *)
(* at level 0 is a refutation.                                             *)
(***************************************************************************)
RootLevelFollows ==
    \A v \in Vars : IsAssigned(v) /\ decision_level[v] = 0 =>
        EntailsSome(model, {IF assignment[v] = On THEN v ELSE -v})

(***************************************************************************)
(* While resolve_conflict works, the clause it derives is false under the  *)
(* trail, follows from the model, and current_level_vars names exactly its *)
(* variables of the current level.                                         *)
(***************************************************************************)
AnalysisSound ==
    pc = "resolve" =>
        /\ \A l \in learned : LitFalse(assignment, l)
        /\ EntailsSome(model, learned)
        /\ {p[1] : p \in current_level_vars} = {Value(l) : l \in OfCurrentLevel(learned)}

(***************************************************************************)
(* Above level 0, conflict analysis ends on a unique implication point:    *)
(* one variable of the current level is left ("we need to keep one         *)
(* variable from the current level"), so the empty-clause exit of          *)
(* solve_sat is not taken there, and backtracking leaves the level.        *)
(***************************************************************************)
UniqueImplicationPoint ==
    Resolved /\ current_decision_level > 0 =>
        /\ \E v \in Vars : {Value(l) : l \in OfCurrentLevel(learned)} = {v}
        /\ backtrack_level < current_decision_level

(***************************************************************************)
(* No level below the current one is left with a unit or a falsified       *)
(* clause, learned ones included; nor is the current one when the solver   *)
(* decides.  Propagation restarts from nothing after each backtracking and *)
(* relies on this to be complete.                                          *)
(***************************************************************************)
AtLevel(k) ==
    [v \in Vars |-> IF decision_level[v] <= k THEN assignment[v] ELSE NotAssigned]

LevelsPropagated ==
    \A k \in 0..current_decision_level :
        k < current_decision_level \/ pc = "decide" =>
            \A n \in DOMAIN clauses : ~IsPending(AtLevel(k), clauses[n])

(***************************************************************************)
(* The answers: every returned list of literals is a solution of the       *)
(* model, and "unsatisfiable" is returned only for a model without one,    *)
(* in whatever state earlier calls of solve left the context.              *)
(***************************************************************************)
SolutionsSatisfy == \A r \in DOMAIN results : IsSolution(model, results[r])

RefutationsCorrect == error = "unsatisfiable" => ~Satisfiable(model)

(***************************************************************************)
(* Step properties.                                                        *)
(*                                                                         *)
(* A learned clause is new: no clause without repeated literals has its    *)
(* literals.  There are finitely many, so the search cannot go round.      *)
(***************************************************************************)
LearnsNewClauses ==
    [][\A k \in DOMAIN clauses :
         Len(clauses') > Len(clauses) /\ LitsOf(clauses[k]) = learned
            => Len(clauses[k]) > Cardinality(learned)]_vars

(***************************************************************************)
(* A solution that was found is not found again ("add a constraint to      *)
(* disable the found solution", solver.cpp:206).                           *)
(***************************************************************************)
SolutionsDiffer == \A i, j \in DOMAIN results : results[i] = results[j] => i = j

(***************************************************************************)
(* Every call of solve returns, given that the solver's thread runs.       *)
(***************************************************************************)
CallsReturn == (pc # "idle") ~> (pc = "idle")

(***************************************************************************)
(* The solver keeps the promise of SatSpec: each of its steps answers with *)
(* a solution, reports a correct refutation, or changes nothing the caller *)
(* sees.                                                                   *)
(***************************************************************************)
Promise == INSTANCE SatSpec WITH busy <- pc # "idle"

KeepsPromise == Promise!Spec
=============================================================================
