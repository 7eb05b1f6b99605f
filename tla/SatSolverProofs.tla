-------------------------- MODULE SatSolverProofs --------------------------
EXTENDS SatSolver, CnfProofs

(***************************************************************************)
(* The constructor's activity of a variable is a number.                   *)
(***************************************************************************)
LEMMA OccurrencesFinite ==
    ASSUME NEW m, WellFormedModel(m), NEW v
    PROVE  Cardinality(Occurrences(m, v)) \in Nat
<1> DEFINE at(k)  == {j \in DOMAIN m.clauses[k] : Value(m.clauses[k][j]) = v}
           occ(k) == {<<k, i>> : i \in at(k)}
           D      == DOMAIN m.clauses
<1>1. /\ m.clauses \in Seq(Seq(LiteralsOver(VarsOf(m))))
      /\ D = 1..Len(m.clauses) /\ Len(m.clauses) \in Nat
  BY DEF WellFormedModel
<1>a. IsFiniteSet(D)
  BY <1>1, FS_Interval
<1>2. ASSUME NEW k \in D PROVE IsFiniteSet(occ(k))
  <2>1. m.clauses[k] \in Seq(LiteralsOver(VarsOf(m)))
    BY <1>2, <1>1
  <2>2. IsFiniteSet(DOMAIN m.clauses[k])
    BY <2>1, LenProperties, FS_Interval
  <2>3. IsFiniteSet(at(k))
    BY <2>2, FS_Subset
  <2>4. [i \in at(k) |-> <<k, i>>] \in Surjection(at(k), occ(k))
    BY DEF Surjection
  <2> QED
    BY <2>3, <2>4, FS_Surjection
<1>3. IsFiniteSet({occ(k) : k \in D})
  <2>1. [k \in D |-> occ(k)] \in Surjection(D, {occ(k) : k \in D})
    BY DEF Surjection
  <2> QED
    BY <2>1, <1>a, FS_Surjection
<1>4. \A T \in {occ(k) : k \in D} : IsFiniteSet(T)
  BY <1>2
<1>5. Occurrences(m, v) = UNION {occ(k) : k \in D}
  BY DEF Occurrences
<1> QED
  BY <1>3, <1>4, <1>5, FS_UNION, FS_CardinalityType

----------------------------------------------------------------------------
(***************************************************************************)
(* The inductive invariant: the invariants of the search that soundness    *)
(* needs, with two facts about the database of clauses.                    *)
(***************************************************************************)
NoEmptyClause == \A k \in DOMAIN clauses : clauses[k] # << >>

KeepsModel ==
    /\ Len(model.clauses) <= Len(clauses)
    /\ \A k \in DOMAIN model.clauses : clauses[k] = model.clauses[k]

IInv ==
    /\ TypeOK
    /\ TrailSound
    /\ ReasonsSound
    /\ NoEmptyClause
    /\ KeepsModel
    /\ ClausesFollow
    /\ RootLevelFollows
    /\ AnalysisSound
    /\ SolutionsSatisfy
    /\ RefutationsCorrect

----------------------------------------------------------------------------
(***************************************************************************)
(* Backtracking to a level unassigns exactly the variables above it, and   *)
(* keeps the trail sound.                                                  *)
(***************************************************************************)
LEMMA BacktrackEffect ==
    ASSUME IInv, NEW level \in Nat, Backtrack(level), model' = model
    PROVE  /\ trail' \in Seq(Vars)
           /\ Len(trail') <= Len(trail)
           /\ \A i \in DOMAIN trail' : i \in DOMAIN trail /\ trail'[i] = trail[i]
           /\ \A v \in Vars : (\E i \in DOMAIN trail' : trail'[i] = v)
                                 <=> IsAssigned(v) /\ decision_level[v] <= level
           /\ assignment' = [v \in Vars |-> IF IsAssigned(v) /\ level < decision_level[v]
                                            THEN NotAssigned ELSE assignment[v]]
           /\ clause_propagation' = [v \in Vars |-> IF IsAssigned(v) /\ level < decision_level[v]
                                                    THEN NoClause ELSE clause_propagation[v]]
           /\ decision_level' = decision_level
           /\ current_decision_level' = level
<1> USE DEF IInv
<1>1. PICK n \in 0..Len(trail) :
          /\ n # 0 => decision_level[trail[n]] <= level
          /\ \A i \in (n + 1)..Len(trail) : level < decision_level[trail[i]]
          /\ trail' = SubSeq(trail, 1, n)
          /\ assignment' =
                [v \in Vars |-> IF Popped(n, v) THEN NotAssigned ELSE assignment[v]]
          /\ clause_propagation' = ResetPropagations(n)
  BY DEF Backtrack
<1>2. trail \in Seq(Vars) /\ decision_level \in [Vars -> Nat]
  BY DEF TypeOK
<1>3. /\ trail' \in Seq(Vars) /\ Len(trail') = n
      /\ \A i \in 1..n : i \in DOMAIN trail /\ trail'[i] = trail[i]
  BY <1>1, <1>2
<1>4. ASSUME NEW i \in 1..n PROVE decision_level[trail[i]] <= level
  <2>1. i \in DOMAIN trail /\ n \in DOMAIN trail /\ trail[i] \in Vars /\ trail[n] \in Vars
    BY <1>2
  <2>2. i = n \/ decision_level[trail[i]] <= decision_level[trail[n]]
    BY <2>1 DEF TrailSound
  <2> QED
    BY <2>1, <2>2, <1>1, <1>2
<1>5. ASSUME NEW v \in Vars
      PROVE  Popped(n, v) <=> IsAssigned(v) /\ level < decision_level[v]
  <2>1. IsAssigned(v) <=> \E i \in DOMAIN trail : trail[i] = v
    BY DEF TrailSound
  <2>2. \A i \in DOMAIN trail : i \in 1..n \/ i \in (n + 1)..Len(trail)
    BY <1>2
  <2> QED
    BY <2>1, <2>2, <1>1, <1>2, <1>4 DEF Popped
<1>6. ASSUME NEW v \in Vars
      PROVE  (\E i \in 1..n : trail[i] = v) <=> IsAssigned(v) /\ decision_level[v] <= level
  <2>1. IsAssigned(v) <=> \E i \in DOMAIN trail : trail[i] = v
    BY DEF TrailSound
  <2>2. \A i \in DOMAIN trail : i \in 1..n \/ i \in (n + 1)..Len(trail)
    BY <1>2
  <2> QED
    BY <2>1, <2>2, <1>1, <1>2, <1>4
<1>7. DOMAIN trail' = 1..n
  BY <1>3
<1>8. \A v \in Vars : (\E i \in DOMAIN trail' : trail'[i] = v)
                         <=> IsAssigned(v) /\ decision_level[v] <= level
  BY <1>3, <1>6, <1>7
<1>9. decision_level' = decision_level /\ current_decision_level' = level
  BY DEF Backtrack
<1>10. assignment' = [v \in Vars |-> IF IsAssigned(v) /\ level < decision_level[v]
                                     THEN NotAssigned ELSE assignment[v]]
  BY <1>1, <1>5
<1>11. clause_propagation' = [v \in Vars |-> IF IsAssigned(v) /\ level < decision_level[v]
                                             THEN NoClause ELSE clause_propagation[v]]
  BY <1>1, <1>5 DEF ResetPropagations
<1> QED
  BY <1>1, <1>2, <1>3, <1>7, <1>8, <1>9, <1>10, <1>11

----------------------------------------------------------------------------
(***************************************************************************)
(* Each conjunct of the inductive invariant is preserved, one lemma per    *)
(* conjunct and one step per action that can disturb it.                   *)
(***************************************************************************)
USE DEF api, columns, database, restarts, pass, analysis, vars

(***************************************************************************)
(* The trail and the columns of vars_soa_ when one variable is assigned.   *)
(***************************************************************************)
LEMMA AssignEffect ==
    ASSUME IInv, model' = model, NEW v \in Vars, ~IsAssigned(v),
           NEW x \in {On, Off}, NEW level \in Nat, current_decision_level <= level,
           assignment' = [assignment EXCEPT ![v] = x],
           decision_level' = [decision_level EXCEPT ![v] = level],
           trail' = Append(trail, v),
           current_decision_level' = level
    PROVE  TrailSound'
<1> USE DEF IInv
<1>1. /\ trail \in Seq(Vars) /\ decision_level \in [Vars -> Nat]
      /\ assignment \in [Vars -> Assignments] /\ current_decision_level \in Nat
  BY DEF TypeOK
<1>2. /\ DOMAIN trail' = 1..(Len(trail) + 1) /\ DOMAIN trail = 1..Len(trail)
      /\ Len(trail) \in Nat
      /\ trail'[Len(trail) + 1] = v
      /\ \A i \in DOMAIN trail : trail'[i] = trail[i] /\ trail[i] \in Vars
  BY <1>1
<1>3. \A i \in DOMAIN trail : trail[i] # v
  BY <1>2 DEF TrailSound
<1>4. /\ \A w \in Vars : w # v => assignment'[w] = assignment[w]
                                  /\ decision_level'[w] = decision_level[w]
      /\ assignment'[v] = x /\ decision_level'[v] = level /\ x # NotAssigned
  BY <1>1 DEF On, Off, NotAssigned
<1>5. \A i \in DOMAIN trail : decision_level[trail[i]] <= current_decision_level
  BY <1>2 DEF TrailSound
<1>6. \A i, j \in DOMAIN trail' :
          i < j => /\ trail'[i] # trail'[j]
                   /\ decision_level'[trail'[i]] <= decision_level'[trail'[j]]
  <2> SUFFICES ASSUME NEW i \in DOMAIN trail', NEW j \in DOMAIN trail', i < j
               PROVE  /\ trail'[i] # trail'[j]
                      /\ decision_level'[trail'[i]] <= decision_level'[trail'[j]]
    OBVIOUS
  <2>1. i \in DOMAIN trail
    BY <1>2
  <2>2. CASE j \in DOMAIN trail
    BY <2>1, <2>2, <1>2, <1>3, <1>4 DEF TrailSound
  <2>3. CASE j = Len(trail) + 1
    BY <2>1, <2>3, <1>1, <1>2, <1>3, <1>4, <1>5
  <2> QED
    BY <2>2, <2>3, <1>2
<1>7. \A w \in Vars : assignment'[w] # NotAssigned <=> \E i \in DOMAIN trail' : trail'[i] = w
  <2> SUFFICES ASSUME NEW w \in Vars
               PROVE assignment'[w] # NotAssigned <=> \E i \in DOMAIN trail' : trail'[i] = w
    OBVIOUS
  <2>1. CASE w = v
    BY <2>1, <1>2, <1>4
  <2>2. CASE w # v
    <3>1. assignment[w] # NotAssigned <=> \E i \in DOMAIN trail : trail[i] = w
      BY DEF TrailSound, IsAssigned
    <3>2. (\E i \in DOMAIN trail : trail[i] = w) <=> (\E i \in DOMAIN trail' : trail'[i] = w)
      BY <1>2, <2>2
    <3> QED
      BY <3>1, <3>2, <2>2, <1>4
  <2> QED
    BY <2>1, <2>2
<1>8. \A w \in Vars : assignment'[w] # NotAssigned => decision_level'[w] <= level
  BY <1>1, <1>4 DEF TrailSound, IsAssigned
<1> QED
  BY <1>6, <1>7, <1>8 DEF TrailSound, IsAssigned, Vars

(***************************************************************************)
(* Backtracking leaves a sound trail.                                      *)
(***************************************************************************)
LEMMA BacktrackTrail ==
    ASSUME IInv, NEW level \in Nat, Backtrack(level), model' = model
    PROVE  TrailSound'
<1> USE DEF IInv
<1>1. /\ decision_level \in [Vars -> Nat] /\ assignment \in [Vars -> Assignments]
      /\ trail \in Seq(Vars)
  BY DEF TypeOK
<1>2. /\ \A i, j \in DOMAIN trail' :
          i < j => /\ trail'[i] # trail'[j]
                   /\ decision_level'[trail'[i]] <= decision_level'[trail'[j]]
  BY BacktrackEffect, <1>1 DEF TrailSound
<1>3. \A v \in Vars : assignment'[v] # NotAssigned
                        <=> IsAssigned(v) /\ decision_level[v] <= level
  BY BacktrackEffect, <1>1 DEF IsAssigned
<1> QED
  BY <1>2, <1>3, BacktrackEffect DEF TrailSound, IsAssigned, Vars

(***************************************************************************)
(* The clause under visit is a sequence of literals of the model.          *)
(***************************************************************************)
LEMMA VisitedClause ==
    ASSUME IInv, Visiting
    PROVE  /\ scan \in DOMAIN clauses
           /\ clauses[scan] \in Seq(Literals)
           /\ \A i \in DOMAIN clauses[scan] :
                 /\ clauses[scan][i] \in Int /\ clauses[scan][i] # 0
                 /\ clauses[scan][i] \in Literals
                 /\ Value(clauses[scan][i]) \in Vars
<1>1. clauses \in Seq(Seq(Literals)) /\ scan \in Nat \ {0} /\ scan <= Len(clauses)
  BY DEF IInv, TypeOK, Visiting
<1>2. scan \in DOMAIN clauses /\ clauses[scan] \in Seq(Literals)
  BY <1>1
<1>3. \A i \in DOMAIN clauses[scan] : clauses[scan][i] \in Literals
  BY <1>2
<1> QED
  BY <1>2, <1>3 DEF Literals, LiteralsOver

LEMMA TrailStep ==
    ASSUME IInv, [Next]_vars
    PROVE  TrailSound'
<1>1. CASE UNCHANGED <<model, columns, trail, current_decision_level>>
  BY <1>1 DEF IInv, TrailSound, IsAssigned, Vars
<1>2. CASE Restart
  BY <1>2, BacktrackTrail DEF Restart
<1>3. CASE LearnAndBacktrack
  <2>1. backtrack_level \in Nat
    BY DEF IInv, TypeOK
  <2> QED
    BY <1>3, <2>1, BacktrackTrail DEF LearnAndBacktrack, LearnAdditionalClause
<1>4. CASE PropagateUnit
  <2>1. PICK i \in DOMAIN clauses[scan] :
            LET l == clauses[scan][i]
                v == Value(l)
            IN  /\ Unassigned(assignment, clauses[scan]) = {i}
                /\ assignment' = [assignment EXCEPT ![v] = Polarity(l)]
                /\ decision_level' = [decision_level EXCEPT ![v] = current_decision_level]
                /\ trail' = Append(trail, v)
    BY <1>4 DEF PropagateUnit
  <2> DEFINE l == clauses[scan][i]
             v == Value(l)
  <2>2. v \in Vars
    BY <1>4, VisitedClause DEF PropagateUnit
  <2>3. ~IsAssigned(v)
    BY <2>1 DEF Unassigned, IsAssigned
  <2>4. Polarity(l) \in {On, Off}
    BY DEF Polarity
  <2>5. current_decision_level \in Nat /\ current_decision_level' = current_decision_level
        /\ model' = model
    BY <1>4 DEF PropagateUnit, IInv, TypeOK
  <2>6. /\ assignment' = [assignment EXCEPT ![v] = Polarity(l)]
        /\ decision_level' = [decision_level EXCEPT ![v] = current_decision_level]
        /\ trail' = Append(trail, v)
    BY <2>1
  <2>7. current_decision_level <= current_decision_level
    BY <2>5
  <2> HIDE DEF l, v
  <2> QED
    BY <2>2, <2>3, <2>4, <2>5, <2>6, <2>7, AssignEffect
<1>5. CASE MakeDecision
  <2>1. PICK i \in UnassignedVars :
            LET v == model.literals[i]
            IN  /\ assignment' = [assignment EXCEPT ![v] = On]
                /\ decision_level' = [decision_level EXCEPT ![v] = NextLevel]
                /\ trail' = Append(trail, v)
    BY <1>5 DEF MakeDecision
  <2> DEFINE v == model.literals[i]
  <2>2. v \in Vars /\ ~IsAssigned(v)
    BY <2>1 DEF UnassignedVars, Vars, VarsOf, IsAssigned
  <2>3. /\ current_decision_level' = NextLevel /\ model' = model
        /\ NextLevel \in Nat /\ current_decision_level <= NextLevel
    BY <1>5 DEF MakeDecision, IInv, TypeOK, NextLevel
  <2> HIDE DEF v
  <2> QED
    BY <2>1, <2>2, <2>3, AssignEffect DEF v
<1> QED
  BY <1>1, <1>2, <1>3, <1>4, <1>5
  DEF Next, Step, CallSolve, Iterate, SkipClause, FindConflict, EndPass, StepDownTrail,
      ResolveAntecedent, ReturnUnsatisfiable, CheckSolution, Finished

----------------------------------------------------------------------------
(***************************************************************************)
(* The model is never changed, nor are its variables and literals.         *)
(***************************************************************************)
LEMMA ModelConstant ==
    ASSUME [Next]_vars
    PROVE  model' = model /\ Vars' = Vars /\ Literals' = Literals
<1>1. model' = model
  BY DEF Next, Step, CallSolve, Iterate, Restart, SkipClause, PropagateUnit, FindConflict,
         EndPass, StepDownTrail, ResolveAntecedent, ReturnUnsatisfiable, LearnAndBacktrack, LearnAdditionalClause,
         MakeDecision, CheckSolution, Finished
<1> QED
  BY <1>1 DEF Vars, Literals

(***************************************************************************)
(* Counting keeps the statistics a record of naturals.                     *)
(***************************************************************************)
LEMMA CountType ==
    ASSUME statistics \in [Counters -> Nat], NEW counter \in Counters, NEW n \in Nat
    PROVE  Count(counter, n) \in [Counters -> Nat]
BY ConfigurationAssumption DEF Count

(***************************************************************************)
(* What sort and unique leave of the learned literals is a clause with the *)
(* same literals: they are all false, so no two share a variable.          *)
(***************************************************************************)
LEMMA SortedUniqueClause ==
    ASSUME IInv, pc = "resolve", NEW c \in SortedUnique(learned)
    PROVE  c \in Seq(Literals) /\ LitsOf(c) = learned
<1> DEFINE values == {Value(l) : l \in learned}
<1>1. learned \subseteq Literals
  BY DEF IInv, TypeOK
<1>2. values \subseteq Vars
  BY <1>1 DEF Literals, LiteralsOver
<1>3. IsFiniteSet(Vars)
  BY VarsFinite DEF IInv, TypeOK, Vars
<1>4. Cardinality(values) \in Nat
  <2> HIDE DEF values
  <2>1. IsFiniteSet(values)
    BY <1>2, <1>3, FS_Subset
  <2> QED
    BY <2>1, FS_CardinalityType
<1>5. /\ c \in [1..Cardinality(values) -> learned]
      /\ {Value(l) : l \in LitsOf(c)} = values
  BY DEF SortedUnique
<1>6. c \in Seq(Literals)
  <2> DEFINE n == Cardinality(values)
  <2> HIDE DEF n, values
  <2>1. n \in Nat /\ c \in [1..n -> Literals]
    BY <1>1, <1>4, <1>5 DEF n
  <2> QED
    BY <2>1
<1>7. LitsOf(c) \subseteq learned
  BY <1>5 DEF LitsOf
<1>8. ASSUME NEW l \in learned PROVE l \in LitsOf(c)
  <2>1. PICK k \in LitsOf(c) : Value(k) = Value(l)
    BY <1>5
  <2>2. k \in learned
    BY <1>7
  <2>3. LitFalse(assignment, l) /\ LitFalse(assignment, k)
    BY <2>2 DEF IInv, AnalysisSound
  <2>4. l \in Int /\ k \in Int
    BY <1>1, <2>2 DEF Literals, LiteralsOver
  <2> QED
    BY <2>1, <2>3, <2>4, FalseLiteralUnique
<1> QED
  BY <1>6, <1>7, <1>8

(***************************************************************************)
(* The activity stays an integer.                                          *)
(***************************************************************************)
LEMMA VsidsType ==
    ASSUME vsids_activity \in [Vars -> Int], NEW V \in SUBSET Vars, UpdateVsidsActivity(V)
    PROVE  vsids_activity' \in [Vars -> Int]
<1> USE ConfigurationAssumption
<1>1. \A n \in Int, d \in Nat \ {0} : Truncated(n, d) \in Int
  BY DEF Truncated
<1>2. ActivityMin \in Int /\ ActivityMax \in Int
  BY DEF ActivityMin
<1> DEFINE normal == Normalized(vsids_activity, V)
           bumped == Bumped(normal, V)
<1>3. normal \in [Vars -> Int]
  BY <1>1 DEF Normalized
<1>4. bumped \in [Vars -> Int]
  <2> HIDE DEF normal
  <2> QED BY <1>3 DEF Bumped
<1>5. ASSUME NEW ub \in {ActivityMin, ActivityMax}
      PROVE  Decayed(bumped, ub) \in [Vars -> Int]
  <2> HIDE DEF bumped
  <2>1. \A v \in Vars : bumped[v] * RatioDen \in Int
    BY <1>4
  <2>2. \A v \in Vars : Truncated(bumped[v] * RatioDen, RatioNum) \in Int
    BY <1>1, <2>1
  <2> QED
    BY <1>2, <1>5, <2>2 DEF Decayed
<1>6. \/ \E ub \in {ActivityMin, ActivityMax} : vsids_activity' = Decayed(bumped, ub)
      \/ vsids_activity' = bumped
  BY DEF UpdateVsidsActivity
<1> HIDE DEF bumped
<1> QED
  BY <1>4, <1>5, <1>6

(***************************************************************************)
(* A conflict needs assigned variables, so the trail is not empty when     *)
(* resolve_conflict takes the index of its last entry.                     *)
(***************************************************************************)
LEMMA ConflictTrail ==
    ASSUME IInv, Visiting, Unassigned(assignment, clauses[scan]) = {}
    PROVE  Len(trail) > 0
<1>1. clauses[scan] # << >> /\ clauses[scan] \in Seq(Literals)
  BY VisitedClause DEF IInv, NoEmptyClause
<1>2. 1 \in DOMAIN clauses[scan]
  BY <1>1
<1>3. Value(clauses[scan][1]) \in Vars /\ IsAssigned(Value(clauses[scan][1]))
  BY <1>2, VisitedClause DEF Unassigned, IsAssigned
<1>4. PICK i \in DOMAIN trail : trail[i] = Value(clauses[scan][1])
  BY <1>3 DEF IInv, TrailSound
<1> QED
  BY <1>4 DEF IInv, TypeOK

LEMMA BacktrackType ==
    ASSUME IInv, NEW level \in Nat, Backtrack(level), model' = model
    PROVE  /\ trail' \in Seq(Vars)
           /\ assignment' \in [Vars -> Assignments]
           /\ clause_propagation' \in [Vars -> 0..Len(clauses)]
           /\ decision_level' = decision_level /\ current_decision_level' = level
<1>1. /\ assignment \in [Vars -> Assignments] /\ NotAssigned \in Assignments
      /\ clause_propagation \in [Vars -> 0..Len(clauses)] /\ NoClause \in 0..Len(clauses)
  BY DEF IInv, TypeOK, Assignments, NoClause
<1>2. /\ assignment' = [v \in Vars |-> IF IsAssigned(v) /\ level < decision_level[v]
                                       THEN NotAssigned ELSE assignment[v]]
      /\ clause_propagation' = [v \in Vars |-> IF IsAssigned(v) /\ level < decision_level[v]
                                               THEN NoClause ELSE clause_propagation[v]]
  BY BacktrackEffect
<1>3. assignment' \in [Vars -> Assignments]
  BY <1>1, <1>2
<1>4. clause_propagation' \in [Vars -> 0..Len(clauses)]
  BY <1>1, <1>2
<1> QED
  BY <1>3, <1>4, BacktrackEffect

(***************************************************************************)
(* The list of literals that solve_sat returns is a sequence of integers.  *)
(***************************************************************************)
LEMMA SolutionType ==
    ASSUME IInv
    PROVE  Solution \in Seq(Int)
<1>1. model.literals \in Seq(Nat \ {0})
  BY DEF IInv, TypeOK, WellFormedModel
<1>2. /\ Len(model.literals) \in Nat
      /\ Solution \in [1..Len(model.literals) -> Int]
  BY <1>1 DEF Solution, SolutionOf
<1> QED
  BY <1>2

(***************************************************************************)
(* The type invariant is preserved.                                        *)
(***************************************************************************)
LEMMA TypeStep ==
    ASSUME IInv, [Next]_vars
    PROVE  TypeOK'
<1>1. /\ model' = model /\ Vars' = Vars /\ Literals' = Literals
      /\ TypeOK /\ WellFormedModel(model)
  BY ModelConstant DEF IInv, TypeOK
<1>2. CASE UNCHANGED vars
  BY <1>1, <1>2 DEF TypeOK
<1>3. CASE CallSolve
  <2>1. expected' \in Int
    BY <1>3, ConfigurationAssumption DEF CallSolve
  <2> QED
    BY <1>1, <1>3, <2>1 DEF TypeOK, CallSolve, PcValues
<1>4. CASE Iterate
  BY <1>1, <1>4 DEF TypeOK, Iterate, StartPropagation, PcValues
<1>5. CASE Restart
  <2>1. Backtrack(0)
    BY <1>5 DEF Restart
  <2>2. /\ trail' \in Seq(Vars)
        /\ assignment' \in [Vars -> Assignments]
        /\ clause_propagation' \in [Vars -> 0..Len(clauses)]
        /\ decision_level' = decision_level /\ current_decision_level' = 0
    BY <1>1, <2>1, BacktrackType
  <2>3. statistics' \in [Counters -> Nat]
    BY <1>1, <1>5, CountType DEF TypeOK, Restart, Counters
  <2>4. restart_threshold' \in Nat
    BY <1>1, <1>5, ConfigurationAssumption DEF TypeOK, Restart, NextThreshold
  <2> QED
    BY <1>1, <1>5, <2>2, <2>3, <2>4 DEF TypeOK, Restart, StartPropagation, PcValues
<1>6. CASE SkipClause
  BY <1>1, <1>6 DEF TypeOK, SkipClause, Visiting
<1>7. CASE PropagateUnit
  <2>1. PICK i \in DOMAIN clauses[scan] :
            /\ assignment' = [assignment EXCEPT ![Value(clauses[scan][i])] = Polarity(clauses[scan][i])]
            /\ decision_level' = [decision_level EXCEPT ![Value(clauses[scan][i])] = current_decision_level]
            /\ clause_propagation' = [clause_propagation EXCEPT ![Value(clauses[scan][i])] = scan]
            /\ trail' = Append(trail, Value(clauses[scan][i]))
    BY <1>7 DEF PropagateUnit
  <2>2. Value(clauses[scan][i]) \in Vars /\ scan \in 0..Len(clauses)
    BY <1>1, <1>7, VisitedClause DEF PropagateUnit, TypeOK
  <2>3. /\ assignment' \in [Vars -> Assignments]
        /\ decision_level' \in [Vars -> Nat]
        /\ clause_propagation' \in [Vars -> 0..Len(clauses)]
        /\ trail' \in Seq(Vars)
    BY <1>1, <2>1, <2>2 DEF TypeOK, Polarity, Assignments
  <2>4. scan' \in Nat \ {0} /\ propagated' \in Nat /\ pc' = "propagate"
    BY <1>1, <1>7 DEF TypeOK, PropagateUnit, Visiting
  <2> QED
    BY <1>1, <1>7, <2>3, <2>4 DEF TypeOK, PropagateUnit, PcValues
<1>8. CASE FindConflict
  <2>1. /\ Len(trail) > 0 /\ trail' = trail
        /\ trail_index' = Len(trail) - 1
    BY <1>8, ConflictTrail DEF FindConflict, TopOfTrail
  <2>2. trail_index' \in Nat /\ trail_index' < Len(trail')
    BY <1>1, <2>1 DEF TypeOK
  <2>3. statistics' \in [Counters -> Nat]
    BY <1>1, <1>8, CountType DEF TypeOK, FindConflict, Counters
  <2>4. learned' \subseteq Literals
    BY <1>8, VisitedClause DEF FindConflict, LitsOf
  <2>5. current_level_vars' \subseteq Vars \X Nat
    BY <1>8, VisitedClause DEF FindConflict
  <2> QED
    BY <1>1, <1>8, <2>2, <2>3, <2>4, <2>5 DEF TypeOK, FindConflict, PcValues
<1>9. CASE EndPass
  <2>1. statistics' \in [Counters -> Nat]
    <3>1. Count("propagations", propagated) \in [Counters -> Nat]
      BY <1>1, CountType DEF TypeOK, Counters
    <3> QED
      BY <1>1, <1>9, <3>1 DEF TypeOK, EndPass
  <2> QED
    BY <1>1, <1>9, <2>1 DEF TypeOK, EndPass, StartPropagation, PcValues
<1>10. CASE StepDownTrail
  <2>1. trail_index' \in Nat /\ trail_index' < Len(trail')
    BY <1>1, <1>10 DEF TypeOK, StepDownTrail, Resolving
  <2> QED
    BY <1>1, <1>10, <2>1 DEF TypeOK, StepDownTrail
<1>11. CASE ResolveAntecedent
  <2>1. TrailVar \in Vars
    <3>1. trail \in Seq(Vars) /\ trail_index \in Nat /\ trail_index < Len(trail)
      BY <1>1, <1>11 DEF TypeOK, ResolveAntecedent, Resolving
    <3>2. trail_index + 1 \in 1..Len(trail)
      BY <3>1
    <3> QED
      BY <3>1, <3>2 DEF TrailVar
  <2>2. clause_propagation[TrailVar] \in DOMAIN clauses
    BY <1>1, <1>11, <2>1 DEF TypeOK, ResolveAntecedent, HasAntecedent, IsDecision, NoClause
  <2>3. clauses[clause_propagation[TrailVar]] \in Seq(Literals)
    BY <1>1, <2>2 DEF TypeOK
  <2>4. Added \subseteq Literals
    BY <2>3 DEF Added, LitsOf
  <2>5. \A l \in Added : Value(l) \in Vars
    BY <2>4 DEF Literals, LiteralsOver
  <2>6. learned' \subseteq Literals
    BY <1>1, <1>11, <2>4 DEF TypeOK, ResolveAntecedent, Kept
  <2>7. current_level_vars' \subseteq Vars \X Nat
    BY <1>1, <1>11, <2>5 DEF TypeOK, ResolveAntecedent, OfCurrentLevel
  <2>8. backtrack_level' \in Nat
    <3>1. ResolvedLevels \subseteq Nat
      BY <1>1, <2>5 DEF TypeOK, ResolvedLevels
    <3> QED
      BY <1>11, <3>1 DEF ResolveAntecedent
  <2>9. trail_index' \in Nat /\ trail_index' < Len(trail')
    BY <1>1, <1>11 DEF TypeOK, ResolveAntecedent, Resolving
  <2> QED
    BY <1>1, <1>11, <2>6, <2>7, <2>8, <2>9 DEF TypeOK, ResolveAntecedent
<1>12. CASE ReturnUnsatisfiable
  BY <1>1, <1>12 DEF TypeOK, ReturnUnsatisfiable, PcValues
<1>13. CASE LearnAndBacktrack
  <2>1. PICK c \in SortedUnique(learned) :
            /\ clauses' = Append(clauses, c)
            /\ watchers' = Append(watchers, WatcherOf(assignment, c))
            /\ UpdateVsidsActivity({Value(l) : l \in LitsOf(c)})
    BY <1>13 DEF LearnAndBacktrack, LearnAdditionalClause
  <2>2. c \in Seq(Literals)
    BY <1>13, SortedUniqueClause DEF LearnAndBacktrack, LearnAdditionalClause, Resolved
  <2>3. {Value(l) : l \in LitsOf(c)} \subseteq Vars
    BY <2>2 DEF LitsOf, Literals, LiteralsOver
  <2>4. vsids_activity' \in [Vars -> Int]
    BY <1>1, <2>1, <2>3, VsidsType DEF TypeOK
  <2>5. WatcherOf(assignment, c) \in (Vars \cup {NoWatch}) \X (Vars \cup {NoWatch})
    BY <2>2, WatcherType DEF Literals
  <2>6. /\ clauses' \in Seq(Seq(Literals)) /\ Len(clauses') = Len(clauses) + 1
        /\ watchers' \in Seq((Vars \cup {NoWatch}) \X (Vars \cup {NoWatch}))
        /\ Len(watchers') = Len(clauses')
    BY <1>1, <2>1, <2>2, <2>5 DEF TypeOK
  <2>7. Backtrack(backtrack_level) /\ backtrack_level \in Nat
    BY <1>1, <1>13 DEF LearnAndBacktrack, LearnAdditionalClause, TypeOK
  <2>8. /\ trail' \in Seq(Vars)
        /\ assignment' \in [Vars -> Assignments]
        /\ clause_propagation' \in [Vars -> 0..Len(clauses)]
        /\ decision_level' = decision_level /\ current_decision_level' = backtrack_level
    BY <1>1, <2>7, BacktrackType
  <2>9. clause_propagation' \in [Vars -> 0..Len(clauses')]
    BY <1>1, <2>6, <2>8 DEF TypeOK
  <2>10. statistics' \in [Counters -> Nat]
    BY <1>1, <1>13, CountType DEF TypeOK, LearnAndBacktrack, LearnAdditionalClause, Counters
  <2> QED
    BY <1>1, <1>13, <2>4, <2>6, <2>7, <2>8, <2>9, <2>10 DEF TypeOK, LearnAndBacktrack, LearnAdditionalClause, PcValues
<1>14. CASE MakeDecision
  <2>1. PICK i \in UnassignedVars :
            /\ assignment' = [assignment EXCEPT ![model.literals[i]] = On]
            /\ decision_level' = [decision_level EXCEPT ![model.literals[i]] = NextLevel]
            /\ trail' = Append(trail, model.literals[i])
    BY <1>14 DEF MakeDecision
  <2>2. model.literals[i] \in Vars /\ NextLevel \in Nat
    BY <1>1, <2>1 DEF UnassignedVars, Vars, VarsOf, NextLevel, TypeOK
  <2>3. /\ assignment' \in [Vars -> Assignments]
        /\ decision_level' \in [Vars -> Nat]
        /\ trail' \in Seq(Vars)
    BY <1>1, <2>1, <2>2 DEF TypeOK, Assignments
  <2>4. statistics' \in [Counters -> Nat]
    <3>1. Count("decisions", 1) \in [Counters -> Nat]
      BY <1>1, CountType DEF TypeOK, Counters
    <3> QED
      BY <1>14, <2>2, <3>1 DEF MakeDecision
  <2> QED
    BY <1>1, <1>14, <2>2, <2>3, <2>4 DEF TypeOK, MakeDecision, PcValues
<1>15. CASE CheckSolution
  <2>1. Solution \in Seq(Int)
    BY SolutionType
  <2>2. results' \in Seq(Seq(Int))
    <3>1. Append(results, Solution) \in Seq(Seq(Int)) /\ results \in Seq(Seq(Int))
      BY <1>1, <2>1 DEF TypeOK
    <3>2. results' = results \/ results' = Append(results, Solution)
      BY <1>15 DEF CheckSolution
    <3> QED
      BY <3>1, <3>2
  <2>3. pc' \in {"loop", "idle"}
    BY <1>15 DEF CheckSolution
  <2> QED
    BY <1>1, <1>15, <2>2, <2>3 DEF TypeOK, CheckSolution, PcValues
<1> QED
  BY <1>2, <1>3, <1>4, <1>5, <1>6, <1>7, <1>8, <1>9, <1>10, <1>11, <1>12, <1>13, <1>14, <1>15
  DEF Next, Step, Finished

----------------------------------------------------------------------------
(***************************************************************************)
(* A clause of the database is a sequence of literals of the model.        *)
(***************************************************************************)
LEMMA DatabaseClause ==
    ASSUME IInv, NEW k \in DOMAIN clauses
    PROVE  /\ clauses[k] \in Seq(Literals)
           /\ \A i \in DOMAIN clauses[k] :
                 /\ clauses[k][i] \in Int /\ clauses[k][i] # 0
                 /\ clauses[k][i] \in Literals
                 /\ Value(clauses[k][i]) \in Vars
<1>1. clauses[k] \in Seq(Literals)
  BY DEF IInv, TypeOK
<1>2. \A i \in DOMAIN clauses[k] : clauses[k][i] \in Literals
  BY <1>1
<1> QED
  BY <1>1, <1>2 DEF Literals, LiteralsOver

(***************************************************************************)
(* A propagated variable has its clause in the database, and the clause    *)
(* explains it.                                                            *)
(***************************************************************************)
LEMMA Reason ==
    ASSUME IInv, NEW v \in Vars, ~IsDecision(v)
    PROVE  /\ clause_propagation[v] \in DOMAIN clauses
           /\ IsAssigned(v)
           /\ Explains(v, clauses[clause_propagation[v]])
<1>1. clause_propagation[v] \in DOMAIN clauses
  BY DEF IInv, TypeOK, IsDecision, NoClause
<1> QED
  BY <1>1 DEF IInv, ReasonsSound

(***************************************************************************)
(* A clause that explains a variable still does when the assignment and    *)
(* the levels of its variables do not change.                              *)
(***************************************************************************)
LEMMA ExplainsStable ==
    ASSUME IInv, NEW v \in Vars, ~IsDecision(v),
           LET c == clauses[clause_propagation[v]]
           IN  \A i \in DOMAIN c : /\ assignment'[Value(c[i])] = assignment[Value(c[i])]
                                   /\ decision_level'[Value(c[i])] = decision_level[Value(c[i])],
           assignment'[v] = assignment[v], decision_level'[v] = decision_level[v],
           clause_propagation'[v] = clause_propagation[v],
           clauses'[clause_propagation[v]] = clauses[clause_propagation[v]]
    PROVE  IsAssigned(v)' /\ Explains(v, clauses[clause_propagation[v]])'
<1>1. IsAssigned(v) /\ Explains(v, clauses[clause_propagation[v]])
  BY Reason
<1> QED
  BY <1>1 DEF IsAssigned, Explains, LitTrue, LitFalse

(***************************************************************************)
(* After backtracking the kept variables are still explained: the clause   *)
(* of a kept variable is over variables of no higher level.                *)
(***************************************************************************)
LEMMA BacktrackReasons ==
    ASSUME IInv, NEW level \in Nat, Backtrack(level), model' = model,
           \A k \in DOMAIN clauses : clauses'[k] = clauses[k]
    PROVE  ReasonsSound'
<1> SUFFICES ASSUME NEW v \in Vars, clause_propagation'[v] # NoClause
             PROVE  IsAssigned(v)' /\ Explains(v, clauses[clause_propagation[v]])'
  BY DEF ReasonsSound, IsDecision, Vars
<1> DEFINE c == clauses[clause_propagation[v]]
<1>1. /\ ~(IsAssigned(v) /\ level < decision_level[v])
      /\ clause_propagation'[v] = clause_propagation[v] /\ assignment'[v] = assignment[v]
      /\ decision_level' = decision_level
  BY BacktrackEffect
<1>2. ~IsDecision(v)
  BY <1>1 DEF IsDecision
<1>3. /\ clause_propagation[v] \in DOMAIN clauses /\ IsAssigned(v)
      /\ \A i \in DOMAIN c : decision_level[Value(c[i])] <= decision_level[v]
  BY <1>2, Reason DEF Explains
<1>4. \A i \in DOMAIN c : Value(c[i]) \in Vars
  BY <1>3, DatabaseClause
<1>5. decision_level \in [Vars -> Nat]
  BY DEF IInv, TypeOK
<1>6. \A i \in DOMAIN c : ~(level < decision_level[Value(c[i])])
  BY <1>1, <1>3, <1>4, <1>5
<1>7. \A i \in DOMAIN c : assignment'[Value(c[i])] = assignment[Value(c[i])]
  BY <1>4, <1>6, BacktrackEffect
<1> QED
  BY <1>1, <1>2, <1>3, <1>7, ExplainsStable

(***************************************************************************)
(* Assigning one variable leaves the others explained.                     *)
(***************************************************************************)
LEMMA AssignReasons ==
    ASSUME IInv, model' = model, clauses' = clauses,
           NEW v \in Vars, ~IsAssigned(v), NEW x, NEW level,
           assignment' = [assignment EXCEPT ![v] = x],
           decision_level' = [decision_level EXCEPT ![v] = level],
           NEW w \in Vars, w # v, ~IsDecision(w), clause_propagation'[w] = clause_propagation[w]
    PROVE  IsAssigned(w)' /\ Explains(w, clauses[clause_propagation[w]])'
<1> DEFINE c == clauses[clause_propagation[w]]
<1>1. clause_propagation[w] \in DOMAIN clauses /\ Explains(w, c) /\ IsAssigned(w)
  BY Reason
<1>2. \A i \in DOMAIN c : Value(c[i]) \in Vars /\ c[i] \in Int
  BY <1>1, DatabaseClause
<1>3. assignment \in [Vars -> Assignments] /\ decision_level \in [Vars -> Nat]
  BY DEF IInv, TypeOK
<1>4. \A i \in DOMAIN c : IsAssigned(Value(c[i]))
  BY <1>1, <1>2 DEF Explains, LitTrue, LitFalse, IsAssigned, On, Off, NotAssigned
<1>5. \A i \in DOMAIN c : Value(c[i]) # v
  BY <1>4
<1>6. \A i \in DOMAIN c : /\ assignment'[Value(c[i])] = assignment[Value(c[i])]
                          /\ decision_level'[Value(c[i])] = decision_level[Value(c[i])]
  BY <1>2, <1>3, <1>5
<1>7. assignment'[w] = assignment[w] /\ decision_level'[w] = decision_level[w]
  BY <1>3
<1> QED
  BY <1>1, <1>6, <1>7, ExplainsStable

(***************************************************************************)
(* What is known when unit_propagation meets a unit clause: the literal at *)
(* position i is unassigned and all the others are false.                  *)
(***************************************************************************)
LEMMA UnitClause ==
    ASSUME IInv, Visiting, IsPending(assignment, clauses[scan]),
           NEW i \in DOMAIN clauses[scan], Unassigned(assignment, clauses[scan]) = {i}
    PROVE  /\ Value(clauses[scan][i]) \in Vars
           /\ ~IsAssigned(Value(clauses[scan][i]))
           /\ \A j \in DOMAIN clauses[scan] : j # i =>
                 /\ LitFalse(assignment, clauses[scan][j])
                 /\ IsAssigned(Value(clauses[scan][j]))
                 /\ Value(clauses[scan][j]) # Value(clauses[scan][i])
                 /\ decision_level[Value(clauses[scan][j])] <= current_decision_level
<1> DEFINE c == clauses[scan]
<1>1. \A j \in DOMAIN c : Value(c[j]) \in Vars /\ c[j] \in Literals
  BY VisitedClause
<1>2. ~IsAssigned(Value(c[i]))
  BY DEF Unassigned, IsAssigned
<1>3. ASSUME NEW j \in DOMAIN c, j # i
      PROVE  IsAssigned(Value(c[j])) /\ LitFalse(assignment, c[j])
  <2>1. IsAssigned(Value(c[j]))
    BY <1>3 DEF Unassigned, IsAssigned
  <2>2. ~LitTrue(assignment, c[j])
    BY DEF IsPending, IsClauseSatisfied
  <2>3. assignment \in [Vars -> Assignments] /\ c[j] \in LiteralsOver(Vars)
    BY <1>1 DEF IInv, TypeOK, Literals
  <2> QED
    BY <2>1, <2>2, <2>3, AssignedLiteral DEF IsAssigned
<1> QED
  BY <1>1, <1>2, <1>3 DEF IInv, TrailSound

LEMMA ReasonsStep ==
    ASSUME IInv, [Next]_vars
    PROVE  ReasonsSound'
<1>1. CASE UNCHANGED <<model, columns, clauses>>
  BY <1>1 DEF IInv, ReasonsSound, IsAssigned, IsDecision, Explains, Vars
<1>2. CASE Restart
  BY <1>2, BacktrackReasons DEF Restart
<1>3. CASE LearnAndBacktrack
  <2>1. backtrack_level \in Nat /\ clauses \in Seq(Seq(Literals))
    BY DEF IInv, TypeOK
  <2>2. PICK c \in SortedUnique(learned) : clauses' = Append(clauses, c)
    BY <1>3 DEF LearnAndBacktrack, LearnAdditionalClause
  <2>3. \A k \in DOMAIN clauses : clauses'[k] = clauses[k]
    BY <2>1, <2>2
  <2> QED
    BY <1>3, <2>1, <2>3, BacktrackReasons DEF LearnAndBacktrack, LearnAdditionalClause
<1>4. CASE PropagateUnit
  <2>1. PICK i \in DOMAIN clauses[scan] :
            /\ Unassigned(assignment, clauses[scan]) = {i}
            /\ assignment' = [assignment EXCEPT ![Value(clauses[scan][i])] = Polarity(clauses[scan][i])]
            /\ decision_level' = [decision_level EXCEPT ![Value(clauses[scan][i])] = current_decision_level]
            /\ clause_propagation' = [clause_propagation EXCEPT ![Value(clauses[scan][i])] = scan]
    BY <1>4 DEF PropagateUnit
  <2> DEFINE c == clauses[scan]
  <2>v. PICK v : v = Value(c[i])
    OBVIOUS
  <2>2. /\ Visiting /\ IsPending(assignment, clauses[scan]) /\ model' = model /\ clauses' = clauses
        /\ assignment \in [Vars -> Assignments] /\ decision_level \in [Vars -> Nat]
        /\ clause_propagation \in [Vars -> 0..Len(clauses)] /\ current_decision_level \in Nat
    BY <1>4 DEF PropagateUnit, IInv, TypeOK
  <2>3. /\ v \in Vars /\ ~IsAssigned(v)
        /\ \A j \in DOMAIN c : j # i =>
              /\ LitFalse(assignment, c[j]) /\ Value(c[j]) # v
              /\ decision_level[Value(c[j])] <= current_decision_level
    BY <2>1, <2>2, <2>v, UnitClause
  <2>4. \A j \in DOMAIN c : Value(c[j]) \in Vars /\ c[j] \in Int /\ c[j] # 0
    BY <2>2, VisitedClause
  <2>5. /\ assignment'[v] = Polarity(c[i]) /\ decision_level'[v] = current_decision_level
        /\ clause_propagation'[v] = scan
        /\ \A w \in Vars : w # v => /\ assignment'[w] = assignment[w]
                                    /\ decision_level'[w] = decision_level[w]
                                    /\ clause_propagation'[w] = clause_propagation[w]
    BY <2>1, <2>2, <2>3, <2>v
  <2>6. IsAssigned(v)' /\ Explains(v, clauses[clause_propagation[v]])'
    <3>1. assignment'[v] # NotAssigned
      BY <2>5 DEF Polarity, On, Off, NotAssigned
    <3>2. LitTrue(assignment', c[i])
      BY <2>4, <2>5, <2>v DEF LitTrue, Polarity, IsOn, IsOff
    <3>3. ASSUME NEW j \in DOMAIN c
          PROVE  /\ decision_level'[Value(c[j])] <= decision_level'[v]
                 /\ IF Value(c[j]) = v THEN LitTrue(assignment', c[j])
                                       ELSE LitFalse(assignment', c[j])
      <4>1. CASE j = i
        BY <4>1, <3>2, <2>2, <2>5, <2>v
      <4>2. CASE j # i
        BY <4>2, <2>3, <2>4, <2>5 DEF LitFalse
      <4> QED
        BY <4>1, <4>2
    <3> QED
      <4>1. clauses'[clause_propagation'[v]] = c /\ \E j \in DOMAIN c : Value(c[j]) = v
        BY <2>2, <2>5, <2>v
      <4> HIDE DEF c
      <4> QED
        BY <3>1, <3>3, <4>1 DEF IsAssigned, Explains
  <2>7. ASSUME NEW w \in Vars, w # v, clause_propagation'[w] # NoClause
        PROVE  IsAssigned(w)' /\ Explains(w, clauses[clause_propagation[w]])'
    <3>1. ~IsDecision(w) /\ clause_propagation'[w] = clause_propagation[w]
      BY <2>5, <2>7 DEF IsDecision
    <3> QED
      BY <3>1, <2>1, <2>2, <2>3, <2>7, <2>v, AssignReasons
  <2> QED
    BY <2>2, <2>6, <2>7 DEF ReasonsSound, IsDecision, Vars
<1>5. CASE MakeDecision
  <2>1. PICK i \in UnassignedVars :
            /\ assignment' = [assignment EXCEPT ![model.literals[i]] = On]
            /\ decision_level' = [decision_level EXCEPT ![model.literals[i]] = NextLevel]
    BY <1>5 DEF MakeDecision
  <2> DEFINE v == model.literals[i]
  <2>2. v \in Vars /\ ~IsAssigned(v)
    BY <2>1 DEF UnassignedVars, Vars, VarsOf, IsAssigned
  <2>3. model' = model /\ clauses' = clauses /\ clause_propagation' = clause_propagation
    BY <1>5 DEF MakeDecision
  <2>4. IsDecision(v)
    BY <2>2 DEF IInv, ReasonsSound
  <2>5. ASSUME NEW w \in Vars, clause_propagation'[w] # NoClause
        PROVE  IsAssigned(w)' /\ Explains(w, clauses[clause_propagation[w]])'
    <3>1. ~IsDecision(w) /\ w # v
      BY <2>3, <2>4, <2>5 DEF IsDecision
    <3> HIDE DEF v
    <3> QED
      BY <3>1, <2>1, <2>2, <2>3, AssignReasons DEF v
  <2> QED
    BY <2>3, <2>5 DEF ReasonsSound, IsDecision, Vars
<1> QED
  BY <1>1, <1>2, <1>3, <1>4, <1>5
  DEF Next, Step, CallSolve, Iterate, SkipClause, FindConflict, EndPass, StepDownTrail,
      ResolveAntecedent, ReturnUnsatisfiable, CheckSolution, Finished

----------------------------------------------------------------------------
(***************************************************************************)
(* The database only grows, by a clause that is not empty and follows from *)
(* the model.                                                              *)
(***************************************************************************)
LEMMA DatabaseStep ==
    ASSUME IInv, [Next]_vars
    PROVE  NoEmptyClause' /\ KeepsModel' /\ ClausesFollow'
<1>1. CASE UNCHANGED <<model, clauses>>
  BY <1>1 DEF IInv, NoEmptyClause, KeepsModel, ClausesFollow
<1>2. CASE LearnAndBacktrack
  <2>1. PICK c \in SortedUnique(learned) : clauses' = Append(clauses, c)
    BY <1>2 DEF LearnAndBacktrack, LearnAdditionalClause
  <2>2. /\ pc = "resolve" /\ learned # {} /\ model' = model
        /\ clauses \in Seq(Seq(Literals)) /\ model.clauses \in Seq(Seq(LiteralsOver(VarsOf(model))))
    BY <1>2 DEF LearnAndBacktrack, LearnAdditionalClause, Resolved, IsRefuted, IInv, TypeOK, WellFormedModel
  <2>3. c \in Seq(Literals) /\ LitsOf(c) = learned
    BY <2>2, SortedUniqueClause
  <2>4. /\ DOMAIN clauses' = DOMAIN clauses \cup {Len(clauses) + 1}
        /\ Len(clauses') = Len(clauses) + 1 /\ Len(clauses) \in Nat
        /\ clauses'[Len(clauses) + 1] = c
        /\ \A k \in DOMAIN clauses : clauses'[k] = clauses[k]
    BY <2>1, <2>2, <2>3
  <2>5. c # << >>
    BY <2>2, <2>3 DEF LitsOf
  <2>6. EntailsSome(model, LitsOf(c))
    BY <2>2, <2>3 DEF IInv, AnalysisSound
  <2>7. NoEmptyClause'
    BY <2>4, <2>5 DEF IInv, NoEmptyClause
  <2>8. KeepsModel'
    <3>1. \A k \in DOMAIN model.clauses : k \in DOMAIN clauses
      BY <2>2 DEF IInv, KeepsModel
    <3>2. Len(model.clauses) <= Len(clauses')
      BY <2>2, <2>4 DEF IInv, KeepsModel
    <3> QED
      BY <2>2, <2>4, <3>1, <3>2 DEF IInv, KeepsModel
  <2>9. ClausesFollow'
    <3>1. \A k \in DOMAIN clauses' : EntailsSome(model, LitsOf(clauses'[k]))
      BY <2>4, <2>6 DEF IInv, ClausesFollow
    <3> QED
      BY <2>2, <3>1 DEF ClausesFollow
  <2> QED
    BY <2>7, <2>8, <2>9
<1> QED
  BY <1>1, <1>2
  DEF Next, Step, CallSolve, Iterate, Restart, SkipClause, PropagateUnit, FindConflict, EndPass,
      StepDownTrail, ResolveAntecedent, ReturnUnsatisfiable, MakeDecision, CheckSolution, Finished

----------------------------------------------------------------------------
(***************************************************************************)
(* Every solution of the model contradicts a literal that is false at      *)
(* level 0.                                                                *)
(***************************************************************************)
LEMMA RootFalse ==
    ASSUME IInv, NEW l \in Literals, LitFalse(assignment, l), decision_level[Value(l)] = 0,
           NEW b \in Valuations(model), SatisfiesModel(b, model)
    PROVE  ~LitTrue(b, l)
<1> DEFINE v == Value(l)
           r == IF assignment[v] = On THEN v ELSE -v
<1>1. l \in Int /\ l # 0 /\ v \in Vars /\ v \in Int /\ v > 0
  BY DEF Literals, LiteralsOver, Value
<1>2. IsAssigned(v)
  BY DEF LitFalse, IsAssigned, On, Off, NotAssigned
<1>3. EntailsSome(model, {r})
  BY <1>1, <1>2 DEF IInv, RootLevelFollows
<1>4. LitTrue(b, r)
  BY <1>3 DEF EntailsSome
<1>5. r = -l
  BY <1>1 DEF LitFalse, IsOn, IsOff, Value, On, Off
<1> QED
  BY <1>1, <1>4, <1>5 DEF LitTrue, IsOn, IsOff, Value, On, Off

LEMMA RootStep ==
    ASSUME IInv, [Next]_vars
    PROVE  RootLevelFollows'
<1> DEFINE lit(v, x) == {IF x = On THEN v ELSE -v}
<1>0. model' = model /\ Vars' = Vars
  BY ModelConstant
<1> SUFFICES ASSUME NEW w \in Vars, assignment'[w] # NotAssigned, decision_level'[w] = 0
             PROVE  EntailsSome(model, lit(w, assignment'[w]))
  BY <1>0 DEF RootLevelFollows, IsAssigned
<1>t. /\ assignment \in [Vars -> Assignments] /\ decision_level \in [Vars -> Nat]
      /\ current_decision_level \in Nat /\ backtrack_level \in Nat
  BY DEF IInv, TypeOK
<1>1. CASE assignment'[w] = assignment[w] /\ decision_level'[w] = decision_level[w]
  BY <1>1 DEF IInv, RootLevelFollows, IsAssigned
<1>2. CASE \E level \in Nat : Backtrack(level)
  <2>1. PICK level \in Nat : Backtrack(level)
    BY <1>2
  <2>2. /\ decision_level' = decision_level
        /\ assignment' = [v \in Vars |-> IF IsAssigned(v) /\ level < decision_level[v]
                                         THEN NotAssigned ELSE assignment[v]]
    BY <1>0, <2>1, BacktrackEffect
  <2>3. assignment'[w] = assignment[w] /\ decision_level'[w] = decision_level[w]
    BY <2>2
  <2> QED
    BY <1>1, <2>3
<1>3. CASE PropagateUnit
  <2>1. PICK i \in DOMAIN clauses[scan] :
            /\ Unassigned(assignment, clauses[scan]) = {i}
            /\ assignment' = [assignment EXCEPT ![Value(clauses[scan][i])] = Polarity(clauses[scan][i])]
            /\ decision_level' = [decision_level EXCEPT ![Value(clauses[scan][i])] = current_decision_level]
    BY <1>3 DEF PropagateUnit
  <2> DEFINE c == clauses[scan]
  <2>2. Visiting /\ IsPending(assignment, clauses[scan]) /\ scan \in DOMAIN clauses
    BY <1>3, VisitedClause DEF PropagateUnit
  <2>3. /\ Value(c[i]) \in Vars
        /\ \A j \in DOMAIN c : j # i =>
              /\ LitFalse(assignment, c[j])
              /\ decision_level[Value(c[j])] <= current_decision_level
    BY <2>1, <2>2, UnitClause
  <2>4. CASE w # Value(c[i])
    BY <1>1, <1>t, <2>1, <2>4
  <2>5. CASE w = Value(c[i])
    <3>1. current_decision_level = 0
      BY <1>t, <2>1, <2>5
    <3>2. \A j \in DOMAIN c : c[j] \in Literals /\ Value(c[j]) \in Vars /\ c[j] \in Int /\ c[j] # 0
      BY <2>2, VisitedClause
    <3>3. \A j \in DOMAIN c : j # i => decision_level[Value(c[j])] = 0
      BY <1>t, <2>3, <3>1, <3>2
    <3>4. EntailsSome(model, LitsOf(c))
      BY <2>2 DEF IInv, ClausesFollow
    <3>5. \A k \in LitsOf(c) : k # c[i] =>
             \A b \in Valuations(model) : SatisfiesModel(b, model) => ~LitTrue(b, k)
      <4>1. \A j \in DOMAIN c : c[j] # c[i] =>
               \A b \in Valuations(model) : SatisfiesModel(b, model) => ~LitTrue(b, c[j])
        BY <2>3, <3>2, <3>3, RootFalse
      <4> QED
        BY <4>1 DEF LitsOf
    <3>6. EntailsSome(model, {c[i]})
      BY <3>4, <3>5, UnitFollows
    <3>7. (IF assignment'[w] = On THEN w ELSE -w) = c[i]
      <4>1. assignment'[w] = Polarity(c[i])
        BY <1>t, <2>1, <2>5
      <4> QED
        BY <4>1, <2>5, <3>2 DEF Polarity, IsOn, Value, On, Off
    <3> QED
      BY <3>6, <3>7
  <2> QED
    BY <2>4, <2>5
<1>4. CASE MakeDecision
  <2>1. PICK i \in UnassignedVars :
            /\ assignment' = [assignment EXCEPT ![model.literals[i]] = On]
            /\ decision_level' = [decision_level EXCEPT ![model.literals[i]] = NextLevel]
    BY <1>4 DEF MakeDecision
  <2>2. NextLevel # 0
    BY <1>t DEF NextLevel
  <2>3. w # model.literals[i]
    BY <1>t, <2>1, <2>2
  <2> QED
    BY <1>1, <1>t, <2>1, <2>3
<1>5. CASE UNCHANGED columns
  BY <1>1, <1>5
<1> QED
  BY <1>2, <1>3, <1>4, <1>5, <1>t
  DEF Next, Step, CallSolve, Iterate, Restart, SkipClause, FindConflict, EndPass, StepDownTrail,
      ResolveAntecedent, ReturnUnsatisfiable, LearnAndBacktrack, LearnAdditionalClause, CheckSolution, Finished

----------------------------------------------------------------------------
(***************************************************************************)
(* Conflict analysis: the first learned clause is the conflicting one, and *)
(* each replacement is a resolution with the clause that propagated the    *)
(* variable taken from the trail.                                          *)
(***************************************************************************)
LEMMA AnalysisStep ==
    ASSUME IInv, [Next]_vars
    PROVE  AnalysisSound'
<1>1. CASE pc' # "resolve"
  BY <1>1 DEF AnalysisSound
<1>2. CASE UNCHANGED <<pc, model, columns, current_decision_level, learned, current_level_vars>>
  BY <1>2 DEF IInv, AnalysisSound, OfCurrentLevel
<1>3. CASE FindConflict
  <2> DEFINE c == clauses[scan]
  <2>1. /\ Visiting /\ IsPending(assignment, c) /\ Unassigned(assignment, c) = {}
        /\ learned' = LitsOf(c)
        /\ current_level_vars' =
              {<<Value(c[i]), i>> :
                 i \in {j \in DOMAIN c : decision_level[Value(c[j])] = current_decision_level}}
        /\ UNCHANGED <<model, columns, current_decision_level>>
    BY <1>3 DEF FindConflict
  <2>2. scan \in DOMAIN clauses
    BY <2>1, VisitedClause
  <2>3. \A i \in DOMAIN c : LitFalse(assignment, c[i])
    <3> SUFFICES ASSUME NEW i \in DOMAIN c PROVE LitFalse(assignment, c[i])
      OBVIOUS
    <3>1. c[i] \in LiteralsOver(Vars) /\ assignment \in [Vars -> Assignments]
      BY <2>1, VisitedClause DEF IInv, TypeOK, Literals
    <3>2. assignment[Value(c[i])] # NotAssigned
      BY <2>1 DEF Unassigned
    <3>3. ~LitTrue(assignment, c[i])
      BY <2>1 DEF IsPending, IsClauseSatisfied
    <3> QED
      BY <3>1, <3>2, <3>3, AssignedLiteral
  <2>4. \A l \in learned' : LitFalse(assignment', l)
    BY <2>1, <2>3 DEF LitsOf
  <2>5. EntailsSome(model', learned')
    BY <2>1, <2>2 DEF IInv, ClausesFollow
  <2>6. {p[1] : p \in current_level_vars'} =
          {Value(l) : l \in {k \in learned' : decision_level'[Value(k)] = current_decision_level'}}
    <3>1. {p[1] : p \in current_level_vars'} =
            {Value(c[i]) : i \in {j \in DOMAIN c : decision_level[Value(c[j])] = current_decision_level}}
      <4> DEFINE D == {j \in DOMAIN c : decision_level[Value(c[j])] = current_decision_level}
      <4>1. \A i \in D : \E p \in current_level_vars' : p[1] = Value(c[i])
        <5>1. \A i \in D : <<Value(c[i]), i>> \in current_level_vars'
          BY <2>1
        <5> QED
          BY <5>1
      <4>2. \A p \in current_level_vars' : \E i \in D : p[1] = Value(c[i])
        BY <2>1
      <4> HIDE DEF D, c
      <4>3. {p[1] : p \in current_level_vars'} = {Value(c[i]) : i \in D}
        BY <4>1, <4>2
      <4> QED
        BY <4>3 DEF D
    <3>2. {Value(c[i]) : i \in {j \in DOMAIN c : decision_level[Value(c[j])] = current_decision_level}} =
          {Value(l) : l \in {k \in LitsOf(c) : decision_level[Value(k)] = current_decision_level}}
      BY DEF LitsOf
    <3> QED
      BY <2>1, <3>1, <3>2
  <2> QED
    BY <2>4, <2>5, <2>6 DEF AnalysisSound, OfCurrentLevel
<1>4. CASE ResolveAntecedent
  <2>1. /\ Resolving /\ HasAntecedent
        /\ learned' = Kept \cup Added
        /\ current_level_vars' =
             {p \in current_level_vars : p[1] # TrailVar}
               \cup {<<Value(l), 0>> : l \in OfCurrentLevel(Added)}
        /\ UNCHANGED <<model, columns, current_decision_level>>
    BY <1>4 DEF ResolveAntecedent
  <2>2. /\ \A l \in learned : LitFalse(assignment, l)
        /\ EntailsSome(model, learned)
        /\ {p[1] : p \in current_level_vars} = {Value(l) : l \in OfCurrentLevel(learned)}
        /\ learned \subseteq Literals
    BY <2>1 DEF IInv, TypeOK, AnalysisSound, Resolving
  <2>3. TrailVar \in Vars
    <3>1. trail_index \in Nat /\ trail_index < Len(trail) /\ trail \in Seq(Vars)
      BY <2>1 DEF IInv, TypeOK, Resolving
    <3>2. trail_index + 1 \in 1..Len(trail)
      BY <3>1
    <3> QED
      BY <3>1, <3>2 DEF TrailVar
  <2> DEFINE c == clauses[clause_propagation[TrailVar]]
  <2>4. clause_propagation[TrailVar] \in DOMAIN clauses /\ Explains(TrailVar, c)
    BY <2>1, <2>3, Reason DEF HasAntecedent
  <2>5. \A i \in DOMAIN c : c[i] \in Literals /\ c[i] \in Int
    BY <2>4, DatabaseClause
  <2>6. LitsOf(c) \subseteq Literals /\ EntailsSome(model, LitsOf(c))
    BY <2>4, <2>5 DEF LitsOf, IInv, ClausesFollow
  <2>7. \A r \in LitsOf(c) : IF Value(r) = TrailVar THEN LitTrue(assignment, r)
                                                    ELSE LitFalse(assignment, r)
    BY <2>4 DEF LitsOf, Explains
  <2>8. Literals \subseteq Int
    BY DEF Literals, LiteralsOver
  <2>9. \A l \in learned' : LitFalse(assignment', l)
    BY <2>1, <2>2, <2>7 DEF Kept, Added
  <2>10. ASSUME NEW r \in LitsOf(c), Value(r) # TrailVar
         PROVE  r \in Kept \cup Added
    <3>1. CASE \A k \in Kept : Value(k) # Value(r)
      BY <2>10, <3>1 DEF Added
    <3>2. CASE \E k \in Kept : Value(k) = Value(r)
      <4>1. PICK k \in Kept : Value(k) = Value(r)
        BY <3>2
      <4>2. LitFalse(assignment, k) /\ LitFalse(assignment, r) /\ k \in Int /\ r \in Int
        BY <2>2, <2>6, <2>7, <2>8, <2>10, <4>1 DEF Kept
      <4>3. k = r
        BY <4>1, <4>2, FalseLiteralUnique
      <4> QED
        BY <4>1, <4>3
    <3> QED
      BY <3>1, <3>2
  <2>11. EntailsSome(model, Kept \cup Added)
    <3> DEFINE R == LitsOf(c)
               T == Kept \cup Added
    <3>1. \A l \in learned : Value(l) # TrailVar => l \in T
      BY DEF Kept
    <3>2. learned \in SUBSET Int /\ R \in SUBSET Int
      BY <2>2, <2>6, <2>8
    <3>3. \A r \in R : Value(r) = TrailVar => LitTrue(assignment, r)
      BY <2>7
    <3>4. \A r \in R : Value(r) # TrailVar => r \in T
      BY <2>10
    <3>5. EntailsSome(model, R) /\ EntailsSome(model, learned)
      BY <2>2, <2>6
    <3>6. \A l \in learned : LitFalse(assignment, l)
      BY <2>2
    <3> HIDE DEF R, T
    <3>7. ASSUME NEW b \in Valuations(model), SatisfiesModel(b, model)
          PROVE  \E l \in T : LitTrue(b, l)
      <4>1. PICK l \in learned : LitTrue(b, l)
        BY <3>5, <3>7 DEF EntailsSome
      <4>2. PICK r \in R : LitTrue(b, r)
        BY <3>5, <3>7 DEF EntailsSome
      <4>3. CASE Value(l) # TrailVar
        BY <3>1, <4>1, <4>3
      <4>4. CASE Value(r) # TrailVar
        BY <3>4, <4>2, <4>4
      <4>5. CASE Value(l) = TrailVar /\ Value(r) = TrailVar
        <5>1. /\ LitFalse(assignment, l) /\ LitTrue(assignment, r)
              /\ l \in Int /\ r \in Int /\ Value(l) = Value(r)
          BY <3>2, <3>3, <3>6, <4>5
        <5> QED
          BY <4>1, <4>2, <5>1, OppositeLiterals
      <4> QED
        BY <4>3, <4>4, <4>5
    <3> QED
      BY <3>7 DEF EntailsSome, T
  <2>12. {p[1] : p \in current_level_vars'} =
          {Value(l) : l \in {k \in learned' : decision_level[Value(k)] = current_decision_level}}
    <3>1. {p[1] : p \in {q \in current_level_vars : q[1] # TrailVar}} =
            {Value(l) : l \in {k \in Kept : decision_level[Value(k)] = current_decision_level}}
      <4>1. \A x : (\E p \in current_level_vars : p[1] = x)
                     <=> (\E l \in learned : x = Value(l)
                              /\ decision_level[Value(l)] = current_decision_level)
        BY <2>2 DEF OfCurrentLevel
      <4> QED
        BY <4>1 DEF Kept
    <3>2. {p[1] : p \in {<<Value(l), 0>> : l \in OfCurrentLevel(Added)}} =
            {Value(l) : l \in {k \in Added : decision_level[Value(k)] = current_decision_level}}
      <4> DEFINE D == {k \in Added : decision_level[Value(k)] = current_decision_level}
                 P == {<<Value(l), 0>> : l \in D}
      <4>1. \A l \in D : <<Value(l), 0>> \in P /\ <<Value(l), 0>>[1] = Value(l)
        OBVIOUS
      <4>2. \A p \in P : \E l \in D : p[1] = Value(l)
        OBVIOUS
      <4> HIDE DEF D, P
      <4>3. {p[1] : p \in P} = {Value(l) : l \in D}
        BY <4>1, <4>2
      <4> QED
        BY <4>3 DEF D, P, OfCurrentLevel
    <3> QED
      BY <2>1, <3>1, <3>2
  <2> QED
    BY <2>1, <2>9, <2>11, <2>12 DEF AnalysisSound, OfCurrentLevel
<1> QED
  BY <1>1, <1>2, <1>3, <1>4
  DEF Next, Step, CallSolve, Iterate, Restart, StartPropagation, SkipClause, Visiting,
      PropagateUnit, EndPass, StepDownTrail, ReturnUnsatisfiable, LearnAndBacktrack, LearnAdditionalClause,
      MakeDecision, CheckSolution, Finished

----------------------------------------------------------------------------
(***************************************************************************)
(* solve_sat reports "unsatisfiable" on a refutation.                      *)
(***************************************************************************)
LEMMA RefutationSound ==
    ASSUME IInv, ReturnUnsatisfiable
    PROVE  ~Satisfiable(model)
<1>1. /\ pc = "resolve" /\ IsRefuted
      /\ EntailsSome(model, learned) /\ learned \subseteq Literals
      /\ \A l \in learned : LitFalse(assignment, l)
  BY DEF ReturnUnsatisfiable, Resolved, IInv, AnalysisSound, TypeOK
<1>2. CASE learned = {}
  BY <1>1, <1>2, Refutation
<1>3. CASE current_decision_level = 0
  <2>1. ASSUME NEW l \in learned PROVE decision_level[Value(l)] = 0
    <3>1. Value(l) \in Vars
      BY <1>1 DEF Literals, LiteralsOver
    <3>2. IsAssigned(Value(l))
      BY <1>1 DEF LitFalse, IsAssigned, On, Off, NotAssigned
    <3> QED
      BY <1>3, <3>1, <3>2 DEF IInv, TypeOK, TrailSound
  <2>2. \A l \in learned :
            \A b \in Valuations(model) : SatisfiesModel(b, model) => ~LitTrue(b, l)
    BY <1>1, <2>1, RootFalse
  <2> QED
    BY <1>1, <2>2, Refutation
<1> QED
  BY <1>1, <1>2, <1>3 DEF IsRefuted

(***************************************************************************)
(* The assignment that solve_sat returns satisfies the model, and so does  *)
(* the list of literals made of it.                                        *)
(***************************************************************************)
LEMMA SolutionSound ==
    ASSUME IInv, CheckSolution, IsSatSolved
    PROVE  /\ assignment \in Valuations(model)
           /\ SatisfiesModel(assignment, model)
           /\ IsSolution(model, Solution)
<1>1. /\ assignment \in [Vars -> Assignments] /\ WellFormedModel(model)
      /\ UnassignedVars = {}
  BY DEF IInv, TypeOK, CheckSolution
<1>2. \A i \in DOMAIN model.literals :
          /\ model.literals[i] \in Vars
          /\ assignment[model.literals[i]] \in {On, Off}
  BY <1>1 DEF UnassignedVars, Vars, VarsOf, Assignments
<1>3. \A v \in Vars : assignment[v] \in {On, Off}
  BY <1>2 DEF Vars, VarsOf
<1>4. assignment \in Valuations(model)
  BY <1>1, <1>3 DEF Valuations, Vars
<1>5. \A k \in DOMAIN model.clauses : k \in DOMAIN clauses /\ clauses[k] = model.clauses[k]
  BY <1>1 DEF IInv, TypeOK, KeepsModel, WellFormedModel
<1>6. SatisfiesModel(assignment, model)
  BY <1>5 DEF SatisfiesModel, IsSatSolved
<1>7. \A i \in DOMAIN model.literals : model.literals[i] \in Nat \ {0}
  BY <1>1 DEF WellFormedModel
<1>8. /\ DOMAIN Solution = DOMAIN model.literals
      /\ \A i \in DOMAIN Solution : Value(Solution[i]) = model.literals[i]
  BY <1>7 DEF Solution, SolutionOf, Value
<1>9. ASSUME NEW k \in DOMAIN model.clauses
      PROVE  \E i \in DOMAIN Solution : Solution[i] \in LitsOf(model.clauses[k])
  <2>1. PICK j \in DOMAIN model.clauses[k] : LitTrue(assignment, model.clauses[k][j])
    BY <1>6 DEF SatisfiesModel, IsClauseSatisfied
  <2> DEFINE l == model.clauses[k][j]
  <2>2. l \in Int /\ l # 0 /\ Value(l) \in Vars
    <3>1. k \in DOMAIN clauses /\ l = clauses[k][j] /\ j \in DOMAIN clauses[k]
      BY <1>5, <2>1
    <3> QED
      BY <3>1, DatabaseClause
  <2>3. PICK i \in DOMAIN model.literals : model.literals[i] = Value(l)
    BY <2>2 DEF Vars, VarsOf
  <2>4. Solution[i] = l
    <3>1. Solution[i] = IF assignment[Value(l)] = On THEN Value(l) ELSE -Value(l)
      BY <2>3 DEF Solution, SolutionOf
    <3> QED
      BY <2>1, <2>2, <3>1 DEF LitTrue, IsOn, IsOff, Value, On, Off
  <2> QED
    BY <2>1, <2>3, <2>4, <1>8 DEF LitsOf
<1> QED
  BY <1>4, <1>6, <1>8, <1>9 DEF IsSolution

LEMMA VerdictStep ==
    ASSUME IInv, [Next]_vars
    PROVE  SolutionsSatisfy' /\ RefutationsCorrect'
<1>0. model' = model
  BY ModelConstant
<1>1. CASE UNCHANGED <<model, results, error>>
  BY <1>1 DEF IInv, SolutionsSatisfy, RefutationsCorrect
<1>2. CASE CallSolve
  BY <1>2 DEF CallSolve, SolutionsSatisfy, RefutationsCorrect
<1>3. CASE ReturnUnsatisfiable
  <2>1. results' = results
    BY <1>3 DEF ReturnUnsatisfiable
  <2> QED
    BY <1>0, <1>3, <2>1, RefutationSound DEF IInv, SolutionsSatisfy, RefutationsCorrect
<1>4. CASE CheckSolution
  <2>1. error' = error
    BY <1>4 DEF CheckSolution
  <2>2. CASE ~(IsSatSolved /\ model.literals # << >>)
    <3>1. results' = results
      BY <1>4, <2>2 DEF CheckSolution
    <3> QED
      BY <1>0, <2>1, <3>1 DEF IInv, SolutionsSatisfy, RefutationsCorrect
  <2>3. CASE IsSatSolved /\ model.literals # << >>
    <3>1. IsSolution(model, Solution) /\ Solution \in Seq(Int)
      BY <1>4, <2>3, SolutionSound, SolutionType
    <3>2. results \in Seq(Seq(Int))
      BY DEF IInv, TypeOK
    <3>3. results' = Append(results, Solution)
      BY <1>4, <2>3 DEF CheckSolution
    <3>4. PICK s : s = Solution
      OBVIOUS
    <3>5. s \in Seq(Int) /\ IsSolution(model, s) /\ results' = Append(results, s)
      BY <3>1, <3>3, <3>4
    <3>6. \A r \in DOMAIN Append(results, s) :
              \/ Append(results, s)[r] = s
              \/ r \in DOMAIN results /\ Append(results, s)[r] = results[r]
      BY <3>2, <3>5, AppendElements
    <3> QED
      BY <1>0, <2>1, <3>5, <3>6 DEF IInv, SolutionsSatisfy, RefutationsCorrect
  <2> QED
    BY <2>2, <2>3
<1> QED
  BY <1>1, <1>2, <1>3, <1>4
  DEF Next, Step, Iterate, Restart, SkipClause, PropagateUnit, FindConflict, EndPass,
      StepDownTrail, ResolveAntecedent, LearnAndBacktrack, LearnAdditionalClause, MakeDecision, Finished

----------------------------------------------------------------------------
(***************************************************************************)
(* The context that solver_context's constructor leaves.                   *)
(***************************************************************************)
LEMMA InitType == Init => TypeOK
<1> SUFFICES ASSUME Init PROVE TypeOK
  OBVIOUS
<1>1. WellFormedModel(model)
  BY ModelsAssumption DEF Init
<1>2. /\ model.clauses \in Seq(Seq(LiteralsOver(Vars)))
      /\ clauses = model.clauses
      /\ DOMAIN model.clauses = 1..Len(model.clauses) /\ Len(model.clauses) \in Nat
  BY <1>1 DEF Init, WellFormedModel, Vars
<1>3. /\ watchers \in Seq((Vars \cup {NoWatch}) \X (Vars \cup {NoWatch}))
      /\ Len(watchers) = Len(clauses)
  <2>1. \A k \in DOMAIN model.clauses : model.clauses[k] \in Seq(LiteralsOver(Vars))
    BY <1>2
  <2>2. \A k \in DOMAIN model.clauses :
           WatcherOf(assignment, model.clauses[k])
              \in (Vars \cup {NoWatch}) \X (Vars \cup {NoWatch})
    BY <2>1, WatcherType
  <2>3. watchers = [k \in 1..Len(model.clauses) |-> WatcherOf(assignment, model.clauses[k])]
    BY <1>2 DEF Init
  <2>4. PICK W : W = (Vars \cup {NoWatch}) \X (Vars \cup {NoWatch})
    OBVIOUS
  <2>5. \A k \in 1..Len(model.clauses) : WatcherOf(assignment, model.clauses[k]) \in W
    BY <1>2, <2>2, <2>4
  <2>6. watchers \in [1..Len(model.clauses) -> W]
    BY <2>3, <2>5
  <2>7. PICK n \in Nat : n = Len(model.clauses)
    BY <1>2
  <2>8. watchers \in [1..n -> W]
    BY <2>6, <2>7
  <2>9. watchers \in Seq(W) /\ Len(watchers) = n
    BY ONLY <2>8, n \in Nat
  <2> QED
    BY <1>2, <2>4, <2>7, <2>9
<1>4. vsids_activity \in [Vars -> Int]
  <2>1. \A v \in Vars : Cardinality(Occurrences(model, v)) \in Nat
    BY <1>1, OccurrencesFinite
  <2> QED
    BY <2>1 DEF Init
<1>5. /\ assignment \in [Vars -> Assignments]
      /\ decision_level \in [Vars -> Nat]
      /\ clause_propagation \in [Vars -> 0..Len(clauses)]
  BY <1>2 DEF Init, Assignments, NoClause
<1>6. /\ pc \in PcValues /\ calls \in Nat /\ expected \in Int
      /\ results \in Seq(Seq(Int)) /\ error \in {"none", "unsatisfiable"}
      /\ trail \in Seq(Vars) /\ current_decision_level \in Nat
      /\ conflict_count_since_last_restart \in Nat /\ restart_threshold \in Nat
      /\ scan \in Nat \ {0} /\ propagated \in Nat
      /\ learned \subseteq Literals /\ current_level_vars \subseteq Vars \X Nat
      /\ backtrack_level \in Nat /\ trail_index \in Nat
      /\ pc # "resolve"
  BY ConfigurationAssumption DEF Init, PcValues
<1>7. statistics \in [Counters -> Nat]
  BY DEF Init, Counters
<1> QED
  BY <1>1, <1>2, <1>3, <1>4, <1>5, <1>6, <1>7 DEF TypeOK, Literals

LEMMA InitInv == Init => IInv
<1> SUFFICES ASSUME Init PROVE IInv
  OBVIOUS
<1>1. TypeOK
  BY InitType
<1>2. /\ \A v \in Vars : ~IsAssigned(v) /\ IsDecision(v)
      /\ DOMAIN trail = {} /\ DOMAIN results = {}
      /\ clauses = model.clauses /\ pc = "idle" /\ error = "none"
  BY DEF Init, IsAssigned, IsDecision
<1>3. TrailSound /\ ReasonsSound /\ RootLevelFollows /\ AnalysisSound
  BY <1>2 DEF TrailSound, ReasonsSound, RootLevelFollows, AnalysisSound
<1>4. NoEmptyClause /\ KeepsModel
  BY <1>1, <1>2 DEF TypeOK, WellFormedModel, NoEmptyClause, KeepsModel
<1>5. ClausesFollow
  BY <1>2, ModelClauseFollows DEF ClausesFollow
<1>6. SolutionsSatisfy /\ RefutationsCorrect
  BY <1>2 DEF SolutionsSatisfy, RefutationsCorrect
<1> QED
  BY <1>1, <1>3, <1>4, <1>5, <1>6 DEF IInv

LEMMA NextInv == IInv /\ [Next]_vars => IInv'
BY TypeStep, TrailStep, ReasonsStep, DatabaseStep, RootStep, AnalysisStep, VerdictStep
DEF IInv

LEMMA Inductive == Spec => []IInv
BY InitInv, NextInv, PTL DEF Spec

----------------------------------------------------------------------------
(***************************************************************************)
(* Every id and index that the solver stores names a slot that exists, in  *)
(* every state of a search over any model and configuration; among them    *)
(* the unsigned trail_index of resolve_conflict, which never wraps.        *)
(***************************************************************************)
THEOREM TypeCorrect == Spec => []TypeOK
<1>1. IInv => TypeOK
  BY DEF IInv
<1> QED
  BY <1>1, Inductive, PTL

(***************************************************************************)
(* The trail lists the assigned variables in the order of their levels,    *)
(* which backtrack relies on.                                              *)
(***************************************************************************)
THEOREM TrailCorrect == Spec => []TrailSound
<1>1. IInv => TrailSound
  BY DEF IInv
<1> QED
  BY <1>1, Inductive, PTL

(***************************************************************************)
(* The clause stored with a propagated variable explains its value, at its *)
(* level, for as long as the variable is assigned.                         *)
(***************************************************************************)
THEOREM ReasonsCorrect == Spec => []ReasonsSound
<1>1. IInv => ReasonsSound
  BY DEF IInv
<1> QED
  BY <1>1, Inductive, PTL

(***************************************************************************)
(* Every clause that resolve_conflict learns follows from the model.       *)
(***************************************************************************)
THEOREM LearningSound == Spec => []ClausesFollow
<1>1. IInv => ClausesFollow
  BY DEF IInv
<1> QED
  BY <1>1, Inductive, PTL

(***************************************************************************)
(* What is assigned at level 0, by propagation or left by a restart,       *)
(* follows from the model.                                                 *)
(***************************************************************************)
THEOREM RootLevelSound == Spec => []RootLevelFollows
<1>1. IInv => RootLevelFollows
  BY DEF IInv
<1> QED
  BY <1>1, Inductive, PTL

(***************************************************************************)
(* The clause that resolve_conflict derives is false under the trail and   *)
(* follows from the model at every turn of its loop.                       *)
(***************************************************************************)
THEOREM AnalysisCorrect == Spec => []AnalysisSound
<1>1. IInv => AnalysisSound
  BY DEF IInv
<1> QED
  BY <1>1, Inductive, PTL

(***************************************************************************)
(* Every list of literals that solve returns is a solution of the model.   *)
(***************************************************************************)
THEOREM SolutionsCorrect == Spec => []SolutionsSatisfy
<1>1. IInv => SolutionsSatisfy
  BY DEF IInv
<1> QED
  BY <1>1, Inductive, PTL

(***************************************************************************)
(* solve reports "unsatisfiable" only for a model that has no solution,    *)
(* whatever earlier calls learned and left assigned.                       *)
(***************************************************************************)
THEOREM RefutationsSound == Spec => []RefutationsCorrect
<1>1. IInv => RefutationsCorrect
  BY DEF IInv
<1> QED
  BY <1>1, Inductive, PTL

----------------------------------------------------------------------------
(***************************************************************************)
(* Refinement: a step of the solver is a step of SatSpec or leaves what    *)
(* the caller sees as it is.                                               *)
(***************************************************************************)
LEMMA InitPromise == Init => Promise!Init
BY DEF Init, Promise!Init

LEMMA StepPromise ==
    ASSUME IInv, [Next]_vars
    PROVE  [Promise!Next]_(Promise!vars)
<1>0. model' = model
  BY ModelConstant
<1>1. CASE UNCHANGED <<expected, results, error>> /\ pc # "idle" /\ pc' # "idle"
  BY <1>0, <1>1 DEF Promise!vars
<1>2. CASE CallSolve
  <2>1. /\ pc = "idle" /\ expected' \in ExpectedCounts
        /\ pc' = IF 0 < expected' THEN "loop" ELSE "idle"
        /\ results' = << >> /\ error' = "none"
    BY <1>2 DEF CallSolve
  <2>2. (pc' # "idle") = (0 < expected')
    BY <2>1
  <2> QED
    BY <1>0, <2>1, <2>2 DEF Promise!Next, Promise!Call
<1>3. CASE ReturnUnsatisfiable
  <2>1. /\ pc = "resolve" /\ pc' = "idle" /\ error' = "unsatisfiable"
        /\ UNCHANGED <<expected, results>>
    BY <1>3 DEF ReturnUnsatisfiable, Resolved
  <2>2. ~Promise!Satisfiable(model)
    BY <1>3, RefutationSound
    DEF Satisfiable, Valuations, VarsOf, SatisfiesModel, IsClauseSatisfied, LitTrue, IsOn,
        IsOff, Value, On, Off, Promise!Satisfiable, Promise!Valuations, Promise!VarsOf,
        Promise!SatisfiesModel, Promise!IsClauseSatisfied, Promise!LitTrue, Promise!IsOn,
        Promise!IsOff, Promise!Value, Promise!On, Promise!Off
  <2> QED
    BY <1>0, <2>1, <2>2 DEF Promise!Next, Promise!Refuse
<1>4. CASE CheckSolution
  <2>1. CASE ~(IsSatSolved /\ model.literals # << >>)
    BY <1>0, <1>4, <2>1 DEF CheckSolution, Promise!vars
  <2>2. CASE IsSatSolved /\ model.literals # << >>
    <3>1. /\ pc = "decide" /\ results' = Append(results, SolutionOf(model, assignment))
          /\ pc' = IF Len(results) + 1 < expected THEN "loop" ELSE "idle"
          /\ UNCHANGED <<expected, error>>
      BY <1>4, <2>2 DEF CheckSolution, Solution
    <3>2. assignment \in Valuations(model) /\ SatisfiesModel(assignment, model)
      BY <1>4, <2>2, SolutionSound
    <3>3. (pc' # "idle") = (Len(results) + 1 < expected)
      BY <3>1
    <3>4. /\ assignment \in Promise!Valuations(model)
          /\ Promise!SatisfiesModel(assignment, model)
      BY <3>2
      DEF Valuations, VarsOf, SatisfiesModel, IsClauseSatisfied, LitTrue, IsOn,
          IsOff, Value, On, Off, Promise!Valuations, Promise!VarsOf,
          Promise!SatisfiesModel, Promise!IsClauseSatisfied, Promise!LitTrue, Promise!IsOn,
          Promise!IsOff, Promise!Value, Promise!On, Promise!Off
    <3>5. SolutionOf(model, assignment) = Promise!SolutionOf(model, assignment)
      BY DEF SolutionOf, Promise!SolutionOf, On, Promise!On
    <3> QED
      BY <1>0, <3>1, <3>3, <3>4, <3>5 DEF Promise!Next, Promise!Answer
  <2> QED
    BY <2>1, <2>2
<1>5. CASE UNCHANGED vars
  BY <1>5 DEF vars, api, Promise!vars
<1> QED
  BY <1>1, <1>2, <1>3, <1>4, <1>5
  DEF Next, Step, Iterate, Restart, StartPropagation, SkipClause, Visiting, PropagateUnit,
      FindConflict, EndPass, StepDownTrail, Resolving, ResolveAntecedent, LearnAndBacktrack, LearnAdditionalClause,
      Resolved, MakeDecision, Finished, api

(***************************************************************************)
(* The solver implements SatSpec, under the mapping that reads a call as   *)
(* under way unless the solver is idle.                                    *)
(***************************************************************************)
THEOREM Implements == Spec => KeepsPromise
<1>1. IInv /\ [Next]_vars => [Promise!Next]_(Promise!vars)
  BY StepPromise
<1> QED
  BY <1>1, Inductive, InitPromise, PTL DEF Spec, KeepsPromise, Promise!Spec

----------------------------------------------------------------------------
(***************************************************************************)
(* The search goes forward.  Its decision levels are never out of step     *)
(* with the trail; unit propagation is complete at every level but the one *)
(* under way; so conflict analysis ends on a unique implication point and  *)
(* never learns a clause that the solver has.                              *)
(*                                                                         *)
(* LevelsInv adds to the invariant above that the level that               *)
(* resolve_conflict will return to is 0 or one of the trail: backtrack     *)
(* takes whatever level it is given as the current one.  PropagationInv    *)
(* adds to LevelsInv what the passes of unit_propagation have established, *)
(* that a variable was propagated after the other variables of its clause, *)
(* and how far resolve_conflict has come down the trail.                   *)
(***************************************************************************)
BacktrackLevelOpen ==
    pc = "resolve" =>
        \/ backtrack_level = 0
        \/ \E i \in DOMAIN trail : decision_level[trail[i]] = backtrack_level

LevelsInv == IInv /\ DecisionsOpenLevels /\ BacktrackLevelOpen

\* DecisionsOpenLevels with its definitions expanded, in the next state.
LEMMA NextLevels ==
    ASSUME \A i \in DOMAIN trail' :
              decision_level'[trail'[i]] =
                  IF clause_propagation'[trail'[i]] = NoClause
                  THEN (IF i = 1 THEN 0 ELSE decision_level'[trail'[i - 1]]) + 1
                  ELSE (IF i = 1 THEN 0 ELSE decision_level'[trail'[i - 1]]),
           current_decision_level' =
              IF Len(trail') + 1 = 1 THEN 0 ELSE decision_level'[trail'[Len(trail') + 1 - 1]]
    PROVE  DecisionsOpenLevels'
BY DEF DecisionsOpenLevels, LevelBelow, IsDecision

----------------------------------------------------------------------------
(***************************************************************************)
(* Backtracking to a level that exists leaves the levels in step.          *)
(***************************************************************************)
LEMMA BacktrackLevels ==
    ASSUME IInv, DecisionsOpenLevels, NEW level \in Nat, Backtrack(level), model' = model,
           level = 0 \/ \E i \in DOMAIN trail : decision_level[trail[i]] = level
    PROVE  DecisionsOpenLevels'
<1> DEFINE n == Len(trail')
<1>1. /\ trail \in Seq(Vars) /\ decision_level \in [Vars -> Nat]
      /\ DOMAIN trail = 1..Len(trail) /\ Len(trail) \in Nat
      /\ \A i \in DOMAIN trail : trail[i] \in Vars
  <2>1. trail \in Seq(Vars) /\ decision_level \in [Vars -> Nat]
    BY DEF IInv, TypeOK
  <2> QED
    BY <2>1
<1>2. /\ trail' \in Seq(Vars) /\ n \in Nat /\ DOMAIN trail' = 1..n
      /\ \A i \in 1..n : i \in DOMAIN trail /\ trail'[i] = trail[i] /\ trail[i] \in Vars
      /\ \A v \in Vars : (\E i \in 1..n : trail'[i] = v)
                            <=> IsAssigned(v) /\ decision_level[v] <= level
      /\ clause_propagation' = [v \in Vars |-> IF IsAssigned(v) /\ level < decision_level[v]
                                               THEN NoClause ELSE clause_propagation[v]]
      /\ decision_level' = decision_level
      /\ current_decision_level' = level
  <2>1. trail' \in Seq(Vars) /\ n \in Nat /\ DOMAIN trail' = 1..n
    BY BacktrackEffect
  <2>2. \A i \in 1..n : i \in DOMAIN trail /\ trail'[i] = trail[i] /\ trail[i] \in Vars
    BY <1>1, <2>1, BacktrackEffect
  <2> QED
    BY <2>1, <2>2, BacktrackEffect
<1> HIDE DEF n
<1>3. \A i \in 1..n : decision_level[trail[i]] <= level
  BY <1>2
<1>4. ASSUME NEW i \in 1..n
      PROVE  decision_level'[trail'[i]] =
                 IF clause_propagation'[trail'[i]] = NoClause
                 THEN (IF i = 1 THEN 0 ELSE decision_level'[trail'[i - 1]]) + 1
                 ELSE (IF i = 1 THEN 0 ELSE decision_level'[trail'[i - 1]])
  <2>1. decision_level[trail[i]] =
            IF clause_propagation[trail[i]] = NoClause
            THEN (IF i = 1 THEN 0 ELSE decision_level[trail[i - 1]]) + 1
            ELSE (IF i = 1 THEN 0 ELSE decision_level[trail[i - 1]])
    BY <1>2 DEF DecisionsOpenLevels, LevelBelow, IsDecision
  <2>2. clause_propagation'[trail'[i]] = clause_propagation[trail[i]]
    <3>1. ~(level < decision_level[trail[i]])
      BY <1>1, <1>2, <1>3
    <3> QED
      BY <1>2, <3>1
  <2>3. i # 1 => i - 1 \in 1..n
    BY <1>2
  <2> QED
    BY <1>2, <2>1, <2>2, <2>3
<1>5. level = IF n = 0 THEN 0 ELSE decision_level'[trail'[n]]
  <2>1. CASE level = 0
    BY <1>1, <1>2, <1>3, <2>1
  <2>2. CASE level # 0
    <3>1. PICK i \in DOMAIN trail : decision_level[trail[i]] = level
      BY <2>2
    <3>2. trail[i] \in Vars /\ IsAssigned(trail[i])
      BY <1>1 DEF IInv, TrailSound
    <3>3. PICK j \in 1..n : trail'[j] = trail[i]
      BY <1>2, <3>1, <3>2
    <3>4. decision_level[trail[j]] = level
      BY <1>2, <3>1, <3>3
    <3>5. n \in 1..n /\ n # 0
      BY <1>2, <3>3
    <3>6. j = n \/ decision_level[trail[j]] <= decision_level[trail[n]]
      BY <1>2, <3>5 DEF IInv, TrailSound
    <3> QED
      BY <1>1, <1>2, <1>3, <3>4, <3>5, <3>6
  <2> QED
    BY <2>1, <2>2
<1>6. level = IF n + 1 = 1 THEN 0 ELSE decision_level'[trail'[n + 1 - 1]]
  BY <1>2, <1>5
<1> QED
  BY <1>2, <1>4, <1>6, NextLevels DEF n

(***************************************************************************)
(* Assigning a variable: at the next level if it is a decision, at the     *)
(* current one if it is propagated.                                        *)
(***************************************************************************)
LEMMA AssignLevels ==
    ASSUME IInv, DecisionsOpenLevels, model' = model, NEW v \in Vars, ~IsAssigned(v),
           NEW level \in Nat,
           decision_level' = [decision_level EXCEPT ![v] = level],
           trail' = Append(trail, v),
           current_decision_level' = level,
           \A w \in Vars : w # v => clause_propagation'[w] = clause_propagation[w],
           level = IF clause_propagation'[v] = NoClause
                   THEN current_decision_level + 1 ELSE current_decision_level
    PROVE  DecisionsOpenLevels'
<1>1. /\ trail \in Seq(Vars) /\ decision_level \in [Vars -> Nat]
      /\ DOMAIN trail = 1..Len(trail) /\ Len(trail) \in Nat
  BY DEF IInv, TypeOK
<1>2. /\ Len(trail') = Len(trail) + 1 /\ DOMAIN trail' = 1..(Len(trail) + 1)
      /\ trail'[Len(trail) + 1] = v
      /\ \A i \in 1..Len(trail) : trail'[i] = trail[i] /\ trail[i] \in Vars
  BY <1>1
<1>3. \A i \in 1..Len(trail) : trail[i] # v
  BY <1>1, <1>2 DEF IInv, TrailSound
<1>4. /\ decision_level'[v] = level
      /\ \A i \in 1..Len(trail) :
            /\ decision_level'[trail'[i]] = decision_level[trail[i]]
            /\ clause_propagation'[trail'[i]] = clause_propagation[trail[i]]
  BY <1>1, <1>2, <1>3
<1>5. current_decision_level =
          IF Len(trail) + 1 = 1 THEN 0 ELSE decision_level[trail[Len(trail)]]
  BY <1>1 DEF DecisionsOpenLevels, LevelBelow
<1>6. ASSUME NEW i \in 1..(Len(trail) + 1)
      PROVE  decision_level'[trail'[i]] =
                 IF clause_propagation'[trail'[i]] = NoClause
                 THEN (IF i = 1 THEN 0 ELSE decision_level'[trail'[i - 1]]) + 1
                 ELSE (IF i = 1 THEN 0 ELSE decision_level'[trail'[i - 1]])
  <2>1. i # 1 => i - 1 \in 1..Len(trail)
    BY <1>1
  <2>2. CASE i = Len(trail) + 1
    <3>1. (IF i = 1 THEN 0 ELSE decision_level'[trail'[i - 1]]) = current_decision_level
      <4>1. CASE i = 1
        BY <1>5, <2>2, <4>1
      <4>2. CASE i # 1
        <5>1. i - 1 = Len(trail) /\ Len(trail) \in 1..Len(trail)
          BY <1>1, <2>1, <2>2, <4>2
        <5>2. decision_level'[trail'[i - 1]] = decision_level[trail[Len(trail)]]
          BY <1>4, <5>1
        <5>3. current_decision_level = decision_level[trail[Len(trail)]]
          BY <1>5, <2>2, <4>2
        <5> QED
          BY <4>2, <5>2, <5>3
      <4> QED
        BY <4>1, <4>2
    <3>2. trail'[i] = v /\ decision_level'[v] = level
      BY <1>2, <1>4, <2>2
    <3>3. level = IF clause_propagation'[v] = NoClause
                  THEN current_decision_level + 1 ELSE current_decision_level
      OBVIOUS
    <3>4. current_decision_level \in Nat
      BY DEF IInv, TypeOK
    <3> QED
      BY <3>1, <3>2, <3>3, <3>4
  <2>3. CASE i # Len(trail) + 1
    <3>1. i \in 1..Len(trail)
      BY <1>1, <2>3
    <3>2. decision_level[trail[i]] =
              IF clause_propagation[trail[i]] = NoClause
              THEN (IF i = 1 THEN 0 ELSE decision_level[trail[i - 1]]) + 1
              ELSE (IF i = 1 THEN 0 ELSE decision_level[trail[i - 1]])
      BY <1>1, <3>1 DEF DecisionsOpenLevels, LevelBelow, IsDecision
    <3> QED
      BY <1>4, <2>1, <3>1, <3>2
  <2> QED
    BY <2>2, <2>3
<1>7. level = IF Len(trail') + 1 = 1 THEN 0 ELSE decision_level'[trail'[Len(trail') + 1 - 1]]
  BY <1>1, <1>2, <1>4
<1> QED
  BY <1>2, <1>6, <1>7, NextLevels

----------------------------------------------------------------------------
LEMMA LevelsStep ==
    ASSUME LevelsInv, [Next]_vars
    PROVE  DecisionsOpenLevels'
<1> USE DEF LevelsInv
<1>1. CASE UNCHANGED <<columns, trail, current_decision_level>>
  BY <1>1 DEF DecisionsOpenLevels, LevelBelow, IsDecision
<1>2. CASE Restart
  BY <1>2, BacktrackLevels DEF Restart
<1>3. CASE LearnAndBacktrack
  <2>1. backtrack_level \in Nat
    BY DEF IInv, TypeOK
  <2>2. pc = "resolve"
    BY <1>3 DEF LearnAndBacktrack, Resolved
  <2>3. backtrack_level = 0 \/ \E i \in DOMAIN trail : decision_level[trail[i]] = backtrack_level
    BY <2>2 DEF BacktrackLevelOpen
  <2>4. Backtrack(backtrack_level) /\ model' = model
    BY <1>3 DEF LearnAndBacktrack
  <2> QED
    BY <2>1, <2>3, <2>4, BacktrackLevels
<1>4. CASE PropagateUnit
  <2>1. PICK i \in DOMAIN clauses[scan] :
            LET v == Value(clauses[scan][i])
            IN  /\ Unassigned(assignment, clauses[scan]) = {i}
                /\ decision_level' = [decision_level EXCEPT ![v] = current_decision_level]
                /\ clause_propagation' = [clause_propagation EXCEPT ![v] = scan]
                /\ trail' = Append(trail, v)
    BY <1>4 DEF PropagateUnit
  <2> DEFINE v == Value(clauses[scan][i])
  <2>2. v \in Vars /\ scan \in DOMAIN clauses
    BY <1>4, VisitedClause DEF PropagateUnit
  <2>3. ~IsAssigned(v)
    BY <2>1 DEF Unassigned, IsAssigned
  <2>4. /\ current_decision_level \in Nat
        /\ current_decision_level' = current_decision_level
        /\ model' = model
    BY <1>4 DEF PropagateUnit, IInv, TypeOK
  <2>5. /\ decision_level' = [decision_level EXCEPT ![v] = current_decision_level]
        /\ clause_propagation' = [clause_propagation EXCEPT ![v] = scan]
        /\ trail' = Append(trail, v)
    BY <2>1
  <2>6. clause_propagation \in [Vars -> 0..Len(clauses)] /\ scan # NoClause
    BY <2>2 DEF IInv, TypeOK, NoClause
  <2> HIDE DEF v
  <2>7. /\ clause_propagation'[v] # NoClause
        /\ \A w \in Vars : w # v => clause_propagation'[w] = clause_propagation[w]
    BY <2>2, <2>5, <2>6
  <2> QED
    BY <2>2, <2>3, <2>4, <2>5, <2>7, AssignLevels
<1>5. CASE MakeDecision
  <2>1. PICK i \in UnassignedVars :
            LET v == model.literals[i]
            IN  /\ decision_level' = [decision_level EXCEPT ![v] = NextLevel]
                /\ trail' = Append(trail, v)
    BY <1>5 DEF MakeDecision
  <2> DEFINE v == model.literals[i]
  <2>2. v \in Vars /\ ~IsAssigned(v)
    BY <2>1 DEF UnassignedVars, Vars, VarsOf, IsAssigned
  <2>3. /\ current_decision_level' = NextLevel /\ model' = model
        /\ clause_propagation' = clause_propagation
        /\ NextLevel \in Nat /\ NextLevel = current_decision_level + 1
    BY <1>5 DEF MakeDecision, IInv, TypeOK, NextLevel
  <2>4. clause_propagation'[v] = NoClause
    BY <2>2, <2>3 DEF IInv, ReasonsSound, IsDecision
  <2> HIDE DEF v
  <2> QED
    BY <2>1, <2>2, <2>3, <2>4, AssignLevels DEF v
<1> QED
  BY <1>1, <1>2, <1>3, <1>4, <1>5
  DEF Next, Step, CallSolve, Iterate, SkipClause, FindConflict, EndPass, StepDownTrail,
      ResolveAntecedent, ReturnUnsatisfiable, CheckSolution, Finished

(***************************************************************************)
(* resolve_conflict raises the level to return to only to that of a false  *)
(* literal, whose variable is on the trail.                                *)
(***************************************************************************)
LEMMA BacktrackLevelStep ==
    ASSUME LevelsInv, [Next]_vars
    PROVE  BacktrackLevelOpen'
<1> USE DEF LevelsInv
<1>1. CASE pc' # "resolve"
  BY <1>1 DEF BacktrackLevelOpen
<1>2. CASE FindConflict
  BY <1>2 DEF FindConflict, BacktrackLevelOpen
<1>3. CASE UNCHANGED <<pc, columns, trail, backtrack_level>>
  BY <1>3 DEF BacktrackLevelOpen
<1>4. CASE ResolveAntecedent
  <2>1. /\ pc = "resolve" /\ backtrack_level' \in ResolvedLevels
        /\ UNCHANGED <<columns, trail>>
    BY <1>4 DEF ResolveAntecedent, Resolving
  <2>2. TrailVar \in Vars /\ ~IsDecision(TrailVar)
    <3>1. trail_index \in Nat /\ trail_index < Len(trail) /\ trail \in Seq(Vars)
      BY <2>1 DEF IInv, TypeOK
    <3> QED
      BY <1>4, <3>1 DEF ResolveAntecedent, HasAntecedent, TrailVar
  <2> DEFINE c == clauses[clause_propagation[TrailVar]]
  <2>3. ASSUME NEW l \in Added
        PROVE  \E i \in DOMAIN trail : decision_level[trail[i]] = decision_level[Value(l)]
    <3>1. PICK i \in DOMAIN c : l = c[i] /\ Value(l) # TrailVar
      BY DEF Added, LitsOf
    <3>2. LitFalse(assignment, l)
      BY <2>2, <3>1 DEF IInv, ReasonsSound, Explains
    <3>3. IsAssigned(Value(l))
      BY <3>2 DEF LitFalse, IsAssigned, On, Off, NotAssigned
    <3>4. Value(l) \in Vars
      <4>1. clause_propagation[TrailVar] \in DOMAIN clauses
        BY <2>2, Reason
      <4> QED
        BY <3>1, <4>1, DatabaseClause
    <3> QED
      BY <3>3, <3>4 DEF IInv, TrailSound
  <2>4. CASE backtrack_level' = backtrack_level
    BY <2>1, <2>4 DEF BacktrackLevelOpen
  <2>5. CASE backtrack_level' # backtrack_level
    <3>1. PICK l \in Added : backtrack_level' = decision_level[Value(l)]
      BY <2>1, <2>5 DEF ResolvedLevels
    <3> QED
      BY <2>1, <2>3, <3>1 DEF BacktrackLevelOpen
  <2> QED
    BY <2>4, <2>5
<1>5. CASE UNCHANGED vars
  BY <1>3, <1>5
<1> QED
  BY <1>1, <1>2, <1>3, <1>4, <1>5
  DEF Next, Step, CallSolve, Iterate, Restart, StartPropagation, SkipClause, Visiting,
      PropagateUnit, EndPass, StepDownTrail, ReturnUnsatisfiable, LearnAndBacktrack,
      MakeDecision, CheckSolution, Finished

LEMMA LevelsInit == Init => LevelsInv
<1> SUFFICES ASSUME Init PROVE LevelsInv
  OBVIOUS
<1>1. trail = << >> /\ current_decision_level = 0 /\ pc = "idle"
  BY DEF Init
<1>2. DecisionsOpenLevels /\ BacktrackLevelOpen
  BY <1>1 DEF DecisionsOpenLevels, LevelBelow, BacktrackLevelOpen
<1> QED
  BY <1>2, InitInv DEF LevelsInv

LEMMA LevelsNext == LevelsInv /\ [Next]_vars => LevelsInv'
BY NextInv, LevelsStep, BacktrackLevelStep DEF LevelsInv

LEMMA LevelsInvInductive == Spec => []LevelsInv
BY LevelsInit, LevelsNext, PTL DEF Spec

(***************************************************************************)
(* Every level up to the current one is opened by exactly one decision,    *)
(* the first of the trail at that level, however the solver backtracks,    *)
(* restarts, or is called again with the context it left.                  *)
(***************************************************************************)
THEOREM LevelsCorrect == Spec => []DecisionsOpenLevels
<1>1. LevelsInv => DecisionsOpenLevels
  BY DEF LevelsInv
<1> QED
  BY <1>1, LevelsInvInductive, PTL

----------------------------------------------------------------------------
LowerLevelsPropagated ==
    \A k \in 0..(current_decision_level - 1), n \in DOMAIN clauses :
        ~IsPending(AtLevel(k), clauses[n])

\* A pass without a propagation has seen no pending clause so far.
PassSound ==
    /\ pc = "propagate" /\ propagated = 0 =>
          \A n \in DOMAIN clauses : n < scan => ~IsPending(assignment, clauses[n])
    /\ pc = "decide" => \A n \in DOMAIN clauses : ~IsPending(assignment, clauses[n])

PropagatedAfter(j, c) ==
    /\ \A p, q \in DOMAIN c : Value(c[p]) = trail[j] /\ Value(c[q]) = trail[j] => p = q
    /\ \A p \in DOMAIN c : Value(c[p]) # trail[j] =>
          \E i \in DOMAIN trail : i < j /\ trail[i] = Value(c[p])

ReasonsOrdered ==
    \A j \in DOMAIN trail :
        ~IsDecision(trail[j]) => PropagatedAfter(j, clauses[clause_propagation[trail[j]]])

\* The variables of the current level in S, and in the clause that is derived.
OfLevel(S) == {Value(l) : l \in OfCurrentLevel(S)}
CurrentVars == OfLevel(learned)

AnalysisOpen ==
    pc = "resolve" =>
        /\ current_decision_level > 0 => CurrentVars # {}
        /\ backtrack_level # 0 =>
              /\ backtrack_level < current_decision_level
              /\ \E l \in learned : decision_level[Value(l)] = backtrack_level
        /\ \/ \A v \in CurrentVars : \E i \in 1..(trail_index + 1) : trail[i] = v
           \/ \E v \in Vars : IsDecision(v) /\ CurrentVars = {v}

PropagationInv ==
    /\ LevelsInv
    /\ LowerLevelsPropagated
    /\ PassSound
    /\ ReasonsOrdered
    /\ AnalysisOpen

----------------------------------------------------------------------------
(***************************************************************************)
(* Assignments that agree on the variables of a clause agree on whether it *)
(* is pending.                                                             *)
(***************************************************************************)
LEMMA PendingAgrees ==
    ASSUME NEW a, NEW b, NEW c, \A i \in DOMAIN c : a[Value(c[i])] = b[Value(c[i])],
           ~IsPending(a, c)
    PROVE  ~IsPending(b, c)
<1>1. Unassigned(a, c) = Unassigned(b, c)
  BY DEF Unassigned
<1>2. IsClauseSatisfied(a, c) => IsClauseSatisfied(b, c)
  BY DEF IsClauseSatisfied, LitTrue
<1> QED
  BY <1>1, <1>2 DEF IsPending

\* Every assigned variable is at the current level or below.
LEMMA TopLevel ==
    ASSUME IInv
    PROVE  \A v \in Vars : AtLevel(current_decision_level)[v] = assignment[v]
<1>1. \A v \in Vars : assignment[v] # NotAssigned => decision_level[v] <= current_decision_level
  BY DEF IInv, TrailSound, IsAssigned
<1> QED
  BY <1>1 DEF AtLevel

(***************************************************************************)
(* A clause whose literals are all false, but for the literals of one      *)
(* variable of the current level, and that is not pending below that level *)
(* has two positions at the level.                                         *)
(***************************************************************************)
LEMMA TwoPositions ==
    ASSUME IInv, LowerLevelsPropagated, current_decision_level > 0,
           NEW n \in DOMAIN clauses,
           \A i \in DOMAIN clauses[n] :
              \/ LitFalse(assignment, clauses[n][i])
              \/ /\ decision_level[Value(clauses[n][i])] = current_decision_level
                 /\ IsAssigned(Value(clauses[n][i]))
    PROVE  \E p, q \in DOMAIN clauses[n] :
              /\ p # q
              /\ decision_level[Value(clauses[n][p])] = current_decision_level
              /\ decision_level[Value(clauses[n][q])] = current_decision_level
<1> DEFINE c == clauses[n]
           k == current_decision_level - 1
           a == AtLevel(k)
<1>0. /\ current_decision_level \in Nat /\ decision_level \in [Vars -> Nat]
      /\ k \in Nat /\ k \in 0..(current_decision_level - 1)
  BY DEF IInv, TypeOK
<1>1. ~IsPending(a, c)
  BY <1>0 DEF LowerLevelsPropagated
<1>2. \A i \in DOMAIN c : c[i] \in Int /\ Value(c[i]) \in Vars
  BY DatabaseClause
<1>3. \A i \in DOMAIN c : a[Value(c[i])] =
          IF decision_level[Value(c[i])] <= k THEN assignment[Value(c[i])] ELSE NotAssigned
  BY <1>2 DEF AtLevel
<1>4. ASSUME NEW i \in DOMAIN c PROVE ~LitTrue(a, c[i])
  <2>1. CASE decision_level[Value(c[i])] <= k
    <3>1. LitFalse(assignment, c[i])
      BY <1>0, <1>2, <2>1
    <3>2. ~LitTrue(assignment, c[i])
      BY <1>2, <3>1, TrueIsNotFalse
    <3> QED
      BY <1>3, <2>1, <3>2 DEF LitTrue
  <2>2. CASE ~(decision_level[Value(c[i])] <= k)
    BY <1>3, <2>2 DEF LitTrue, On, Off, NotAssigned
  <2> QED
    BY <2>1, <2>2
<1>5. PICK p, q \in Unassigned(a, c) : p # q
  BY <1>1, <1>4 DEF IsPending, IsClauseSatisfied
<1>6. ASSUME NEW r \in Unassigned(a, c)
      PROVE  r \in DOMAIN c /\ decision_level[Value(c[r])] = current_decision_level
  <2>1. r \in DOMAIN c /\ a[Value(c[r])] = NotAssigned
    BY DEF Unassigned
  <2>2. assignment[Value(c[r])] # NotAssigned
    BY <2>1 DEF LitFalse, IsAssigned, On, Off, NotAssigned
  <2>3. ~(decision_level[Value(c[r])] <= k)
    BY <1>3, <2>1, <2>2
  <2>4. decision_level[Value(c[r])] <= current_decision_level
    BY <1>2, <2>1, <2>2 DEF IInv, TrailSound, IsAssigned
  <2> QED
    BY <1>0, <1>2, <2>1, <2>3, <2>4
<1> QED
  BY <1>5, <1>6

----------------------------------------------------------------------------
(***************************************************************************)
(* What is assigned at a level or below changes neither when a variable is *)
(* assigned above it nor when the solver backtracks to it or above it.     *)
(***************************************************************************)
LEMMA AssignBelow ==
    ASSUME IInv, model' = model, NEW v \in Vars, ~IsAssigned(v),
           \A w \in Vars : w # v => /\ assignment'[w] = assignment[w]
                                    /\ decision_level'[w] = decision_level[w],
           NEW k \in Nat, ~(decision_level'[v] <= k)
    PROVE  \A w \in Vars : AtLevel(k)'[w] = AtLevel(k)[w]
<1>1. assignment \in [Vars -> Assignments] /\ decision_level \in [Vars -> Nat]
  BY DEF IInv, TypeOK
<1>2. AtLevel(k)' = [w \in Vars |-> IF decision_level'[w] <= k THEN assignment'[w] ELSE NotAssigned]
  BY DEF AtLevel, Vars
<1> SUFFICES ASSUME NEW w \in Vars PROVE AtLevel(k)'[w] = AtLevel(k)[w]
  OBVIOUS
<1>3. CASE w = v
  <2>1. assignment[w] = NotAssigned
    BY <1>3 DEF IsAssigned
  <2> QED
    BY <1>2, <1>3, <2>1 DEF AtLevel
<1>4. CASE w # v
  BY <1>1, <1>2, <1>4 DEF AtLevel
<1> QED
  BY <1>3, <1>4

LEMMA BacktrackBelow ==
    ASSUME IInv, NEW level \in Nat, Backtrack(level), model' = model,
           NEW k \in Nat, k <= level
    PROVE  \A w \in Vars : AtLevel(k)'[w] = AtLevel(k)[w]
<1>1. decision_level \in [Vars -> Nat]
  BY DEF IInv, TypeOK
<1>2. AtLevel(k)' = [w \in Vars |-> IF decision_level'[w] <= k THEN assignment'[w] ELSE NotAssigned]
  BY DEF AtLevel, Vars
<1>3. /\ decision_level' = decision_level
      /\ assignment' = [w \in Vars |-> IF IsAssigned(w) /\ level < decision_level[w]
                                       THEN NotAssigned ELSE assignment[w]]
  BY BacktrackEffect
<1> SUFFICES ASSUME NEW w \in Vars PROVE AtLevel(k)'[w] = AtLevel(k)[w]
  OBVIOUS
<1>4. CASE decision_level[w] <= k
  <2>1. ~(level < decision_level[w])
    BY <1>1, <1>4
  <2> QED
    BY <1>2, <1>3, <1>4, <2>1 DEF AtLevel
<1>5. CASE ~(decision_level[w] <= k)
  BY <1>2, <1>3, <1>5 DEF AtLevel
<1> QED
  BY <1>4, <1>5

\* A clause that is not pending below a level stays so while nothing changes there.
LEMMA StaysPropagated ==
    ASSUME IInv, NEW k, NEW n \in DOMAIN clauses, ~IsPending(AtLevel(k), clauses[n]),
           \A w \in Vars : AtLevel(k)'[w] = AtLevel(k)[w]
    PROVE  ~IsPending(AtLevel(k)', clauses[n])
<1>1. \A i \in DOMAIN clauses[n] : Value(clauses[n][i]) \in Vars
  BY DatabaseClause
<1> HIDE DEF AtLevel
<1>2. PICK a, b : a = AtLevel(k) /\ b = AtLevel(k)'
  OBVIOUS
<1>3. \A i \in DOMAIN clauses[n] : a[Value(clauses[n][i])] = b[Value(clauses[n][i])]
  BY <1>1, <1>2
<1> QED
  BY <1>2, <1>3, PendingAgrees

(***************************************************************************)
(* The learned clause has a literal of the level that the solver returns   *)
(* to and one of the level it leaves, so it is not pending below.          *)
(***************************************************************************)
LEMMA LearnedNotPending ==
    ASSUME PropagationInv, pc = "resolve", NEW c, LitsOf(c) = learned,
           NEW k \in Nat, k < backtrack_level
    PROVE  ~IsPending(AtLevel(k), c)
<1> USE DEF PropagationInv, LevelsInv
<1>1. /\ backtrack_level \in Nat /\ current_decision_level \in Nat
      /\ learned \subseteq Literals /\ decision_level \in [Vars -> Nat]
  BY DEF IInv, TypeOK
<1>2. /\ backtrack_level < current_decision_level /\ current_decision_level > 0
      /\ CurrentVars # {}
      /\ \E l \in learned : decision_level[Value(l)] = backtrack_level
  BY <1>1 DEF AnalysisOpen
<1>3. PICK l \in learned : decision_level[Value(l)] = backtrack_level
  BY <1>2
<1>4. PICK m \in learned : decision_level[Value(m)] = current_decision_level
  BY <1>2 DEF CurrentVars, OfLevel, OfCurrentLevel
<1>5. Value(l) \in Vars /\ Value(m) \in Vars
  BY <1>1 DEF Literals, LiteralsOver
<1>6. PICK i, j \in DOMAIN c : c[i] = l /\ c[j] = m
  BY DEF LitsOf
<1>7. i # j
  BY <1>1, <1>2, <1>3, <1>4, <1>6
<1>8. ~(backtrack_level <= k) /\ ~(current_decision_level <= k)
  BY <1>1, <1>2
<1>9. AtLevel(k)[Value(l)] = NotAssigned /\ AtLevel(k)[Value(m)] = NotAssigned
  BY <1>3, <1>4, <1>5, <1>8 DEF AtLevel
<1> QED
  BY <1>6, <1>7, <1>9 DEF IsPending, Unassigned

LEMMA LowerLevelsStep ==
    ASSUME PropagationInv, [Next]_vars
    PROVE  LowerLevelsPropagated'
<1> USE DEF PropagationInv, LevelsInv
<1>0. current_decision_level \in Nat /\ clauses \in Seq(Seq(Literals)) /\ model' = model
  BY ModelConstant DEF IInv, TypeOK
<1>1. CASE UNCHANGED <<model, columns, clauses, current_decision_level>>
  BY <1>1 DEF LowerLevelsPropagated, AtLevel, Vars
<1>2. CASE Restart
  <2>1. current_decision_level' = 0
    BY <1>2 DEF Restart, Backtrack
  <2> QED
    BY <2>1 DEF LowerLevelsPropagated
<1> SUFFICES ASSUME PropagateUnit \/ MakeDecision \/ LearnAndBacktrack,
                    NEW k \in 0..(current_decision_level' - 1), NEW n \in DOMAIN clauses'
             PROVE  ~IsPending(AtLevel(k)', clauses'[n])
  BY <1>1, <1>2
  DEF LowerLevelsPropagated, Next, Step, CallSolve, Iterate, SkipClause, FindConflict, EndPass,
      StepDownTrail, ResolveAntecedent, ReturnUnsatisfiable, CheckSolution, Finished
<1>3. CASE PropagateUnit
  <2>1. PICK i \in DOMAIN clauses[scan] :
            LET v == Value(clauses[scan][i])
            IN  /\ Unassigned(assignment, clauses[scan]) = {i}
                /\ assignment' = [assignment EXCEPT ![v] = Polarity(clauses[scan][i])]
                /\ decision_level' = [decision_level EXCEPT ![v] = current_decision_level]
    BY <1>3 DEF PropagateUnit
  <2> DEFINE v == Value(clauses[scan][i])
             x == Polarity(clauses[scan][i])
  <2>2. v \in Vars /\ ~IsAssigned(v)
    BY <1>3, <2>1, UnitClause DEF PropagateUnit
  <2>3. clauses' = clauses /\ current_decision_level' = current_decision_level
    BY <1>3 DEF PropagateUnit
  <2>4. k \in Nat /\ k < current_decision_level
    BY <1>0, <2>3
  <2>5. /\ assignment' = [assignment EXCEPT ![v] = x]
        /\ decision_level' = [decision_level EXCEPT ![v] = current_decision_level]
        /\ assignment \in [Vars -> Assignments] /\ decision_level \in [Vars -> Nat]
    BY <2>1 DEF IInv, TypeOK
  <2> HIDE DEF v, x
  <2>6. \A w \in Vars : AtLevel(k)'[w] = AtLevel(k)[w]
    <3>1. /\ \A w \in Vars : w # v => /\ assignment'[w] = assignment[w]
                                      /\ decision_level'[w] = decision_level[w]
          /\ ~(decision_level'[v] <= k)
      BY <1>0, <2>2, <2>4, <2>5
    <3> QED
      BY <1>0, <2>2, <2>4, <3>1, AssignBelow
  <2>7. ~IsPending(AtLevel(k), clauses[n])
    BY <2>3 DEF LowerLevelsPropagated
  <2> QED
    BY <2>3, <2>6, <2>7, StaysPropagated
<1>4. CASE MakeDecision
  <2>1. PICK i \in UnassignedVars :
            LET v == model.literals[i]
            IN  /\ assignment' = [assignment EXCEPT ![v] = On]
                /\ decision_level' = [decision_level EXCEPT ![v] = NextLevel]
    BY <1>4 DEF MakeDecision
  <2> DEFINE v == model.literals[i]
  <2>2. v \in Vars /\ ~IsAssigned(v)
    BY <2>1 DEF UnassignedVars, Vars, VarsOf, IsAssigned
  <2>3. /\ clauses' = clauses /\ pc = "decide"
        /\ current_decision_level' = NextLevel /\ NextLevel = current_decision_level + 1
    BY <1>4 DEF MakeDecision, NextLevel
  <2>4. k \in Nat /\ k < NextLevel /\ NextLevel \in Nat
        /\ (k \in 0..(current_decision_level - 1) \/ k = current_decision_level)
    BY <1>0, <2>3
  <2>5. /\ assignment' = [assignment EXCEPT ![v] = On]
        /\ decision_level' = [decision_level EXCEPT ![v] = NextLevel]
        /\ assignment \in [Vars -> Assignments] /\ decision_level \in [Vars -> Nat]
    BY <2>1 DEF IInv, TypeOK
  <2> HIDE DEF v
  <2>6. \A w \in Vars : AtLevel(k)'[w] = AtLevel(k)[w]
    <3>1. /\ \A w \in Vars : w # v => /\ assignment'[w] = assignment[w]
                                      /\ decision_level'[w] = decision_level[w]
          /\ ~(decision_level'[v] <= k)
      BY <1>0, <2>2, <2>4, <2>5
    <3> QED
      BY <1>0, <2>2, <2>4, <3>1, AssignBelow
  <2>7. ~IsPending(AtLevel(k), clauses[n])
    <3>1. CASE k \in 0..(current_decision_level - 1)
      BY <2>3, <3>1 DEF LowerLevelsPropagated
    <3>2. CASE k = current_decision_level
      <4>1. ~IsPending(assignment, clauses[n])
        BY <2>3 DEF PassSound
      <4>2. \A i_1 \in DOMAIN clauses[n] :
                assignment[Value(clauses[n][i_1])] = AtLevel(k)[Value(clauses[n][i_1])]
        BY <2>3, <3>2, TopLevel, DatabaseClause
      <4> QED
        BY <4>1, <4>2, PendingAgrees
    <3> QED
      BY <2>4, <3>1, <3>2
  <2> QED
    BY <2>3, <2>6, <2>7, StaysPropagated
<1>5. CASE LearnAndBacktrack
  <2>1. PICK c \in SortedUnique(learned) : clauses' = Append(clauses, c)
    BY <1>5 DEF LearnAndBacktrack, LearnAdditionalClause
  <2>2. pc = "resolve" /\ Backtrack(backtrack_level) /\ backtrack_level \in Nat
    BY <1>5 DEF LearnAndBacktrack, Resolved, IInv, TypeOK
  <2>3. c \in Seq(Literals) /\ LitsOf(c) = learned
    BY <2>2, SortedUniqueClause
  <2>4. current_decision_level' = backtrack_level
    BY <2>2 DEF Backtrack
  <2>5. k \in Nat /\ k < backtrack_level /\ k <= backtrack_level
    BY <2>2, <2>4
  <2>6. \A w \in Vars : AtLevel(k)'[w] = AtLevel(k)[w]
    BY <1>0, <2>2, <2>5, BacktrackBelow
  <2>7. clauses'[n] = c \/ (n \in DOMAIN clauses /\ clauses'[n] = clauses[n])
    BY <1>0, <2>1, <2>3, AppendElements
  <2>8. CASE n \in DOMAIN clauses /\ clauses'[n] = clauses[n]
    <3>1. backtrack_level < current_decision_level
      BY <2>2, <2>5 DEF AnalysisOpen
    <3>2. k \in 0..(current_decision_level - 1)
      BY <1>0, <2>2, <2>5, <3>1
    <3>3. ~IsPending(AtLevel(k), clauses[n])
      BY <2>8, <3>2 DEF LowerLevelsPropagated
    <3> QED
      BY <2>6, <2>8, <3>3, StaysPropagated
  <2>9. CASE clauses'[n] = c
    <3>1. ~IsPending(AtLevel(k), c)
      BY <2>2, <2>3, <2>5, LearnedNotPending
    <3>2. PICK a, b : a = AtLevel(k) /\ b = AtLevel(k)'
      OBVIOUS
    <3>3. \A i \in DOMAIN c : Value(c[i]) \in Vars
      BY <2>3 DEF Literals, LiteralsOver
    <3>4. \A i \in DOMAIN c : a[Value(c[i])] = b[Value(c[i])]
      BY <2>6, <3>2, <3>3
    <3> QED
      BY <2>9, <3>1, <3>2, <3>4, PendingAgrees
  <2> QED
    BY <2>7, <2>8, <2>9
<1> QED
  BY <1>3, <1>4, <1>5

----------------------------------------------------------------------------
(***************************************************************************)
(* unit_propagation leaves a pass without a propagation only when no       *)
(* clause is pending.                                                      *)
(***************************************************************************)
LEMMA PassStep ==
    ASSUME PropagationInv, [Next]_vars
    PROVE  PassSound'
<1> USE DEF PropagationInv, LevelsInv
<1>0. /\ clauses \in Seq(Seq(Literals)) /\ scan \in Nat /\ propagated \in Nat
      /\ DOMAIN clauses = 1..Len(clauses) /\ Len(clauses) \in Nat
  <2>1. clauses \in Seq(Seq(Literals)) /\ scan \in Nat /\ propagated \in Nat
    BY DEF IInv, TypeOK
  <2> QED
    BY <2>1
<1>1. CASE pc' # "propagate" /\ pc' # "decide"
  BY <1>1 DEF PassSound
<1>2. CASE pc' = "propagate" /\ scan' = 1 /\ clauses' = clauses
  <2>1. \A n \in DOMAIN clauses' : ~(n < scan')
    BY <1>0, <1>2
  <2> QED
    BY <1>2, <2>1 DEF PassSound
<1>3. CASE UNCHANGED <<pc, assignment, clauses, scan, propagated>>
  BY <1>3 DEF PassSound
<1>4. CASE SkipClause
  <2>1. /\ pc = "propagate" /\ pc' = pc /\ scan' = scan + 1
        /\ UNCHANGED <<assignment, clauses, propagated>>
        /\ ~IsPending(assignment, clauses[scan])
    BY <1>4 DEF SkipClause, Visiting
  <2>2. \A n \in DOMAIN clauses : n < scan + 1 => n < scan \/ n = scan
    BY <1>0
  <2> QED
    BY <2>1, <2>2 DEF PassSound
<1>5. CASE PropagateUnit
  <2>1. pc' = "propagate" /\ propagated' = propagated + 1
    BY <1>5 DEF PropagateUnit, Visiting
  <2>2. propagated' # 0
    BY <1>0, <2>1
  <2> QED
    BY <2>1, <2>2 DEF PassSound
<1>6. CASE EndPass
  <2>1. CASE PassAgain
    BY <1>2, <1>6, <2>1 DEF EndPass, StartPropagation
  <2>2. CASE ~PassAgain
    <3>1. /\ pc = "propagate" /\ pc' = "decide" /\ scan > Len(clauses)
          /\ UNCHANGED <<assignment, clauses>>
      BY <1>6, <2>2 DEF EndPass
    <3>2. propagated = 0
      BY <1>0, <2>2 DEF PassAgain
    <3>3. \A n \in DOMAIN clauses : n < scan
      BY <1>0, <3>1
    <3> QED
      BY <3>1, <3>2, <3>3 DEF PassSound
  <2> QED
    BY <2>1, <2>2
<1>7. CASE CallSolve \/ Iterate \/ Restart
  BY <1>1, <1>2, <1>7 DEF CallSolve, Iterate, Restart, StartPropagation
<1>8. CASE FindConflict \/ StepDownTrail \/ ResolveAntecedent \/ ReturnUnsatisfiable
           \/ LearnAndBacktrack \/ MakeDecision \/ CheckSolution
  BY <1>1, <1>8
  DEF FindConflict, StepDownTrail, ResolveAntecedent, Resolving, ReturnUnsatisfiable,
      LearnAndBacktrack, MakeDecision, CheckSolution
<1>9. CASE Finished \/ UNCHANGED vars
  BY <1>3, <1>9 DEF Finished
<1> QED
  BY <1>4, <1>5, <1>6, <1>7, <1>8, <1>9 DEF Next, Step

----------------------------------------------------------------------------
(***************************************************************************)
(* Every propagated variable comes on the trail after the other variables  *)
(* of its clause, each in the place it keeps.                              *)
(***************************************************************************)
\* ReasonsOrdered with its definitions expanded, in the next state.
LEMMA NextOrdered ==
    ASSUME \A j \in DOMAIN trail' : clause_propagation'[trail'[j]] # NoClause =>
              LET c == clauses'[clause_propagation'[trail'[j]]]
              IN  /\ \A p, q \in DOMAIN c :
                        Value(c[p]) = trail'[j] /\ Value(c[q]) = trail'[j] => p = q
                  /\ \A p \in DOMAIN c : Value(c[p]) # trail'[j] =>
                        \E i \in DOMAIN trail' : i < j /\ trail'[i] = Value(c[p])
    PROVE  ReasonsOrdered'
BY DEF ReasonsOrdered, PropagatedAfter, IsDecision

LEMMA BacktrackOrdered ==
    ASSUME IInv, ReasonsOrdered, NEW level \in Nat, Backtrack(level), model' = model,
           \A n \in DOMAIN clauses : clauses'[n] = clauses[n]
    PROVE  ReasonsOrdered'
<1>1. /\ trail' \in Seq(Vars) /\ DOMAIN trail' = 1..Len(trail') /\ Len(trail') \in Nat
      /\ \A i \in DOMAIN trail' : i \in DOMAIN trail /\ trail'[i] = trail[i]
      /\ clause_propagation' = [v \in Vars |-> IF IsAssigned(v) /\ level < decision_level[v]
                                               THEN NoClause ELSE clause_propagation[v]]
  <2>1. trail' \in Seq(Vars)
    BY BacktrackEffect
  <2> QED
    BY <2>1, BacktrackEffect
<1>2. DOMAIN trail = 1..Len(trail) /\ Len(trail) \in Nat
  <2>1. trail \in Seq(Vars)
    BY DEF IInv, TypeOK
  <2> QED
    BY <2>1
<1> SUFFICES ASSUME NEW j \in DOMAIN trail', clause_propagation'[trail'[j]] # NoClause
             PROVE  LET c == clauses'[clause_propagation'[trail'[j]]]
                    IN  /\ \A p, q \in DOMAIN c :
                              Value(c[p]) = trail'[j] /\ Value(c[q]) = trail'[j] => p = q
                        /\ \A p \in DOMAIN c : Value(c[p]) # trail'[j] =>
                              \E i \in DOMAIN trail' : i < j /\ trail'[i] = Value(c[p])
  BY NextOrdered
<1>3. trail'[j] \in Vars /\ trail'[j] = trail[j] /\ j \in DOMAIN trail
  BY <1>1
<1>4. clause_propagation'[trail[j]] = clause_propagation[trail[j]] /\ ~IsDecision(trail[j])
  BY <1>1, <1>3 DEF IsDecision
<1>5. clauses'[clause_propagation[trail[j]]] = clauses[clause_propagation[trail[j]]]
  BY <1>3, <1>4, Reason
<1> DEFINE c == clauses[clause_propagation[trail[j]]]
<1>6. PropagatedAfter(j, c)
  BY <1>3, <1>4 DEF ReasonsOrdered
<1>7. \A i \in DOMAIN trail : i < j => i \in DOMAIN trail' /\ trail'[i] = trail[i]
  BY <1>1, <1>2
<1> QED
  BY <1>3, <1>4, <1>5, <1>6, <1>7 DEF PropagatedAfter

LEMMA AppendOrdered ==
    ASSUME IInv, ReasonsOrdered, clauses' = clauses, NEW v \in Vars, ~IsAssigned(v),
           trail' = Append(trail, v),
           \A w \in Vars : w # v => clause_propagation'[w] = clause_propagation[w],
           clause_propagation'[v] # NoClause =>
              LET c == clauses[clause_propagation'[v]]
              IN  /\ \A p, q \in DOMAIN c : Value(c[p]) = v /\ Value(c[q]) = v => p = q
                  /\ \A p \in DOMAIN c : Value(c[p]) # v =>
                        Value(c[p]) \in Vars /\ IsAssigned(Value(c[p]))
    PROVE  ReasonsOrdered'
<1>1. /\ DOMAIN trail = 1..Len(trail) /\ Len(trail) \in Nat
      /\ DOMAIN trail' = 1..(Len(trail) + 1) /\ trail'[Len(trail) + 1] = v
      /\ \A i \in DOMAIN trail : trail'[i] = trail[i] /\ trail[i] \in Vars
  <2>1. trail \in Seq(Vars)
    BY DEF IInv, TypeOK
  <2> QED
    BY <2>1
<1> SUFFICES ASSUME NEW j \in DOMAIN trail', clause_propagation'[trail'[j]] # NoClause
             PROVE  LET c == clauses'[clause_propagation'[trail'[j]]]
                    IN  /\ \A p, q \in DOMAIN c :
                              Value(c[p]) = trail'[j] /\ Value(c[q]) = trail'[j] => p = q
                        /\ \A p \in DOMAIN c : Value(c[p]) # trail'[j] =>
                              \E i \in DOMAIN trail' : i < j /\ trail'[i] = Value(c[p])
  BY NextOrdered
<1>2. \A i \in DOMAIN trail : i \in DOMAIN trail' /\ i < Len(trail) + 1
  BY <1>1
<1>3. CASE j = Len(trail) + 1
  <2>1. \A w \in Vars : IsAssigned(w) => \E i \in DOMAIN trail : trail[i] = w
    BY DEF IInv, TrailSound
  <2> DEFINE c == clauses[clause_propagation'[v]]
  <2>2. trail'[j] = v /\ clauses'[clause_propagation'[trail'[j]]] = c
    BY <1>1, <1>3
  <2>3. /\ \A p, q \in DOMAIN c : Value(c[p]) = v /\ Value(c[q]) = v => p = q
        /\ \A p \in DOMAIN c : Value(c[p]) # v =>
              Value(c[p]) \in Vars /\ IsAssigned(Value(c[p]))
    BY <2>2
  <2>4. ASSUME NEW p \in DOMAIN c, Value(c[p]) # v
        PROVE  \E i \in DOMAIN trail' : i < j /\ trail'[i] = Value(c[p])
    BY <1>1, <1>2, <1>3, <2>1, <2>3, <2>4
  <2> QED
    BY <2>2, <2>3, <2>4
<1>4. CASE j # Len(trail) + 1
  <2>1. j \in DOMAIN trail
    BY <1>1, <1>4
  <2>2. trail[j] # v
    BY <2>1 DEF IInv, TrailSound
  <2>3. clause_propagation'[trail'[j]] = clause_propagation[trail[j]] /\ ~IsDecision(trail[j])
    BY <1>1, <2>1, <2>2 DEF IsDecision
  <2>4. PropagatedAfter(j, clauses[clause_propagation[trail[j]]])
    BY <2>1, <2>3 DEF ReasonsOrdered
  <2> QED
    BY <1>1, <1>2, <2>1, <2>3, <2>4 DEF PropagatedAfter
<1> QED
  BY <1>3, <1>4

LEMMA OrderedStep ==
    ASSUME PropagationInv, [Next]_vars
    PROVE  ReasonsOrdered'
<1> USE DEF PropagationInv, LevelsInv
<1>1. CASE UNCHANGED <<columns, trail, clauses>>
  BY <1>1 DEF ReasonsOrdered, PropagatedAfter, IsDecision
<1>2. CASE Restart
  BY <1>2, BacktrackOrdered DEF Restart
<1>3. CASE LearnAndBacktrack
  <2>1. PICK c \in SortedUnique(learned) : clauses' = Append(clauses, c)
    BY <1>3 DEF LearnAndBacktrack, LearnAdditionalClause
  <2>2. /\ backtrack_level \in Nat /\ clauses \in Seq(Seq(Literals))
        /\ Backtrack(backtrack_level) /\ model' = model
    BY <1>3 DEF LearnAndBacktrack, IInv, TypeOK
  <2>3. \A n \in DOMAIN clauses : clauses'[n] = clauses[n]
    BY <2>1, <2>2
  <2> QED
    BY <2>2, <2>3, BacktrackOrdered
<1>4. CASE PropagateUnit
  <2>1. PICK i \in DOMAIN clauses[scan] :
            LET v == Value(clauses[scan][i])
            IN  /\ Unassigned(assignment, clauses[scan]) = {i}
                /\ clause_propagation' = [clause_propagation EXCEPT ![v] = scan]
                /\ trail' = Append(trail, v)
    BY <1>4 DEF PropagateUnit
  <2> DEFINE v == Value(clauses[scan][i])
             c == clauses[scan]
  <2>2. /\ v \in Vars /\ ~IsAssigned(v)
        /\ \A j \in DOMAIN c : j # i => Value(c[j]) # v /\ IsAssigned(Value(c[j]))
    BY <1>4, <2>1, UnitClause DEF PropagateUnit
  <2>3. \A j \in DOMAIN c : Value(c[j]) \in Vars
    BY <1>4, VisitedClause DEF PropagateUnit
  <2>4. clauses' = clauses /\ clause_propagation \in [Vars -> 0..Len(clauses)]
    BY <1>4 DEF PropagateUnit, IInv, TypeOK
  <2>5. /\ \A p, q \in DOMAIN c : Value(c[p]) = v /\ Value(c[q]) = v => p = q
        /\ \A p \in DOMAIN c : Value(c[p]) # v =>
              Value(c[p]) \in Vars /\ IsAssigned(Value(c[p]))
    BY <2>2, <2>3
  <2>6. trail' = Append(trail, v) /\ clause_propagation' = [clause_propagation EXCEPT ![v] = scan]
    BY <2>1
  <2> HIDE DEF v
  <2>7. /\ clause_propagation'[v] = scan
        /\ \A w \in Vars : w # v => clause_propagation'[w] = clause_propagation[w]
    BY <2>2, <2>4, <2>6
  <2> QED
    BY <2>2, <2>4, <2>5, <2>6, <2>7, AppendOrdered
<1>5. CASE MakeDecision
  <2>1. PICK i \in UnassignedVars : trail' = Append(trail, model.literals[i])
    BY <1>5 DEF MakeDecision
  <2> DEFINE v == model.literals[i]
  <2>2. v \in Vars /\ ~IsAssigned(v)
    BY <2>1 DEF UnassignedVars, Vars, VarsOf, IsAssigned
  <2>3. clauses' = clauses /\ clause_propagation' = clause_propagation
    BY <1>5 DEF MakeDecision
  <2>4. clause_propagation'[v] = NoClause
    BY <2>2, <2>3 DEF IInv, ReasonsSound, IsDecision
  <2>5. trail' = Append(trail, v)
    BY <2>1
  <2> HIDE DEF v
  <2> QED
    BY <2>2, <2>3, <2>4, <2>5, AppendOrdered
<1> QED
  BY <1>1, <1>2, <1>3, <1>4, <1>5
  DEF Next, Step, CallSolve, Iterate, SkipClause, FindConflict, EndPass, StepDownTrail,
      ResolveAntecedent, ReturnUnsatisfiable, CheckSolution, Finished

----------------------------------------------------------------------------
(***************************************************************************)
(* resolve_conflict always has a variable of the current level left, and   *)
(* it finds them all at or below its place on the trail, unless the only   *)
(* one left is the decision.                                               *)
(***************************************************************************)
\* AnalysisOpen in the next state, for a step that changes only locals of resolve_conflict.
LEMMA NextAnalysis ==
    ASSUME UNCHANGED <<model, columns, trail, current_decision_level>>,
           current_decision_level > 0 => OfLevel(learned') # {},
           backtrack_level' # 0 =>
              /\ backtrack_level' < current_decision_level
              /\ \E l \in learned' : decision_level[Value(l)] = backtrack_level',
           \/ \A v \in OfLevel(learned') : \E i \in 1..(trail_index' + 1) : trail[i] = v
           \/ \E v \in Vars : IsDecision(v) /\ OfLevel(learned') = {v}
    PROVE  AnalysisOpen'
<1>1. CurrentVars' = OfLevel(learned') /\ Vars' = Vars
  BY DEF CurrentVars, OfLevel, OfCurrentLevel, Vars
<1> HIDE DEF OfLevel
<1> QED
  BY <1>1 DEF AnalysisOpen, IsDecision

LEMMA ConflictOpen ==
    ASSUME PropagationInv, FindConflict
    PROVE  AnalysisOpen'
<1> USE DEF PropagationInv, LevelsInv
<1> DEFINE c == clauses[scan]
<1>1. /\ UNCHANGED <<model, columns, trail, current_decision_level>>
      /\ learned' = LitsOf(c) /\ backtrack_level' = 0 /\ trail_index' = Len(trail) - 1
      /\ Visiting /\ ~IsClauseSatisfied(assignment, c) /\ Unassigned(assignment, c) = {}
  BY DEF FindConflict, TopOfTrail, IsPending
<1>2. /\ scan \in DOMAIN clauses /\ assignment \in [Vars -> Assignments]
      /\ \A i \in DOMAIN c : c[i] \in Literals /\ Value(c[i]) \in Vars
      /\ DOMAIN trail = 1..Len(trail) /\ Len(trail) \in Nat
  <2>1. trail \in Seq(Vars) /\ assignment \in [Vars -> Assignments]
    BY DEF IInv, TypeOK
  <2> QED
    BY <1>1, <2>1, VisitedClause
<1>3. \A i \in DOMAIN c : LitFalse(assignment, c[i]) /\ IsAssigned(Value(c[i]))
  <2> SUFFICES ASSUME NEW i \in DOMAIN c
               PROVE  LitFalse(assignment, c[i]) /\ IsAssigned(Value(c[i]))
    OBVIOUS
  <2>1. IsAssigned(Value(c[i]))
    BY <1>1 DEF Unassigned, IsAssigned
  <2>2. ~LitTrue(assignment, c[i])
    BY <1>1 DEF IsClauseSatisfied
  <2> QED
    BY <1>2, <2>1, <2>2, AssignedLiteral DEF Literals, IsAssigned
<1>4. current_decision_level > 0 => OfLevel(learned') # {}
  <2> SUFFICES ASSUME current_decision_level > 0 PROVE OfLevel(learned') # {}
    OBVIOUS
  <2>1. \E p \in DOMAIN c : decision_level[Value(c[p])] = current_decision_level
    BY <1>2, <1>3, TwoPositions
  <2> QED
    BY <1>1, <2>1 DEF OfLevel, OfCurrentLevel, LitsOf
<1>5. \A v \in OfLevel(learned') : \E i \in 1..(trail_index' + 1) : trail[i] = v
  <2> SUFFICES ASSUME NEW v \in OfLevel(learned')
               PROVE  \E i \in 1..(trail_index' + 1) : trail[i] = v
    OBVIOUS
  <2>1. PICK p \in DOMAIN c : v = Value(c[p])
    BY <1>1 DEF OfLevel, OfCurrentLevel, LitsOf
  <2>2. \E i \in DOMAIN trail : trail[i] = v
    BY <1>2, <1>3, <2>1 DEF IInv, TrailSound
  <2>3. trail_index' + 1 = Len(trail)
    BY <1>1, <1>2
  <2> QED
    BY <1>2, <2>2, <2>3
<1> QED
  BY <1>1, <1>4, <1>5, NextAnalysis

\* The entry of the trail that resolve_conflict looks at.
LEMMA TrailEntry ==
    ASSUME IInv, Resolving
    PROVE  /\ trail_index + 1 \in DOMAIN trail /\ TrailVar = trail[trail_index + 1]
           /\ TrailVar \in Vars /\ IsAssigned(TrailVar)
           /\ trail_index \in Nat /\ trail_index > 0
           /\ DOMAIN trail = 1..Len(trail) /\ Len(trail) \in Nat
           /\ \A i \in DOMAIN trail : trail[i] \in Vars
<1>1. /\ trail \in Seq(Vars) /\ trail_index \in Nat /\ trail_index < Len(trail)
      /\ trail_index > 0
  BY DEF IInv, TypeOK, Resolving
<1>2. /\ trail_index + 1 \in DOMAIN trail /\ TrailVar = trail[trail_index + 1]
      /\ DOMAIN trail = 1..Len(trail) /\ Len(trail) \in Nat
      /\ \A i \in DOMAIN trail : trail[i] \in Vars
  BY <1>1 DEF TrailVar
<1>3. IsAssigned(TrailVar)
  BY <1>2 DEF IInv, TrailSound
<1> QED
  BY <1>1, <1>2, <1>3

\* Below a decision the trail is of lower levels.
LEMMA DecisionIsFirst ==
    ASSUME IInv, DecisionsOpenLevels, NEW j \in DOMAIN trail, IsDecision(trail[j]),
           NEW i \in 1..(j - 1)
    PROVE  decision_level[trail[i]] < decision_level[trail[j]]
<1>1. /\ DOMAIN trail = 1..Len(trail) /\ Len(trail) \in Nat
      /\ \A n \in DOMAIN trail : trail[n] \in Vars
      /\ decision_level \in [Vars -> Nat]
  <2>1. trail \in Seq(Vars) /\ decision_level \in [Vars -> Nat]
    BY DEF IInv, TypeOK
  <2> QED
    BY <2>1
<1>2. j # 1 /\ j - 1 \in DOMAIN trail /\ i \in DOMAIN trail
  BY <1>1
<1>3. decision_level[trail[j]] = decision_level[trail[j - 1]] + 1
  BY <1>2 DEF DecisionsOpenLevels, LevelBelow
<1>4. i = j - 1 \/ decision_level[trail[i]] <= decision_level[trail[j - 1]]
  BY <1>1, <1>2 DEF IInv, TrailSound
<1>5. decision_level[trail[i]] \in Nat /\ decision_level[trail[j - 1]] \in Nat
  BY <1>1, <1>2
<1> QED
  BY <1>3, <1>4, <1>5

LEMMA StepDownOpen ==
    ASSUME PropagationInv, StepDownTrail
    PROVE  AnalysisOpen'
<1> USE DEF PropagationInv, LevelsInv
<1> DEFINE t == trail_index + 1
<1>1. /\ Resolving /\ ~HasAntecedent /\ pc = "resolve"
      /\ UNCHANGED <<model, columns, trail, current_decision_level, learned, backtrack_level>>
      /\ trail_index' = trail_index - 1
  BY DEF StepDownTrail, Resolving
<1>2. /\ t \in DOMAIN trail /\ TrailVar = trail[t] /\ TrailVar \in Vars
      /\ trail_index \in Nat /\ trail_index > 0
  BY <1>1, TrailEntry
<1>3. CurrentVars = OfLevel(learned') /\ learned' = learned
  BY <1>1 DEF CurrentVars, OfLevel, OfCurrentLevel
<1>4. /\ current_decision_level > 0 => CurrentVars # {}
      /\ backtrack_level # 0 =>
              /\ backtrack_level < current_decision_level
              /\ \E l \in learned : decision_level[Value(l)] = backtrack_level
      /\ \/ \A v \in CurrentVars : \E i \in 1..t : trail[i] = v
         \/ \E v \in Vars : IsDecision(v) /\ CurrentVars = {v}
  BY <1>1 DEF AnalysisOpen
<1>5. \/ \A v \in CurrentVars : \E i \in 1..(trail_index' + 1) : trail[i] = v
      \/ \E v \in Vars : IsDecision(v) /\ CurrentVars = {v}
  <2> SUFFICES ASSUME \A v \in CurrentVars : \E i \in 1..t : trail[i] = v
               PROVE  \/ \A v \in CurrentVars : \E i \in 1..(t - 1) : trail[i] = v
                      \/ \E v \in Vars : IsDecision(v) /\ CurrentVars = {v}
    BY <1>1, <1>2, <1>4
  <2>1. CASE TrailVar \notin CurrentVars
    <3>1. \A v \in CurrentVars : \A i \in 1..t : trail[i] = v => i \in 1..(t - 1)
      BY <1>2, <2>1
    <3> QED
      BY <3>1
  <2>2. CASE TrailVar \in CurrentVars
    <3>1. decision_level[TrailVar] = current_decision_level
      BY <2>2 DEF CurrentVars, OfLevel, OfCurrentLevel
    <3>2. \E q \in current_level_vars : q[1] = TrailVar
      BY <1>1, <2>2 DEF IInv, AnalysisSound, CurrentVars, OfLevel
    <3>3. IsDecision(TrailVar)
      BY <1>1, <3>1, <3>2 DEF HasAntecedent
    <3>4. ASSUME NEW v \in CurrentVars PROVE v = TrailVar
      <4>1. PICK i \in 1..t : trail[i] = v
        OBVIOUS
      <4>2. decision_level[v] = current_decision_level
        BY DEF CurrentVars, OfLevel, OfCurrentLevel
      <4>3. current_decision_level \in Nat
        BY DEF IInv, TypeOK
      <4>4. ~(i \in 1..(t - 1))
        <5> SUFFICES ASSUME i \in 1..(t - 1) PROVE FALSE
          OBVIOUS
        <5>1. decision_level[trail[i]] < decision_level[trail[t]]
          BY <1>2, <3>3, DecisionIsFirst
        <5> QED
          BY <1>2, <3>1, <4>1, <4>2, <4>3, <5>1
      <4>5. i = t
        BY <1>2, <4>1, <4>4
      <4> QED
        BY <1>2, <4>1, <4>5
    <3>5. CurrentVars = {TrailVar}
      BY <2>2, <3>4
    <3> QED
      BY <1>2, <3>3, <3>5
  <2> QED
    BY <2>1, <2>2
<1> HIDE DEF OfLevel, CurrentVars
<1> QED
  BY <1>1, <1>3, <1>4, <1>5, NextAnalysis

LEMMA ResolveOpen ==
    ASSUME PropagationInv, ResolveAntecedent
    PROVE  AnalysisOpen'
<1> USE DEF PropagationInv, LevelsInv
<1> DEFINE t == trail_index + 1
           x == TrailVar
           c == clauses[clause_propagation[x]]
<1>1. /\ Resolving /\ HasAntecedent /\ pc = "resolve"
      /\ UNCHANGED <<model, columns, trail, current_decision_level>>
      /\ learned' = Kept \cup Added
      /\ backtrack_level' \in ResolvedLevels
      /\ trail_index' = trail_index - 1
  BY DEF ResolveAntecedent, Resolving
<1>2. /\ t \in DOMAIN trail /\ x = trail[t] /\ x \in Vars
      /\ trail_index \in Nat /\ trail_index > 0
  BY <1>1, TrailEntry
<1>3. /\ ~IsDecision(x) /\ decision_level[x] = current_decision_level
      /\ x \in CurrentVars
  <2>1. /\ ~IsDecision(x) /\ decision_level[x] = current_decision_level
        /\ \E q \in current_level_vars : q[1] = x
    BY <1>1 DEF HasAntecedent
  <2>2. {q[1] : q \in current_level_vars} = CurrentVars
    BY <1>1 DEF IInv, AnalysisSound, CurrentVars, OfLevel
  <2> QED
    BY <2>1, <2>2
<1>4. /\ clause_propagation[x] \in DOMAIN clauses /\ Explains(x, c)
      /\ PropagatedAfter(t, c)
      /\ \A i \in DOMAIN c : c[i] \in Int /\ Value(c[i]) \in Vars
  BY <1>2, <1>3, Reason, DatabaseClause DEF ReasonsOrdered
<1>5. /\ current_decision_level \in Nat /\ decision_level \in [Vars -> Nat]
      /\ backtrack_level \in Nat /\ learned \subseteq Literals
  BY DEF IInv, TypeOK
<1>6. /\ \A l \in Kept : l \in learned /\ Value(l) # x
      /\ \A l \in Added : Value(l) # x /\ \E i \in DOMAIN c : l = c[i]
      /\ \A i \in DOMAIN c : Value(c[i]) # x =>
            c[i] \in Added \/ \E m \in Kept : Value(m) = Value(c[i])
      /\ \A l \in learned : Value(l) # x => l \in Kept
  BY DEF Kept, Added, LitsOf
<1>7. \A v \in CurrentVars : \E i \in 1..t : trail[i] = v
  <2>1. ~(\E v \in Vars : IsDecision(v) /\ CurrentVars = {v})
    BY <1>3
  <2> QED
    BY <1>1, <2>1 DEF AnalysisOpen
<1> HIDE DEF x, c
<1>8. current_decision_level > 0 => OfLevel(learned') # {}
  <2> SUFFICES ASSUME current_decision_level > 0 PROVE OfLevel(learned') # {}
    OBVIOUS
  <2>1. \A i \in DOMAIN c : \/ LitFalse(assignment, c[i])
                            \/ /\ decision_level[Value(c[i])] = current_decision_level
                               /\ IsAssigned(Value(c[i]))
    BY <1>2, <1>3, <1>4, Reason DEF Explains
  <2>2. PICK p, q \in DOMAIN c : /\ p # q
                                 /\ decision_level[Value(c[p])] = current_decision_level
                                 /\ decision_level[Value(c[q])] = current_decision_level
    BY <1>4, <2>1, TwoPositions DEF c
  <2>3. ~(Value(c[p]) = x /\ Value(c[q]) = x)
    BY <1>2, <1>4, <2>2 DEF PropagatedAfter
  <2>4. PICK r \in DOMAIN c :
            Value(c[r]) # x /\ decision_level[Value(c[r])] = current_decision_level
    BY <2>2, <2>3
  <2>5. PICK l \in learned' : Value(l) = Value(c[r])
    BY <1>1, <1>6, <2>4
  <2> QED
    BY <2>4, <2>5 DEF OfLevel, OfCurrentLevel
<1>9. backtrack_level' # 0 =>
         /\ backtrack_level' < current_decision_level
         /\ \E l \in learned' : decision_level[Value(l)] = backtrack_level'
  <2> SUFFICES ASSUME backtrack_level' # 0
               PROVE  /\ backtrack_level' < current_decision_level
                      /\ \E l \in learned' : decision_level[Value(l)] = backtrack_level'
    OBVIOUS
  <2>1. CASE backtrack_level' = backtrack_level
    <3>1. /\ backtrack_level < current_decision_level
          /\ \E l \in learned : decision_level[Value(l)] = backtrack_level
      BY <1>1, <2>1 DEF AnalysisOpen
    <3>2. PICK l \in learned : decision_level[Value(l)] = backtrack_level
      BY <3>1
    <3>3. l \in Kept
      BY <1>3, <1>5, <1>6, <3>1, <3>2
    <3> QED
      BY <1>1, <2>1, <3>1, <3>2, <3>3
  <2>2. CASE backtrack_level' # backtrack_level
    <3>1. PICK l \in Added : /\ backtrack_level' = decision_level[Value(l)]
                             /\ decision_level[Value(l)] # current_decision_level
      BY <1>1, <2>2 DEF ResolvedLevels, OfCurrentLevel
    <3>2. PICK i \in DOMAIN c : l = c[i]
      BY <1>6
    <3>3. decision_level[Value(l)] <= current_decision_level
      BY <1>3, <1>4, <3>2 DEF Explains
    <3>4. decision_level[Value(l)] \in Nat
      BY <1>4, <1>5, <3>2
    <3> QED
      BY <1>1, <1>5, <3>1, <3>3, <3>4
  <2> QED
    BY <2>1, <2>2
<1>10. \A v \in OfLevel(learned') : \E i \in 1..(trail_index' + 1) : trail[i] = v
  <2> SUFFICES ASSUME NEW l \in learned', decision_level[Value(l)] = current_decision_level
               PROVE  \E i \in 1..(trail_index' + 1) : trail[i] = Value(l)
    BY DEF OfLevel, OfCurrentLevel
  <2>1. trail_index' + 1 = t - 1
    BY <1>1, <1>2
  <2>2. CASE l \in Kept
    <3>1. Value(l) \in CurrentVars
      BY <1>6, <2>2 DEF CurrentVars, OfLevel, OfCurrentLevel
    <3>2. PICK i \in 1..t : trail[i] = Value(l)
      BY <1>7, <3>1
    <3>3. i # t
      BY <1>2, <1>6, <2>2, <3>2
    <3>4. i \in 1..(t - 1)
      BY <1>2, <3>3
    <3> QED
      BY <2>1, <3>2, <3>4
  <2>3. CASE l \in Added
    <3>1. PICK p \in DOMAIN c : l = c[p] /\ Value(c[p]) # trail[t]
      BY <1>2, <1>6, <2>3
    <3>2. PICK i \in DOMAIN trail : i < t /\ trail[i] = Value(l)
      BY <1>4, <3>1 DEF PropagatedAfter
    <3>3. i \in 1..(t - 1)
      <4>1. trail \in Seq(Vars)
        BY DEF IInv, TypeOK
      <4> QED
        BY <1>2, <3>2, <4>1
    <3> QED
      BY <2>1, <3>2, <3>3
  <2> QED
    BY <1>1, <2>2, <2>3
<1> HIDE DEF OfLevel
<1> QED
  BY <1>1, <1>8, <1>9, <1>10, NextAnalysis

LEMMA OpenStep ==
    ASSUME PropagationInv, [Next]_vars
    PROVE  AnalysisOpen'
<1>1. CASE pc' # "resolve"
  BY <1>1 DEF AnalysisOpen
<1>2. CASE UNCHANGED vars
  BY <1>2 DEF PropagationInv, AnalysisOpen, CurrentVars, OfLevel, OfCurrentLevel, Vars, IsDecision
<1>3. CASE FindConflict \/ StepDownTrail \/ ResolveAntecedent
  BY <1>3, ConflictOpen, StepDownOpen, ResolveOpen
<1> QED
  BY <1>1, <1>2, <1>3
  DEF Next, Step, CallSolve, Iterate, Restart, StartPropagation, SkipClause, Visiting,
      PropagateUnit, EndPass, ReturnUnsatisfiable, LearnAndBacktrack, MakeDecision,
      CheckSolution, Finished

----------------------------------------------------------------------------
LEMMA PropagationInit == Init => PropagationInv
<1> SUFFICES ASSUME Init PROVE PropagationInv
  OBVIOUS
<1>1. current_decision_level = 0 /\ pc = "idle" /\ DOMAIN trail = {}
  BY DEF Init
<1> QED
  BY <1>1, LevelsInit
  DEF PropagationInv, LowerLevelsPropagated, PassSound, ReasonsOrdered, AnalysisOpen

LEMMA PropagationNext == PropagationInv /\ [Next]_vars => PropagationInv'
BY LevelsNext, LowerLevelsStep, PassStep, OrderedStep, OpenStep DEF PropagationInv

LEMMA PropagationInductive == Spec => []PropagationInv
BY PropagationInit, PropagationNext, PTL DEF Spec

(***************************************************************************)
(* Propagation is complete below the level under way, and at it when the   *)
(* solver decides: neither a unit nor a falsified clause is left behind,   *)
(* however far the solver backtracks and whatever it learns.               *)
(***************************************************************************)
THEOREM PropagationComplete == Spec => []LevelsPropagated
<1>1. PropagationInv => LevelsPropagated
  <2> SUFFICES ASSUME PropagationInv, NEW k \in 0..current_decision_level,
                      k < current_decision_level \/ pc = "decide",
                      NEW n \in DOMAIN clauses
               PROVE  ~IsPending(AtLevel(k), clauses[n])
    BY DEF LevelsPropagated
  <2>1. IInv /\ current_decision_level \in Nat
    BY DEF PropagationInv, LevelsInv, IInv, TypeOK
  <2>2. CASE k < current_decision_level
    <3>1. k \in 0..(current_decision_level - 1)
      BY <2>1, <2>2
    <3> QED
      BY <3>1 DEF PropagationInv, LowerLevelsPropagated
  <2>3. CASE ~(k < current_decision_level)
    <3>1. k = current_decision_level /\ pc = "decide"
      BY <2>1, <2>3
    <3>2. ~IsPending(assignment, clauses[n])
      BY <3>1 DEF PropagationInv, PassSound
    <3>3. \A i \in DOMAIN clauses[n] :
              assignment[Value(clauses[n][i])] = AtLevel(k)[Value(clauses[n][i])]
      BY <2>1, <3>1, TopLevel, DatabaseClause
    <3> QED
      BY <3>2, <3>3, PendingAgrees
  <2> QED
    BY <2>2, <2>3
<1> QED
  BY <1>1, PropagationInductive, PTL

----------------------------------------------------------------------------
(***************************************************************************)
(* resolve_conflict ends at the bottom of the trail or when one occurrence *)
(* of the level is left; either way one variable of the level is left.     *)
(***************************************************************************)
LEMMA ResolvedPoint ==
    ASSUME PropagationInv
    PROVE  UniqueImplicationPoint
<1> USE DEF PropagationInv, LevelsInv
<1> SUFFICES ASSUME Resolved, current_decision_level > 0
             PROVE  /\ \E v \in Vars : CurrentVars = {v}
                    /\ backtrack_level < current_decision_level
  BY DEF UniqueImplicationPoint, CurrentVars, OfLevel
<1>1. /\ pc = "resolve" /\ trail_index \in Nat
      /\ ~ManyLeft \/ trail_index = 0
      /\ current_decision_level \in Nat /\ learned \subseteq Literals
  BY DEF Resolved, Resolving, IInv, TypeOK
<1>2. /\ CurrentVars # {}
      /\ backtrack_level # 0 => backtrack_level < current_decision_level
      /\ \/ \A v \in CurrentVars : \E i \in 1..(trail_index + 1) : trail[i] = v
         \/ \E v \in Vars : CurrentVars = {v}
  BY <1>1 DEF AnalysisOpen
<1>3. CurrentVars \subseteq Vars
  BY <1>1 DEF CurrentVars, OfLevel, OfCurrentLevel, Literals, LiteralsOver
<1>4. \A v, w \in CurrentVars : v = w
  <2>1. CASE ~ManyLeft
    <3>1. {q[1] : q \in current_level_vars} = CurrentVars
      BY <1>1 DEF IInv, AnalysisSound, CurrentVars, OfLevel
    <3>2. \A p, q \in current_level_vars : p = q
      BY <2>1 DEF ManyLeft
    <3> QED
      BY <3>1, <3>2
  <2>2. CASE trail_index = 0
    <3>1. \A i \in 1..(trail_index + 1) : i = 1
      BY <2>2
    <3> QED
      BY <1>2, <3>1
  <2> QED
    BY <1>1, <2>1, <2>2
<1>5. \E v \in Vars : CurrentVars = {v}
  BY <1>2, <1>3, <1>4
<1>6. backtrack_level < current_decision_level
  BY <1>1, <1>2
<1> QED
  BY <1>5, <1>6

(***************************************************************************)
(* Above level 0, conflict analysis ends on a unique implication point,    *)
(* for every formula and every order of decisions.                         *)
(***************************************************************************)
THEOREM ImplicationPointUnique == Spec => []UniqueImplicationPoint
BY ResolvedPoint, PropagationInductive, PTL

(***************************************************************************)
(* A sequence that repeats an element is longer than its set of elements.  *)
(***************************************************************************)
LEMMA RepeatsAreLonger ==
    ASSUME NEW U, NEW c \in Seq(U), NEW p \in DOMAIN c, NEW q \in DOMAIN c, p # q, c[p] = c[q]
    PROVE  Len(c) > Cardinality(LitsOf(c))
<1> DEFINE D == DOMAIN c
           E == D \ {q}
<1>1. D = 1..Len(c) /\ Len(c) \in Nat
  BY LenProperties
<1>2. IsFiniteSet(D) /\ Cardinality(D) = Len(c)
  <2>1. PICK n \in Nat : n = Len(c)
    BY <1>1
  <2>2. IsFiniteSet(1..n) /\ Cardinality(1..n) = n
    BY FS_Interval
  <2> QED
    BY <1>1, <2>1, <2>2
<1>3. IsFiniteSet(E) /\ Cardinality(E) = Len(c) - 1
  BY <1>2, FS_RemoveElement
<1>4. [i \in E |-> c[i]] \in Surjection(E, LitsOf(c))
  BY DEF Surjection, LitsOf
<1>5. Cardinality(LitsOf(c)) <= Cardinality(E) /\ IsFiniteSet(LitsOf(c))
  BY <1>3, <1>4, FS_Surjection
<1> QED
  BY <1>1, <1>3, <1>5, FS_CardinalityType

(***************************************************************************)
(* The clause that resolve_conflict learns is new: propagation would have  *)
(* stopped, one level earlier, at a clause with the same literals, unless  *)
(* that clause repeats the literal of the implication point.               *)
(***************************************************************************)
LEMMA LearnedIsNew ==
    ASSUME PropagationInv, [Next]_vars,
           NEW k \in DOMAIN clauses, Len(clauses') > Len(clauses), LitsOf(clauses[k]) = learned
    PROVE  Len(clauses[k]) > Cardinality(learned)
<1> USE DEF PropagationInv, LevelsInv
<1>1. LearnAndBacktrack
  <2>1. ~(Len(clauses) > Len(clauses))
    BY DEF IInv, TypeOK
  <2> QED
    BY <2>1
    DEF Next, Step, CallSolve, Iterate, Restart, SkipClause, PropagateUnit, FindConflict,
        EndPass, StepDownTrail, ResolveAntecedent, ReturnUnsatisfiable, MakeDecision,
        CheckSolution, Finished
<1>2. /\ pc = "resolve" /\ Resolved /\ ~IsRefuted
      /\ current_decision_level \in Nat /\ backtrack_level \in Nat
      /\ learned \subseteq Literals
  BY <1>1 DEF LearnAndBacktrack, Resolved, IInv, TypeOK
<1>3. current_decision_level > 0
  BY <1>2 DEF IsRefuted, AnalysisOpen
<1>4. PICK v \in Vars : CurrentVars = {v}
  BY <1>2, <1>3, ResolvedPoint DEF UniqueImplicationPoint, CurrentVars, OfLevel
<1> DEFINE c == clauses[k]
<1>5. /\ c \in Seq(Literals)
      /\ \A i \in DOMAIN c : c[i] \in learned /\ c[i] \in Int /\ LitFalse(assignment, c[i])
  BY <1>2, DatabaseClause DEF LitsOf, IInv, AnalysisSound
<1>6. PICK p, q \in DOMAIN c : /\ p # q
                               /\ decision_level[Value(c[p])] = current_decision_level
                               /\ decision_level[Value(c[q])] = current_decision_level
  BY <1>3, <1>5, TwoPositions
<1>7. Value(c[p]) = v /\ Value(c[q]) = v
  BY <1>4, <1>5, <1>6 DEF CurrentVars, OfLevel, OfCurrentLevel
<1>8. c[p] = c[q]
  BY <1>5, <1>7, FalseLiteralUnique
<1> HIDE DEF c
<1>9. Len(c) > Cardinality(LitsOf(c))
  BY <1>5, <1>6, <1>8, RepeatsAreLonger
<1> QED
  BY <1>9 DEF c

(***************************************************************************)
(* Every clause that is learned is new, so the search cannot go round.     *)
(***************************************************************************)
THEOREM LearningProgresses == Spec => LearnsNewClauses
<1>1. PropagationInv /\ [Next]_vars =>
          [\A k \in DOMAIN clauses :
              Len(clauses') > Len(clauses) /\ LitsOf(clauses[k]) = learned
                 => Len(clauses[k]) > Cardinality(learned)]_vars
  BY LearnedIsNew
<1> QED
  BY <1>1, PropagationInductive, PTL DEF Spec, LearnsNewClauses

----------------------------------------------------------------------------
(***************************************************************************)
(* Why the loops of solve_sat end: what is left to do, most significant    *)
(* part first.  A clause that is learned adds a set of literals that no    *)
(* clause has, and there are finitely many; until the next one, each part  *)
(* bounds the steps that leave the parts before it alone.                  *)
(***************************************************************************)
KnownSets ==
    {LitsOf(clauses[k]) :
        k \in {n \in DOMAIN clauses : Len(clauses[n]) = Cardinality(LitsOf(clauses[n]))}}

SetsLeft     == Cardinality((SUBSET Literals) \ KnownSets)
AnswersLeft  == IF Len(results) < expected THEN expected - Len(results) ELSE 0
ConflictLeft == IF pc = "idle" THEN 0 ELSE IF pc = "resolve" THEN 1 ELSE 2
RestartLeft  == IF conflict_count_since_last_restart >= restart_threshold THEN 1 ELSE 0
VarsLeft     == Cardinality({v \in Vars : ~IsAssigned(v)})
PhasesLeft   == IF pc = "loop" THEN 2 ELSE IF pc = "propagate" THEN 1 ELSE 0
PassesLeft   == IF propagated > 0 THEN 1 ELSE 0
VisitsLeft   == IF pc = "resolve" THEN trail_index
                ELSE IF scan <= Len(clauses) THEN Len(clauses) + 1 - scan ELSE 0

Measure == <<SetsLeft, AnswersLeft, ConflictLeft, RestartLeft,
             VarsLeft, PhasesLeft, PassesLeft, VisitsLeft>>

Measures == [1..8 -> Nat]
NatOrder == {p \in Nat \X Nat : p[1] < p[2]}
MeasureOrder == LexProductOrdering(NatOrder, Nat, 8)

(***************************************************************************)
(* The lexicographic order of the measures is well-founded.                *)
(***************************************************************************)
LEMMA MeasureWellFounded == IsWellFoundedOn(MeasureOrder, Measures)
<1>1. IsWellFoundedOn(NatOrder, Nat)
  BY NatLessThanWellFounded DEF OpToRel, NatOrder
<1>2. PICK n \in Nat : n = 8
  OBVIOUS
<1>3. IsWellFoundedOn(LexProductOrdering(NatOrder, Nat, n), [1..n -> Nat])
  BY <1>1, WFLexProductOrdering
<1> QED
  BY <1>2, <1>3 DEF MeasureOrder, Measures

(***************************************************************************)
(* A measure is lower when a part is and those before it are the same.     *)
(***************************************************************************)
LEMMA LowerMeasure ==
    ASSUME NEW m \in Measures, NEW n \in Measures,
           NEW i \in 1..8, m[i] < n[i], \A j \in 1..(i - 1) : m[j] = n[j]
    PROVE  <<m, n>> \in MeasureOrder
<1>1. <<m[i], n[i]>> \in NatOrder
  BY DEF NatOrder, Measures
<1> QED
  BY <1>1 DEF MeasureOrder, LexProductOrdering, Measures

LEMMA LiteralsFinite ==
    ASSUME TypeOK
    PROVE  IsFiniteSet(Literals) /\ IsFiniteSet((SUBSET Literals) \ KnownSets)
<1> DEFINE negated == {-v : v \in Vars}
<1>1. IsFiniteSet(Vars)
  BY VarsFinite DEF TypeOK, Vars
<1>2. Vars \subseteq Int
  BY DEF TypeOK, WellFormedModel, Vars, VarsOf
<1>3. IsFiniteSet(negated)
  <2>1. [v \in Vars |-> -v] \in Surjection(Vars, negated)
    BY DEF Surjection
  <2> HIDE DEF negated
  <2> QED
    BY <1>1, <2>1, FS_Surjection
<1>4. Literals \subseteq Vars \cup negated
  BY DEF Literals, LiteralsOver, Value
<1>5. IsFiniteSet(Literals)
  <2> HIDE DEF negated
  <2> QED
    BY <1>1, <1>3, <1>4, FS_Union, FS_Subset
<1> QED
  BY <1>5, FS_SUBSET, FS_Difference

LEMMA MeasureType ==
    ASSUME TypeOK
    PROVE  Measure \in Measures
<1>1. SetsLeft \in Nat
  BY LiteralsFinite, FS_CardinalityType DEF SetsLeft
<1>2. VarsLeft \in Nat
  <2>1. IsFiniteSet(Vars)
    BY VarsFinite DEF TypeOK, Vars
  <2> DEFINE free == {v \in Vars : ~IsAssigned(v)}
  <2>2. free \subseteq Vars
    OBVIOUS
  <2> HIDE DEF free
  <2>3. Cardinality(free) \in Nat
    BY <2>1, <2>2, FS_Subset, FS_CardinalityType
  <2> QED
    BY <2>3 DEF free, VarsLeft
<1>3. AnswersLeft \in Nat
  BY DEF TypeOK, AnswersLeft
<1>4. ConflictLeft \in Nat /\ RestartLeft \in Nat /\ PhasesLeft \in Nat /\ PassesLeft \in Nat
  BY DEF ConflictLeft, RestartLeft, PhasesLeft, PassesLeft
<1>5. VisitsLeft \in Nat
  BY DEF TypeOK, VisitsLeft
<1> QED
  BY <1>1, <1>2, <1>3, <1>4, <1>5 DEF Measure, Measures

LEMMA LowerPart ==
    ASSUME Measure \in Measures, Measure' \in Measures,
           \/ SetsLeft' < SetsLeft
           \/ /\ SetsLeft' = SetsLeft
              /\ \/ AnswersLeft' < AnswersLeft
                 \/ /\ AnswersLeft' = AnswersLeft
                    /\ \/ ConflictLeft' < ConflictLeft
                       \/ /\ ConflictLeft' = ConflictLeft
                          /\ \/ RestartLeft' < RestartLeft
                             \/ /\ RestartLeft' = RestartLeft
                                /\ \/ VarsLeft' < VarsLeft
                                   \/ /\ VarsLeft' = VarsLeft
                                      /\ \/ PhasesLeft' < PhasesLeft
                                         \/ /\ PhasesLeft' = PhasesLeft
                                            /\ \/ PassesLeft' < PassesLeft
                                               \/ /\ PassesLeft' = PassesLeft
                                                  /\ VisitsLeft' < VisitsLeft
    PROVE  <<Measure', Measure>> \in MeasureOrder
<1> DEFINE Same(n) == \A j \in 1..n : Measure'[j] = Measure[j]
           Lower(n) == Measure'[n] < Measure[n]
<1>1. \/ Lower(1)
      \/ Lower(2) /\ Same(1)
      \/ Lower(3) /\ Same(2)
      \/ Lower(4) /\ Same(3)
      \/ Lower(5) /\ Same(4)
      \/ Lower(6) /\ Same(5)
      \/ Lower(7) /\ Same(6)
      \/ Lower(8) /\ Same(7)
  BY DEF Measure
<1>2. \E i \in 1..8 : Measure'[i] < Measure[i] /\ \A j \in 1..(i - 1) : Measure'[j] = Measure[j]
  BY <1>1
<1> QED
  BY <1>2, LowerMeasure

LEMMA SameSets ==
    ASSUME [Next]_vars, UNCHANGED clauses
    PROVE  SetsLeft' = SetsLeft
BY ModelConstant DEF SetsLeft, KnownSets

LEMMA SameVars ==
    ASSUME [Next]_vars, UNCHANGED assignment
    PROVE  VarsLeft' = VarsLeft
BY ModelConstant DEF VarsLeft, IsAssigned

(***************************************************************************)
(* Assigning a variable that was free leaves fewer.                        *)
(***************************************************************************)
LEMMA FewerVars ==
    ASSUME TypeOK, [Next]_vars, NEW v \in Vars, ~IsAssigned(v), NEW x \in {On, Off},
           assignment' = [assignment EXCEPT ![v] = x]
    PROVE  VarsLeft' < VarsLeft
<1> DEFINE free == {w \in Vars : ~IsAssigned(w)}
<1>1. IsFiniteSet(Vars) /\ assignment \in [Vars -> Assignments] /\ Vars' = Vars
  BY VarsFinite, ModelConstant DEF TypeOK, Vars
<1>2. free' = free \ {v} /\ v \in free /\ free \subseteq Vars
  BY <1>1 DEF IsAssigned, On, Off, NotAssigned
<1>3. VarsLeft = Cardinality(free) /\ VarsLeft' = Cardinality(free')
  BY DEF VarsLeft
<1> HIDE DEF free
<1>4. IsFiniteSet(free)
  BY <1>1, <1>2, FS_Subset
<1>5. Cardinality(free \ {v}) = Cardinality(free) - 1 /\ Cardinality(free) \in Nat
  BY <1>2, <1>4, FS_RemoveElement, FS_CardinalityType
<1> QED
  BY <1>2, <1>3, <1>5

(***************************************************************************)
(* While a call of solve is under way, answers are still to be found.      *)
(***************************************************************************)
Answering == pc # "idle" => Len(results) < expected

MeasureInv == PropagationInv /\ Answering

LEMMA MeasureInvInductive == Spec => []MeasureInv
<1>1. Init => Answering
  BY DEF Init, Answering
<1>2. ASSUME PropagationInv, Answering, [Next]_vars PROVE Answering'
  <2>1. results \in Seq(Seq(Int)) /\ expected \in Int /\ TypeOK'
    BY <1>2, TypeStep DEF PropagationInv, LevelsInv, IInv, TypeOK
  <2>2. CASE CallSolve
    BY <2>1, <2>2 DEF CallSolve, Answering, TypeOK
  <2>3. CASE CheckSolution
    <3>1. Solution \in Seq(Int)
      BY <1>2, SolutionType DEF PropagationInv, LevelsInv
    <3> QED
      BY <1>2, <2>1, <2>3, <3>1 DEF CheckSolution, Answering
  <2>4. CASE UNCHANGED <<expected, results>> /\ (pc = "idle" => pc' = "idle")
    BY <1>2, <2>4 DEF Answering
  <2> QED
    BY <1>2, <2>2, <2>3, <2>4
    DEF Next, Step, Iterate, Restart, StartPropagation, SkipClause, Visiting, PropagateUnit,
        FindConflict, EndPass, StepDownTrail, Resolving, ResolveAntecedent, ReturnUnsatisfiable,
        LearnAndBacktrack, Resolved, MakeDecision, Finished
<1> QED
  BY <1>1, <1>2, PropagationInductive, PTL DEF Spec, MeasureInv

----------------------------------------------------------------------------
(***************************************************************************)
(* The steps that do not learn and do not change the results lower one of  *)
(* the later parts and keep those before it.                               *)
(***************************************************************************)
LEMMA LoopStepLowers ==
    ASSUME TypeOK, Measure' \in Measures, Iterate \/ Restart, restart_threshold' # 0
    PROVE  <<Measure', Measure>> \in MeasureOrder
<1>1. Measure \in Measures /\ [Next]_vars
  BY MeasureType DEF Next, Step
<1>2. /\ SetsLeft' = SetsLeft /\ AnswersLeft' = AnswersLeft /\ ConflictLeft' = ConflictLeft
  BY <1>1, SameSets DEF Iterate, Restart, StartPropagation, AnswersLeft, ConflictLeft
<1>3. CASE Iterate
  <2>1. VarsLeft' = VarsLeft
    BY <1>1, <1>3, SameVars DEF Iterate
  <2>2. RestartLeft' = RestartLeft /\ PhasesLeft' < PhasesLeft
    BY <1>3 DEF Iterate, StartPropagation, RestartLeft, PhasesLeft
  <2> QED
    BY <1>1, <1>2, <2>1, <2>2, LowerPart
<1>4. CASE Restart
  <2>1. /\ restart_threshold \in Nat
        /\ restart_threshold' \in Nat
    BY <1>1, <1>4, ConfigurationAssumption DEF TypeOK, Restart, NextThreshold
  <2>2. RestartLeft' < RestartLeft
    BY <1>4, <2>1 DEF Restart, RestartLeft
  <2> QED
    BY <1>1, <1>2, <2>2, LowerPart
<1> QED
  BY <1>3, <1>4

LEMMA PassStepLowers ==
    ASSUME TypeOK, Measure' \in Measures, SkipClause \/ PropagateUnit \/ FindConflict \/ EndPass
    PROVE  <<Measure', Measure>> \in MeasureOrder
<1>1. Measure \in Measures /\ [Next]_vars
  BY MeasureType DEF Next, Step
<1>2. SetsLeft' = SetsLeft /\ AnswersLeft' = AnswersLeft
  BY <1>1, SameSets DEF SkipClause, PropagateUnit, FindConflict, EndPass, AnswersLeft
<1>3. CASE SkipClause
  <2>1. VarsLeft' = VarsLeft
    BY <1>1, <1>3, SameVars DEF SkipClause
  <2>2. /\ ConflictLeft' = ConflictLeft /\ RestartLeft' = RestartLeft
        /\ PhasesLeft' = PhasesLeft /\ PassesLeft' = PassesLeft
    BY <1>3 DEF SkipClause, ConflictLeft, RestartLeft, PhasesLeft, PassesLeft
  <2>3. VisitsLeft' < VisitsLeft
    BY <1>3 DEF SkipClause, Visiting, VisitsLeft, TypeOK
  <2> QED
    BY <1>1, <1>2, <2>1, <2>2, <2>3, LowerPart
<1>4. CASE PropagateUnit
  <2>1. PICK i \in DOMAIN clauses[scan] :
            /\ Unassigned(assignment, clauses[scan]) = {i}
            /\ assignment' = [assignment EXCEPT ![Value(clauses[scan][i])] =
                                 Polarity(clauses[scan][i])]
    BY <1>4 DEF PropagateUnit
  <2> DEFINE v == Value(clauses[scan][i])
             x == Polarity(clauses[scan][i])
  <2>2. v \in Vars
    <3>1. scan \in DOMAIN clauses /\ clauses \in Seq(Seq(Literals))
      BY <1>4 DEF PropagateUnit, Visiting, TypeOK
    <3>2. clauses[scan] \in Seq(Literals)
      BY <3>1
    <3>3. clauses[scan][i] \in Literals
      BY <3>2
    <3> QED
      BY <3>3 DEF Literals, LiteralsOver
  <2>3. ~IsAssigned(v) /\ x \in {On, Off}
    BY <2>1 DEF Unassigned, IsAssigned, Polarity
  <2>4. assignment' = [assignment EXCEPT ![v] = x]
    BY <2>1
  <2> HIDE DEF v, x
  <2>5. VarsLeft' < VarsLeft
    BY <1>1, <2>2, <2>3, <2>4, FewerVars
  <2>6. ConflictLeft' = ConflictLeft /\ RestartLeft' = RestartLeft
    BY <1>4 DEF PropagateUnit, ConflictLeft, RestartLeft
  <2> QED
    BY <1>1, <1>2, <2>5, <2>6, LowerPart
<1>5. CASE FindConflict
  <2>1. ConflictLeft' < ConflictLeft
    BY <1>5 DEF FindConflict, Visiting, ConflictLeft
  <2> QED
    BY <1>1, <1>2, <2>1, LowerPart
<1>6. CASE EndPass
  <2>1. VarsLeft' = VarsLeft
    BY <1>1, <1>6, SameVars DEF EndPass
  <2>2. /\ ConflictLeft' = ConflictLeft /\ RestartLeft' = RestartLeft
        /\ \/ PhasesLeft' < PhasesLeft
           \/ PhasesLeft' = PhasesLeft /\ PassesLeft' < PassesLeft
    BY <1>6 DEF EndPass, PassAgain, StartPropagation,
                ConflictLeft, RestartLeft, PhasesLeft, PassesLeft
  <2> QED
    BY <1>1, <1>2, <2>1, <2>2, LowerPart
<1> QED
  BY <1>3, <1>4, <1>5, <1>6

LEMMA AnalysisStepLowers ==
    ASSUME TypeOK, Measure' \in Measures,
           StepDownTrail \/ ResolveAntecedent \/ ReturnUnsatisfiable
    PROVE  <<Measure', Measure>> \in MeasureOrder
<1>1. Measure \in Measures /\ [Next]_vars
  BY MeasureType DEF Next, Step
<1>2. SetsLeft' = SetsLeft /\ AnswersLeft' = AnswersLeft
  BY <1>1, SameSets DEF StepDownTrail, ResolveAntecedent, ReturnUnsatisfiable, AnswersLeft
<1>3. CASE StepDownTrail \/ ResolveAntecedent
  <2>1. VarsLeft' = VarsLeft
    BY <1>1, <1>3, SameVars DEF StepDownTrail, ResolveAntecedent
  <2>2. /\ ConflictLeft' = ConflictLeft /\ RestartLeft' = RestartLeft
        /\ PhasesLeft' = PhasesLeft /\ PassesLeft' = PassesLeft
    BY <1>3 DEF StepDownTrail, ResolveAntecedent,
                ConflictLeft, RestartLeft, PhasesLeft, PassesLeft
  <2>3. VisitsLeft' < VisitsLeft
    BY <1>3 DEF StepDownTrail, ResolveAntecedent, Resolving, VisitsLeft, TypeOK
  <2> QED
    BY <1>1, <1>2, <2>1, <2>2, <2>3, LowerPart
<1>4. CASE ReturnUnsatisfiable
  <2>1. ConflictLeft' < ConflictLeft
    BY <1>4 DEF ReturnUnsatisfiable, Resolved, ConflictLeft
  <2> QED
    BY <1>1, <1>2, <2>1, LowerPart
<1> QED
  BY <1>3, <1>4

LEMMA DecisionLowers ==
    ASSUME TypeOK, Measure' \in Measures, MakeDecision
    PROVE  <<Measure', Measure>> \in MeasureOrder
<1>1. Measure \in Measures /\ [Next]_vars
  BY MeasureType DEF Next, Step
<1>2. SetsLeft' = SetsLeft
  BY <1>1, SameSets DEF MakeDecision
<1>3. AnswersLeft' = AnswersLeft /\ ConflictLeft' = ConflictLeft /\ RestartLeft' = RestartLeft
  BY DEF MakeDecision, AnswersLeft, ConflictLeft, RestartLeft
<1>4. PICK i \in UnassignedVars :
          assignment' = [assignment EXCEPT ![model.literals[i]] = On]
  BY DEF MakeDecision
<1>5. model.literals[i] \in Vars /\ ~IsAssigned(model.literals[i])
  BY DEF UnassignedVars, Vars, VarsOf, IsAssigned
<1>6. VarsLeft' < VarsLeft
  BY <1>1, <1>4, <1>5, FewerVars
<1> QED
  BY <1>1, <1>2, <1>3, <1>6, LowerPart

(***************************************************************************)
(* An answer is found whenever no variable is left to decide: propagation  *)
(* is complete, so no clause is falsified.                                 *)
(***************************************************************************)
LEMMA AnswerLowers ==
    ASSUME MeasureInv, Measure' \in Measures, CheckSolution, model.literals # << >>
    PROVE  <<Measure', Measure>> \in MeasureOrder
<1> USE DEF MeasureInv, PropagationInv, LevelsInv
<1>1. TypeOK /\ Measure \in Measures /\ [Next]_vars
  BY MeasureType DEF IInv, Next, Step
<1>2. SetsLeft' = SetsLeft
  BY <1>1, SameSets DEF CheckSolution
<1>3. IsSatSolved
  <2>1. pc = "decide" /\ UnassignedVars = {}
    BY DEF CheckSolution
  <2>2. \A v \in Vars : assignment[v] # NotAssigned
    BY <2>1 DEF UnassignedVars, Vars, VarsOf
  <2>3. ASSUME NEW k \in DOMAIN clauses PROVE IsClauseSatisfied(assignment, clauses[k])
    <3>1. ~IsPending(assignment, clauses[k])
      BY <2>1 DEF PassSound
    <3>2. Unassigned(assignment, clauses[k]) = {}
      BY <2>2, DatabaseClause DEF Unassigned
    <3> QED
      BY <3>1, <3>2 DEF IsPending
  <2> QED
    BY <2>3 DEF IsSatSolved
<1>4. Len(results) < expected /\ results \in Seq(Seq(Int)) /\ expected \in Int
  BY <1>1 DEF CheckSolution, Answering, TypeOK
<1>5. results' = Append(results, Solution) /\ expected' = expected /\ Solution \in Seq(Int)
  BY <1>3, SolutionType DEF CheckSolution
<1>6. AnswersLeft' < AnswersLeft
  BY <1>4, <1>5 DEF AnswersLeft
<1> QED
  BY <1>1, <1>2, <1>6, LowerPart

(***************************************************************************)
(* A sorted clause repeats no literal.                                     *)
(***************************************************************************)
LEMMA SortedUniqueLength ==
    ASSUME IInv, pc = "resolve", NEW c \in SortedUnique(learned)
    PROVE  Len(c) = Cardinality(LitsOf(c))
<1> DEFINE D == DOMAIN c
           f == [i \in D |-> c[i]]
<1>1. c \in Seq(Literals)
  BY SortedUniqueClause
<1>2. D = 1..Len(c) /\ Len(c) \in Nat
  BY <1>1
<1>3. \A i \in D : Value(c[i]) \in Int
  BY <1>1 DEF Literals, LiteralsOver, Value
<1>4. \A i, j \in D : i < j => Value(c[i]) < Value(c[j])
  BY DEF SortedUnique
<1>5. \A i, j \in D : c[i] = c[j] => i = j
  BY <1>2, <1>3, <1>4
<1>6. f \in Surjection(D, LitsOf(c))
  BY DEF Surjection, LitsOf
<1>7. f \in Injection(D, LitsOf(c))
  BY <1>5, <1>6 DEF Surjection, Injection, IsInjective
<1>8. IsFiniteSet(D) /\ Cardinality(D) = Len(c)
  <2>1. PICK n \in Nat : n = Len(c)
    BY <1>2
  <2>2. IsFiniteSet(1..n) /\ Cardinality(1..n) = n
    BY FS_Interval
  <2> QED
    BY <1>2, <2>1, <2>2
<1> HIDE DEF D, f
<1> QED
  BY <1>6, <1>7, <1>8, FS_Surjection

(***************************************************************************)
(* A clause that is learned takes its set of literals from those left.     *)
(***************************************************************************)
LEMMA LearningLowers ==
    ASSUME MeasureInv, Measure' \in Measures, LearnAndBacktrack
    PROVE  <<Measure', Measure>> \in MeasureOrder
<1> USE DEF MeasureInv, PropagationInv, LevelsInv
<1>1. TypeOK /\ Measure \in Measures /\ [Next]_vars
  BY MeasureType DEF IInv, Next, Step
<1>2. PICK c \in SortedUnique(learned) : clauses' = Append(clauses, c)
  BY DEF LearnAndBacktrack, LearnAdditionalClause
<1>3. c \in Seq(Literals) /\ LitsOf(c) = learned /\ Len(c) = Cardinality(learned)
  BY SortedUniqueClause, SortedUniqueLength DEF LearnAndBacktrack, Resolved
<1>4. /\ Len(clauses) \in Nat /\ Len(clauses') = Len(clauses) + 1
      /\ DOMAIN clauses = 1..Len(clauses) /\ DOMAIN clauses' = 1..(Len(clauses) + 1)
      /\ \A k \in DOMAIN clauses : clauses'[k] = clauses[k]
      /\ clauses'[Len(clauses) + 1] = c
  BY <1>1, <1>2, <1>3 DEF TypeOK
<1>5. KnownSets \subseteq KnownSets'
  <2> SUFFICES ASSUME NEW k \in DOMAIN clauses,
                      Len(clauses[k]) = Cardinality(LitsOf(clauses[k]))
               PROVE  LitsOf(clauses[k]) \in KnownSets'
    BY DEF KnownSets
  <2>1. k \in DOMAIN clauses' /\ clauses'[k] = clauses[k]
    BY <1>4
  <2> QED
    BY <2>1 DEF KnownSets
<1>6. learned \in KnownSets'
  <2>1. Len(clauses) + 1 \in DOMAIN clauses' /\ clauses'[Len(clauses) + 1] = c
    BY <1>4
  <2> QED
    BY <1>3, <2>1 DEF KnownSets
<1>7. learned \notin KnownSets
  <2> SUFFICES ASSUME NEW k \in DOMAIN clauses, LitsOf(clauses[k]) = learned,
                      Len(clauses[k]) = Cardinality(learned)
               PROVE  FALSE
    BY DEF KnownSets
  <2>1. Len(clauses') > Len(clauses)
    BY <1>4
  <2>2. Len(clauses[k]) > Cardinality(learned)
    BY <1>1, <2>1, LearnedIsNew
  <2>3. Len(clauses[k]) \in Nat
    BY DatabaseClause
  <2> QED
    BY <2>2, <2>3
<1> DEFINE left == (SUBSET Literals) \ KnownSets
<1>8. learned \in left /\ left' \subseteq left \ {learned}
  <2>1. learned \in SUBSET Literals /\ Literals' = Literals
    BY <1>1, ModelConstant DEF TypeOK
  <2>2. learned \in left
    BY <1>7, <2>1
  <2>3. left' = (SUBSET Literals) \ KnownSets'
    BY <2>1
  <2> QED
    BY <1>5, <1>6, <2>2, <2>3
<1>9. IsFiniteSet(left)
  BY <1>1, LiteralsFinite
<1>10. SetsLeft = Cardinality(left) /\ SetsLeft' = Cardinality(left')
  BY DEF SetsLeft
<1> HIDE DEF left
<1>11. /\ Cardinality(left \ {learned}) = Cardinality(left) - 1 /\ Cardinality(left) \in Nat
       /\ IsFiniteSet(left \ {learned})
  BY <1>8, <1>9, FS_RemoveElement, FS_CardinalityType
<1>12. Cardinality(left') <= Cardinality(left \ {learned}) /\ Cardinality(left') \in Nat
  BY <1>8, <1>11, FS_Subset, FS_CardinalityType
<1>13. SetsLeft' < SetsLeft
  BY <1>10, <1>11, <1>12
<1> QED
  BY <1>1, <1>13, LowerPart

(***************************************************************************)
(* Every step of a call of solve lowers the measure, which is well-founded *)
(* (MeasureWellFounded), so a call takes finitely many steps whatever the  *)
(* formula, unless a restart multiplies its threshold to 0, in uint32, or  *)
(* the model has no variable.                                              *)
(***************************************************************************)
THEOREM StepsLowerMeasure ==
    Spec => /\ [](Measure \in Measures)
            /\ [][Step /\ restart_threshold' # 0 /\ model.literals # << >>
                    => <<Measure', Measure>> \in MeasureOrder]_vars
<1>1. MeasureInv => Measure \in Measures
  BY MeasureType DEF MeasureInv, PropagationInv, LevelsInv, IInv
<1>2. ASSUME MeasureInv, Measure' \in Measures, Step,
             restart_threshold' # 0, model.literals # << >>
      PROVE  <<Measure', Measure>> \in MeasureOrder
  <2>1. TypeOK
    BY <1>2 DEF MeasureInv, PropagationInv, LevelsInv, IInv
  <2> QED
    BY <1>2, <2>1, LoopStepLowers, PassStepLowers, AnalysisStepLowers, LearningLowers,
       DecisionLowers, AnswerLowers
    DEF Step
<1>3. MeasureInv /\ (Measure \in Measures)' =>
          [Step /\ restart_threshold' # 0 /\ model.literals # << >>
             => <<Measure', Measure>> \in MeasureOrder]_vars
  BY <1>2
<1>4. Spec => [](Measure \in Measures)
  BY <1>1, MeasureInvInductive, PTL
<1>5. Spec => [][Step /\ restart_threshold' # 0 /\ model.literals # << >>
                   => <<Measure', Measure>> \in MeasureOrder]_vars
  BY <1>3, <1>4, MeasureInvInductive, PTL
<1> QED
  BY <1>4, <1>5
=============================================================================
