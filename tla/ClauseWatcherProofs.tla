------------------------ MODULE ClauseWatcherProofs ------------------------
(***************************************************************************)
(* Theorems about ClauseWatcher, for every clause and every sequence of    *)
(* assignments, unassignments and calls of replace.                        *)
(***************************************************************************)
EXTENDS ClauseWatcher, CnfProofs

(***************************************************************************)
(* What WatchesTwo needs at every moment, reported or not: an empty slot   *)
(* means that no other free variable is left.                              *)
(***************************************************************************)
EmptySlotIsNeeded ==
    NoRepeats /\ ~unassigned /\ ~thrown =>
        \/ watchers[1] # NoWatch /\ watchers[2] # NoWatch
        \/ FreeVars \subseteq Watched(watchers)

IInv == TypeOK /\ WatchesDiffer /\ WatchesFree /\ EmptySlotIsNeeded

----------------------------------------------------------------------------
\* The positions of a clause and its variables, none of which is 0.
LEMMA ClauseFacts ==
    ASSUME clause \in Seq(Int \ {0})
    PROVE  /\ DOMAIN clause \subseteq Nat
           /\ \A i \in DOMAIN clause : Value(clause[i]) \in ClauseVars
           /\ \A v \in ClauseVars : v \in Int /\ v # NoWatch
           /\ \A v \in ClauseVars : \E i \in DOMAIN clause : v = Value(clause[i])
BY DEF ClauseVars, LitsOf, Value, NoWatch

\* The constructor watches the first two free variables, or all of them.
LEMMA InitIInv == Init => IInv
<1> SUFFICES ASSUME Init PROVE IInv
  OBVIOUS
<1>1. clause \in Seq(Int \ {0})
  BY ClausesAssumption DEF Init
<1> DEFINE free == Unassigned(assignment, clause)
           rest == free \ {First(free)}
<1>2. free \subseteq DOMAIN clause /\ free \subseteq Nat
  BY <1>1, ClauseFacts DEF Unassigned
<1>3. free # {} => First(free) \in free
  BY <1>2, LeastExists
<1>4. rest # {} => First(rest) \in rest
  BY <1>2, LeastExists
<1>5. /\ watchers[1] = IF free = {} THEN NoWatch ELSE Value(clause[First(free)])
      /\ watchers[2] = IF free = {} \/ rest = {} THEN NoWatch ELSE Value(clause[First(rest)])
      /\ watchers = <<watchers[1], watchers[2]>>
  BY DEF Init, WatcherOf
<1>6. \A i \in free : Value(clause[i]) \in FreeVars
  BY <1>1, ClauseFacts DEF Unassigned, FreeVars
<1>7. \A v \in FreeVars : \E i \in free : v = Value(clause[i])
  BY <1>1, ClauseFacts DEF Unassigned, FreeVars
<1> HIDE DEF free
<1>8. TypeOK
  <2>1. \A s \in {1, 2} : watchers[s] \in ClauseVars \cup {NoWatch}
    BY <1>1, <1>2, <1>3, <1>4, <1>5, ClauseFacts
  <2>2. watchers \in (ClauseVars \cup {NoWatch}) \X (ClauseVars \cup {NoWatch})
    BY <1>5, <2>1
  <2> QED
    BY <1>1, <2>2 DEF Init, TypeOK
<1>9. WatchesDiffer
  BY <1>2, <1>3, <1>4, <1>5 DEF WatchesDiffer, NoRepeats, Watched
<1>10. WatchesFree
  BY <1>3, <1>4, <1>5, <1>6 DEF WatchesFree, Watched
<1>11. EmptySlotIsNeeded
  <2>1. CASE rest # {}
    <3>1. watchers[1] \in ClauseVars /\ watchers[2] \in ClauseVars
      BY <1>3, <1>4, <1>5, <1>6, <2>1 DEF FreeVars
    <3> QED
      BY <1>1, <3>1, ClauseFacts DEF EmptySlotIsNeeded
  <2>2. CASE rest = {}
    <3>1. \A v \in FreeVars : v = watchers[1]
      BY <1>3, <1>5, <1>7, <2>2
    <3>2. \A v \in FreeVars : v # NoWatch
      BY <1>1, ClauseFacts DEF FreeVars
    <3> QED
      BY <3>1, <3>2 DEF EmptySlotIsNeeded, Watched
  <2> QED
    BY <2>1, <2>2
<1> QED
  BY <1>8, <1>9, <1>10, <1>11 DEF IInv

LEMMA AssignIInv ==
    ASSUME IInv, NEW v \in ClauseVars, NEW polarity \in {On, Off}, Assign(v, polarity)
    PROVE  IInv'
<1> USE DEF Assign
<1>1. TypeOK'
  BY DEF IInv, TypeOK, ClauseVars, Assignments
<1>2. FreeVars' = FreeVars \ {v}
  BY DEF IInv, TypeOK, FreeVars, ClauseVars, On, Off, NotAssigned
<1>3. WatchesDiffer' /\ WatchesFree' /\ EmptySlotIsNeeded'
  BY <1>2 DEF IInv, WatchesDiffer, WatchesFree, EmptySlotIsNeeded, NoRepeats
<1> QED
  BY <1>1, <1>3 DEF IInv

LEMMA UnassignIInv ==
    ASSUME IInv, NEW v \in ClauseVars, Unassign(v)
    PROVE  IInv'
<1> USE DEF Unassign
<1>1. TypeOK'
  BY DEF IInv, TypeOK, ClauseVars, Assignments
<1>2. FreeVars' = FreeVars \cup {v}
  BY DEF IInv, TypeOK, FreeVars, ClauseVars
<1>3. WatchesDiffer' /\ WatchesFree' /\ EmptySlotIsNeeded'
  BY <1>2 DEF IInv, WatchesDiffer, WatchesFree, EmptySlotIsNeeded, NoRepeats
<1> QED
  BY <1>1, <1>3 DEF IInv

(***************************************************************************)
(* What replace does to the watched slot s: it watches a free variable     *)
(* that the other slot does not, or nothing when there is none.            *)
(***************************************************************************)
LEMMA ReplacedSlot ==
    ASSUME TypeOK, NEW v \in ClauseVars, v \in Watched(watchers)
    PROVE  \E s \in {1, 2}, x \in FreeVars \cup {NoWatch} :
              /\ watchers[s] = v
              /\ Replaced(v) = IF s = 1 THEN <<x, watchers[2]>> ELSE <<watchers[1], x>>
              /\ x # NoWatch => x # watchers[3 - s]
              /\ x = NoWatch => FreeVars \subseteq {watchers[3 - s]}
<1> DEFINE s == SlotOf(v)
           cs == Candidates(v)
           x == IF cs = {} THEN NoWatch ELSE Value(clause[First(cs)])
<1>1. s \in {1, 2} /\ watchers[s] = v
  BY DEF SlotOf, Watched
<1>2. clause \in Seq(Int \ {0})
  BY DEF TypeOK
<1>3. cs \subseteq DOMAIN clause /\ cs \subseteq Nat
  BY <1>2, ClauseFacts DEF Candidates, Unassigned
<1>4. cs # {} => First(cs) \in cs
  BY <1>3, LeastExists
<1>5. \A i \in cs : Value(clause[i]) \in FreeVars /\ Value(clause[i]) # watchers[3 - s]
  BY <1>2, ClauseFacts DEF Candidates, Unassigned, FreeVars
<1>6. cs = {} => FreeVars \subseteq {watchers[3 - s]}
  <2> SUFFICES ASSUME cs = {}, NEW f \in FreeVars PROVE f = watchers[3 - s]
    OBVIOUS
  <2>1. PICK i \in DOMAIN clause : f = Value(clause[i]) /\ assignment[f] = NotAssigned
    BY <1>2, ClauseFacts DEF FreeVars
  <2> QED
    BY <2>1 DEF Candidates, Unassigned
<1>7. Replaced(v) = [watchers EXCEPT ![s] = x]
  BY DEF Replaced
<1>8. \A f \in FreeVars : f # NoWatch
  BY <1>2, ClauseFacts DEF FreeVars
<1> HIDE DEF s, cs
<1>9. x \in FreeVars \cup {NoWatch}
  BY <1>4, <1>5
<1>10. x # NoWatch => x # watchers[3 - s]
  BY <1>4, <1>5
<1>11. x = NoWatch => FreeVars \subseteq {watchers[3 - s]}
  BY <1>4, <1>5, <1>6, <1>8
<1> HIDE DEF x
<1>12. Replaced(v) = IF s = 1 THEN <<x, watchers[2]>> ELSE <<watchers[1], x>>
  <2>1. watchers = <<watchers[1], watchers[2]>>
    BY DEF TypeOK
  <2>2. [<<watchers[1], watchers[2]>> EXCEPT ![1] = x] = <<x, watchers[2]>>
    OBVIOUS
  <2>3. [<<watchers[1], watchers[2]>> EXCEPT ![2] = x] = <<watchers[1], x>>
    OBVIOUS
  <2>4. CASE s = 1
    BY <1>7, <2>1, <2>2, <2>4
  <2>5. CASE s = 2
    BY <1>7, <2>1, <2>3, <2>5
  <2> QED
    BY <1>1, <2>4, <2>5
<1>13. s \in {1, 2}
  BY <1>1
<1> WITNESS s \in {1, 2}, x \in FreeVars \cup {NoWatch}
<1> QED
  BY <1>1, <1>10, <1>11, <1>12

LEMMA ReplaceIInv ==
    ASSUME IInv, NEW v \in ClauseVars, Replace(v)
    PROVE  IInv'
<1> USE DEF Replace
<1>1. UNCHANGED <<FreeVars, ClauseVars, NoRepeats>>
  BY DEF FreeVars, ClauseVars, NoRepeats
<1>2. CASE ReplaceThrows(v)
  BY <1>1, <1>2 DEF IInv, TypeOK, WatchesDiffer, WatchesFree, EmptySlotIsNeeded
<1>3. CASE ~ReplaceThrows(v) /\ v \notin Watched(watchers)
  <2>1. watchers' = watchers
    BY <1>3 DEF Replaced
  <2> QED
    BY <1>1, <1>3, <2>1
       DEF IInv, TypeOK, WatchesDiffer, WatchesFree, EmptySlotIsNeeded
<1>4. CASE ~ReplaceThrows(v) /\ v \in Watched(watchers)
  <2>1. PICK s \in {1, 2}, x \in FreeVars \cup {NoWatch} :
            /\ watchers[s] = v
            /\ Replaced(v) = IF s = 1 THEN <<x, watchers[2]>> ELSE <<watchers[1], x>>
            /\ x # NoWatch => x # watchers[3 - s]
            /\ x = NoWatch => FreeVars \subseteq {watchers[3 - s]}
    BY <1>4, ReplacedSlot DEF IInv
  <2> DEFINE other == watchers[3 - s]
  <2>2. /\ watchers'[s] = x /\ watchers'[3 - s] = other
        /\ watchers' = <<watchers'[1], watchers'[2]>>
        /\ Watched(watchers)' = {x, other} \ {NoWatch}
        /\ Watched(watchers) = {v, other} \ {NoWatch}
    BY <1>4, <2>1 DEF Watched
  <2>3. other \in ClauseVars \cup {NoWatch} /\ v # NoWatch /\ FreeVars \subseteq ClauseVars
    BY <1>4, <2>1 DEF IInv, TypeOK, Watched, FreeVars
  <2>4. /\ thrown' = thrown /\ unreported' = unreported \ {v}
        /\ UNCHANGED <<clause, assignment, unassigned>>
    BY <1>4
  <2>5. {watchers[1], watchers[2]} = {v, other} /\ {watchers'[1], watchers'[2]} = {x, other}
    BY <2>1, <2>2
  <2> HIDE DEF other
  <2>6. TypeOK'
    <3>1. watchers'[1] \in ClauseVars \cup {NoWatch} /\ watchers'[2] \in ClauseVars \cup {NoWatch}
      BY <2>1, <2>3, <2>5
    <3> QED
      BY <1>1, <2>2, <2>4, <3>1 DEF IInv, TypeOK
  <2>7. WatchesDiffer'
    BY <2>1, <2>2, <2>5 DEF WatchesDiffer, Watched, other
  <2>8. WatchesFree'
    <3> SUFFICES ASSUME NoRepeats, NEW w \in Watched(watchers)'
                 PROVE  w \in FreeVars \cup unreported'
      BY <1>1 DEF WatchesFree
    <3>1. CASE w = x
      BY <2>1, <2>2, <3>1
    <3>2. CASE w # x
      <4>1. w = other /\ w # NoWatch
        BY <2>2, <3>2
      <4>2. w # v
        BY <2>3, <2>5, <4>1, <2>1, <2>2 DEF IInv, WatchesDiffer, other
      <4>3. w \in FreeVars \cup unreported
        BY <2>2, <4>1 DEF IInv, WatchesFree
      <4> QED
        BY <2>4, <4>2, <4>3
    <3> QED
      BY <3>1, <3>2
  <2>9. EmptySlotIsNeeded'
    <3> SUFFICES ASSUME NoRepeats, ~unassigned, ~thrown, ~(x # NoWatch /\ other # NoWatch)
                 PROVE  FreeVars \subseteq {x, other} \ {NoWatch}
      BY <1>1, <2>2, <2>4, <2>5 DEF EmptySlotIsNeeded
    <3>1. \A f \in FreeVars : f # NoWatch
      BY ClauseFacts DEF IInv, TypeOK, FreeVars
    <3>2. CASE x = NoWatch
      BY <2>1, <3>1, <3>2 DEF other
    <3>3. CASE x # NoWatch /\ other = NoWatch
      <4>1. FreeVars \subseteq {v}
        BY <2>2, <2>5, <3>3 DEF IInv, EmptySlotIsNeeded
      <4> QED
        BY <2>1, <3>1, <3>3, <4>1
    <3> QED
      BY <3>2, <3>3
  <2> QED
    BY <2>6, <2>7, <2>8, <2>9 DEF IInv
<1> QED
  BY <1>2, <1>3, <1>4

LEMMA StepIInv == IInv /\ [Next]_vars => IInv'
<1> SUFFICES ASSUME IInv, [Next]_vars PROVE IInv'
  OBVIOUS
<1>1. CASE Next
  BY <1>1, AssignIInv, UnassignIInv, ReplaceIInv DEF Next
<1>2. CASE UNCHANGED vars
  BY <1>2 DEF vars, IInv, TypeOK, WatchesDiffer, WatchesFree, EmptySlotIsNeeded, NoRepeats,
              FreeVars, ClauseVars
<1> QED
  BY <1>1, <1>2

LEMMA Invariance == Spec => []IInv
BY InitIInv, StepIInv, PTL DEF Spec

----------------------------------------------------------------------------
(***************************************************************************)
(* A slot is empty or watches a variable of the clause.                    *)
(***************************************************************************)
THEOREM TypeCorrect == Spec => []TypeOK
<1>1. IInv => TypeOK
  BY DEF IInv
<1> QED
  BY Invariance, <1>1, PTL

(***************************************************************************)
(* replace never makes the two slots watch one variable.                   *)
(***************************************************************************)
THEOREM SlotsDiffer == Spec => []WatchesDiffer
<1>1. IInv => WatchesDiffer
  BY DEF IInv
<1> QED
  BY Invariance, <1>1, PTL

(***************************************************************************)
(* A watched variable is free unless its assignment was not reported.      *)
(***************************************************************************)
THEOREM WatchedFree == Spec => []WatchesFree
<1>1. IInv => WatchesFree
  BY DEF IInv
<1> QED
  BY Invariance, <1>1, PTL

(***************************************************************************)
(* Without unassignments, a watcher that is told of every assignment       *)
(* watches two variables, or all the free ones.                            *)
(***************************************************************************)
THEOREM WatchesEnough == Spec => []WatchesTwo
<1>1. IInv => WatchesTwo
  <2> SUFFICES ASSUME IInv, NoRepeats, ~unassigned, ~thrown, unreported = {},
                      Watched(watchers) # FreeVars
               PROVE  WatchCount(watchers) = 2
    BY DEF WatchesTwo
  <2>1. watchers[1] # NoWatch /\ watchers[2] # NoWatch
    BY DEF IInv, EmptySlotIsNeeded, WatchesFree
  <2>2. {s \in {1, 2} : watchers[s] # NoWatch} = {1, 2}
    BY <2>1
  <2>3. Cardinality({1, 2}) = 2
    <3>1. Cardinality({1}) = 1 /\ IsFiniteSet({1})
      BY FS_Singleton
    <3>2. {1, 2} = {1} \cup {2}
      OBVIOUS
    <3> QED
      BY <3>1, <3>2, FS_AddElement
  <2> QED
    BY <2>2, <2>3 DEF WatchCount
<1> QED
  BY Invariance, <1>1, PTL
=============================================================================
