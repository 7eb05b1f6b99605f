----------------------------- MODULE CnfProofs -----------------------------
(***************************************************************************)
(* Facts about literals, clauses and watchers that the proofs about the    *)
(* solver rest on.                                                         *)
(***************************************************************************)
EXTENDS Watching, FiniteSetTheorems, SequenceTheorems, WellFoundedInduction, TLAPS

(***************************************************************************)
(* A non-empty set of naturals has a least element.                        *)
(***************************************************************************)
LEMMA LeastExists ==
    ASSUME NEW S, S \subseteq Nat, S # {}
    PROVE  First(S) \in S /\ \A j \in S : First(S) <= j
<1> DEFINE R == {ss \in Nat \X Nat : ss[1] < ss[2]}
<1>1. IsWellFoundedOn(R, Nat)
  BY NatLessThanWellFounded DEF OpToRel
<1>2. \E x \in S : \A y \in S : ~(<<y, x>> \in R)
  <2> HIDE DEF R
  <2> QED
    BY <1>1, WFMin
<1>3. \A x, y \in Nat : <<y, x>> \in R <=> y < x
  OBVIOUS
<1>4. \E x \in S : \A y \in S : x <= y
  <2> HIDE DEF R
  <2>1. PICK x \in S : \A y \in S : ~(<<y, x>> \in R)
    BY <1>2
  <2>2. \A y \in S : ~(y < x)
    BY <2>1, <1>3
  <2> QED
    BY <2>2
<1> QED
  BY <1>4 DEF First

(***************************************************************************)
(* The variables of a well-formed model are finitely many.                 *)
(***************************************************************************)
LEMMA VarsFinite ==
    ASSUME NEW m, WellFormedModel(m)
    PROVE  IsFiniteSet(VarsOf(m))
<1>1. m.literals \in [1..Len(m.literals) -> Nat \ {0}] /\ Len(m.literals) \in Nat
  BY LenProperties DEF WellFormedModel
<1>2. m.literals \in Surjection(1..Len(m.literals), VarsOf(m))
  BY <1>1 DEF Surjection, VarsOf
<1> QED
  BY <1>1, <1>2, FS_Surjection, FS_Interval


(***************************************************************************)
(* A watcher holds variables of its clause, or nothing.                    *)
(***************************************************************************)
LEMMA WatcherType ==
    ASSUME NEW V, NEW a, NEW c \in Seq(LiteralsOver(V))
    PROVE  WatcherOf(a, c) \in (V \cup {NoWatch}) \X (V \cup {NoWatch})
<1> DEFINE free == Unassigned(a, c)
           rest == free \ {First(free)}
<1>1. \A i \in DOMAIN c : Value(c[i]) \in V
  BY DEF LiteralsOver
<1>2. free \subseteq DOMAIN c /\ free \subseteq Nat
  BY DEF Unassigned
<1>3. free # {} => First(free) \in free
  BY <1>2, LeastExists
<1>4. rest # {} => First(rest) \in rest
  BY <1>2, LeastExists
<1>5. WatcherOf(a, c) =
        <<IF free = {} THEN NoWatch ELSE Value(c[First(free)]),
          IF free = {} \/ rest = {} THEN NoWatch ELSE Value(c[First(rest)])>>
  BY DEF WatcherOf
<1>6. (IF free = {} THEN NoWatch ELSE Value(c[First(free)])) \in V \cup {NoWatch}
  <2> HIDE DEF free
  <2> QED BY <1>1, <1>2, <1>3
<1>7. (IF free = {} \/ rest = {} THEN NoWatch ELSE Value(c[First(rest)])) \in V \cup {NoWatch}
  <2>1. rest \subseteq free
    OBVIOUS
  <2> HIDE DEF free, rest
  <2> QED BY <1>1, <1>2, <1>4, <2>1
<1> HIDE DEF free, rest
<1> QED
  BY <1>5, <1>6, <1>7

(***************************************************************************)
(* Of one variable, only one literal is false.                             *)
(***************************************************************************)
LEMMA FalseLiteralUnique ==
    ASSUME NEW a, NEW l \in Int, NEW k \in Int,
           LitFalse(a, l), LitFalse(a, k), Value(l) = Value(k)
    PROVE  l = k
BY DEF LitFalse, IsOn, IsOff, Value, On, Off

(***************************************************************************)
(* No assignment makes a literal both true and false, and none makes two   *)
(* opposite literals true.                                                 *)
(***************************************************************************)
LEMMA TrueIsNotFalse ==
    ASSUME NEW a, NEW l \in Int
    PROVE  ~(LitTrue(a, l) /\ LitFalse(a, l))
BY DEF LitTrue, LitFalse, IsOn, IsOff, On, Off

LEMMA OppositeLiterals ==
    ASSUME NEW a, NEW b, NEW l \in Int, NEW k \in Int, Value(l) = Value(k),
           LitFalse(a, l), LitTrue(a, k)
    PROVE  ~(LitTrue(b, l) /\ LitTrue(b, k))
BY DEF LitTrue, LitFalse, IsOn, IsOff, Value, On, Off

(***************************************************************************)
(* An assigned literal that is not true is false.                          *)
(***************************************************************************)
LEMMA AssignedLiteral ==
    ASSUME NEW V, NEW a \in [V -> Assignments], NEW l \in LiteralsOver(V),
           a[Value(l)] # NotAssigned
    PROVE  LitTrue(a, l) \/ LitFalse(a, l)
BY DEF LiteralsOver, LitTrue, LitFalse, IsOn, IsOff, Value, Assignments, NotAssigned

(***************************************************************************)
(* The elements of a sequence that one element was appended to.            *)
(***************************************************************************)
LEMMA AppendElements ==
    ASSUME NEW U, NEW s \in Seq(U), NEW e \in U
    PROVE  \A r \in DOMAIN Append(s, e) :
               \/ Append(s, e)[r] = e
               \/ r \in DOMAIN s /\ Append(s, e)[r] = s[r]
<1> PICK t : t = Append(s, e)
  OBVIOUS
<1>1. /\ t \in Seq(U) /\ Len(t) = Len(s) + 1 /\ Len(s) \in Nat
      /\ \A i \in 1..Len(s) : t[i] = s[i]
      /\ t[Len(s) + 1] = e
  BY AppendProperties, LenProperties
<1>2. DOMAIN t = 1..(Len(s) + 1) /\ DOMAIN s = 1..Len(s)
  BY <1>1, LenProperties
<1>3. \A r \in 1..(Len(s) + 1) : r \in 1..Len(s) \/ r = Len(s) + 1
  BY <1>1
<1>4. \A r \in DOMAIN t : t[r] = e \/ (r \in DOMAIN s /\ t[r] = s[r])
  BY ONLY <1>1, <1>2, <1>3
<1> QED
  BY <1>4

(***************************************************************************)
(* A clause all of whose literals but l are contradicted by the model      *)
(* leaves l as a consequence of the model.                                 *)
(***************************************************************************)
LEMMA UnitFollows ==
    ASSUME NEW m, NEW C, NEW l, EntailsSome(m, C),
           \A k \in C : k # l =>
               \A b \in Valuations(m) : SatisfiesModel(b, m) => ~LitTrue(b, k)
    PROVE  EntailsSome(m, {l})
BY DEF EntailsSome

(***************************************************************************)
(* A clause all of whose literals are contradicted by the model refutes it.*)
(***************************************************************************)
LEMMA Refutation ==
    ASSUME NEW m, NEW C, EntailsSome(m, C),
           \A k \in C :
               \A b \in Valuations(m) : SatisfiesModel(b, m) => ~LitTrue(b, k)
    PROVE  ~Satisfiable(m)
BY DEF EntailsSome, Satisfiable

(***************************************************************************)
(* A clause of the model follows from the model.                           *)
(***************************************************************************)
LEMMA ModelClauseFollows ==
    ASSUME NEW m, NEW k \in DOMAIN m.clauses
    PROVE  EntailsSome(m, LitsOf(m.clauses[k]))
BY DEF EntailsSome, SatisfiesModel, IsClauseSatisfied, LitsOf
=============================================================================
