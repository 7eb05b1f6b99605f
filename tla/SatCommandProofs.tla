-------------------------- MODULE SatCommandProofs --------------------------
(***************************************************************************)
(* From a file to its answer: what the reader returns is what the file     *)
(* says, in a form that the solver's constructor accepts, and the answer   *)
(* that the command prints is about that file.                             *)
(*                                                                         *)
(* The invariant of the reader (ReaderInv) relates its vectors to the      *)
(* lines read so far; that of the command (CommandInv) adds what each      *)
(* phase of the loop has of the reader and of the solver.                  *)
(***************************************************************************)
EXTENDS SatCommand, CnfProofs

----------------------------------------------------------------------------
(***************************************************************************)
(* The list of a finite set of numbers in their order: it exists, by the   *)
(* least size of a set that would have none, and lists the set.            *)
(***************************************************************************)
IsAscending(list) == \A i, j \in DOMAIN list : i < j => list[i] < list[j]

LEMMA SortedExists ==
    ASSUME NEW S, S \subseteq Nat, IsFiniteSet(S)
    PROVE  \E list \in [1..Cardinality(S) -> S] : IsAscending(list)
<1> DEFINE Lists(T) == {list \in [1..Cardinality(T) -> T] : IsAscending(list)}
           Bad == {n \in Nat : \E T \in SUBSET Nat :
                      IsFiniteSet(T) /\ Cardinality(T) = n /\ Lists(T) = {}}
           n == First(Bad)
<1> SUFFICES ASSUME Bad # {} PROVE FALSE
  BY FS_CardinalityType
<1>1. n \in Bad /\ \A k \in Bad : n <= k
  <2> HIDE DEF Bad, n
  <2>1. Bad \subseteq Nat
    BY DEF Bad
  <2> QED
    BY <2>1, LeastExists DEF n
<1>2. PICK T \in SUBSET Nat : IsFiniteSet(T) /\ Cardinality(T) = n /\ Lists(T) = {}
  BY <1>1
<1> HIDE DEF n
<1>3. CASE T = {}
  <2>1. Cardinality(T) = 0
    BY <1>3, FS_EmptySet
  <2>2. [i \in {} |-> 0] \in [1..Cardinality(T) -> T]
    BY <2>1
  <2>3. IsAscending([i \in {} |-> 0])
    BY DEF IsAscending
  <2> QED
    BY <1>2, <2>2, <2>3
<1>4. CASE T # {}
  <2> DEFINE m == First(T)
             U == T \ {m}
  <2>1. m \in T /\ \A k \in T : m <= k
    BY <1>4, LeastExists
  <2> HIDE DEF m
  <2>2. /\ n \in Nat /\ IsFiniteSet(U) /\ Cardinality(U) = n - 1
        /\ n - 1 \in Nat
    <3>1. n \in Nat /\ IsFiniteSet(T) /\ Cardinality(T) = n
      BY <1>1, <1>2
    <3>2. IsFiniteSet(U) /\ Cardinality(U) = n - 1
      BY <2>1, <3>1, FS_RemoveElement
    <3>3. Cardinality(U) \in Nat
      BY <3>2, FS_CardinalityType
    <3> QED
      BY <3>1, <3>2, <3>3
  <2>3. Lists(U) # {}
    <3> SUFFICES ASSUME Lists(U) = {} PROVE FALSE
      OBVIOUS
    <3>1. U \in SUBSET Nat /\ n - 1 \in Nat
      BY <2>2
    <3>2. n - 1 \in Bad
      BY <2>2, <3>1
    <3> HIDE DEF Bad
    <3> QED
      BY <1>1, <2>2, <3>2
  <2>4. PICK rest \in [1..(n - 1) -> U] : IsAscending(rest)
    BY <2>2, <2>3
  <2> DEFINE list == [i \in 1..n |-> IF i = 1 THEN m ELSE rest[i - 1]]
  <2>5. \A i \in 1..n : i # 1 => i - 1 \in 1..(n - 1)
    BY <2>2
  <2>6. \A i \in 1..n : i # 1 => rest[i - 1] \in U
    BY <2>4, <2>5
  <2>7. list \in [1..n -> T]
    BY <2>1, <2>6
  <2>8. \A k \in U : m < k
    <3>1. m \in Nat /\ U \subseteq Nat
      BY <2>1
    <3> QED
      BY <2>1, <3>1
  <2>9. IsAscending(list)
    <3> SUFFICES ASSUME NEW i \in 1..n, NEW j \in 1..n, i < j PROVE list[i] < list[j]
      BY DEF IsAscending
    <3>1. j # 1 /\ j - 1 \in 1..(n - 1)
      BY <2>2, <2>5
    <3>2. CASE i = 1
      BY <2>6, <2>8, <3>1, <3>2
    <3>3. CASE i # 1
      <4>1. i - 1 \in 1..(n - 1) /\ i - 1 < j - 1
        BY <2>2, <2>5, <3>3
      <4> QED
        BY <2>4, <3>1, <3>3, <4>1 DEF IsAscending
    <3> QED
      BY <3>2, <3>3
  <2> QED
    BY <1>2, <2>7, <2>9
<1> QED
  BY <1>3, <1>4

LEMMA SortedListOf ==
    ASSUME NEW S, S \subseteq Nat, IsFiniteSet(S)
    PROVE  /\ SortedList(S) \in [1..Cardinality(S) -> S]
           /\ Cardinality(S) \in Nat
           /\ \A i, j \in 1..Cardinality(S) : SortedList(S)[i] = SortedList(S)[j] => i = j
           /\ {SortedList(S)[i] : i \in 1..Cardinality(S)} = S
<1> DEFINE n == Cardinality(S)
<1>1. n \in Nat
  BY FS_CardinalityType
<1>2. PICK list : list = SortedList(S)
  OBVIOUS
<1>3. list \in [1..n -> S] /\ IsAscending(list)
  BY <1>2, SortedExists DEF SortedList, IsAscending
<1> HIDE DEF n
<1>4. \A i, j \in 1..n : list[i] = list[j] => i = j
  <2> SUFFICES ASSUME NEW i \in 1..n, NEW j \in 1..n, list[i] = list[j] PROVE i = j
    OBVIOUS
  <2>1. list[i] \in Nat /\ list[j] \in Nat
    BY <1>3
  <2>2. ~(i < j) /\ ~(j < i)
    BY <1>3, <2>1 DEF IsAscending
  <2> QED
    BY <1>1, <2>2
<1>5. list \in Injection(1..n, S)
  BY <1>3, <1>4 DEF Injection, IsInjective
<1>6. IsFiniteSet(1..n) /\ Cardinality(1..n) = n
  BY <1>1, FS_Interval
<1>7. list \in Surjection(1..n, S)
  BY <1>5, <1>6, FS_Injection DEF n
<1>8. {list[i] : i \in 1..n} = S
  BY <1>3, <1>7 DEF Surjection
<1>9. Cardinality(S) = n
  BY DEF n
<1> QED
  BY ONLY <1>1, <1>2, <1>3, <1>4, <1>8, <1>9

----------------------------------------------------------------------------
(***************************************************************************)
(* A clause is the numbers of its line up to the first zero.               *)
(***************************************************************************)
LEMMA ClauseOfLine ==
    ASSUME NEW numbers \in Seq(Int)
    PROVE  /\ ClauseOf(numbers) \in Seq(Int \ {0})
           /\ Len(ClauseOf(numbers)) \in 0..Len(numbers)
           /\ IsPrefix(ClauseOf(numbers), numbers)
           /\ Len(ClauseOf(numbers)) < Len(numbers) => numbers[Len(ClauseOf(numbers)) + 1] = 0
           /\ ClauseOf(numbers) = << >> => numbers = << >> \/ numbers[1] = 0
<1> DEFINE ends == {i \in DOMAIN numbers : numbers[i] = 0}
<1>1. /\ Len(numbers) \in Nat /\ DOMAIN numbers = 1..Len(numbers)
      /\ \A i \in 1..Len(numbers) : numbers[i] \in Int
  BY LenProperties, ElementOfSeq
<1>2. CASE ends = {}
  <2>1. ClauseOf(numbers) = numbers
    BY <1>2 DEF ClauseOf
  <2>2. \A i \in 1..Len(numbers) : numbers[i] \in Int \ {0}
    BY <1>1, <1>2
  <2>3. SubSeq(numbers, 1, Len(numbers)) = numbers
    BY SubSeqFull
  <2>4. numbers \in Seq(Int \ {0})
    BY <1>1, <2>2, <2>3, SubSeqProperties
  <2>5. IsPrefix(numbers, numbers)
    BY <1>1 DEF IsPrefix
  <2> QED
    BY <1>1, <2>1, <2>4, <2>5
<1>3. CASE ends # {}
  <2> DEFINE e == First(ends)
  <2>1. e \in ends /\ \A i \in ends : e <= i
    <3>1. ends \subseteq Nat
      BY <1>1
    <3> HIDE DEF ends
    <3> QED
      BY <1>3, <3>1, LeastExists
  <2>2. ClauseOf(numbers) = SubSeq(numbers, 1, e - 1)
    BY <1>3 DEF ClauseOf, First
  <2> HIDE DEF e
  <2>3. e \in 1..Len(numbers) /\ numbers[e] = 0 /\ \A i \in 1..(e - 1) : numbers[i] # 0
    <3> SUFFICES ASSUME NEW i \in 1..(e - 1), numbers[i] = 0 PROVE FALSE
      BY <1>1, <2>1
    <3>1. i \in ends /\ e \in 1..Len(numbers)
      BY <1>1, <2>1
    <3> QED
      BY <1>1, <2>1, <3>1
  <2>4. e - 1 \in Int /\ \A i \in 1..(e - 1) : numbers[i] \in Int \ {0}
    BY <1>1, <2>3
  <2>5. /\ ClauseOf(numbers) \in Seq(Int \ {0})
        /\ Len(ClauseOf(numbers)) = IF 1 <= e - 1 THEN (e - 1) - 1 + 1 ELSE 0
    BY <2>2, <2>4, SubSeqProperties
  <2>6. Len(ClauseOf(numbers)) = e - 1
    BY <1>1, <2>3, <2>5
  <2>7. IsPrefix(ClauseOf(numbers), numbers)
    <3>1. SubSeq(ClauseOf(numbers), 1, e - 1) = ClauseOf(numbers)
      BY <2>5, <2>6, SubSeqFull
    <3> QED
      BY <1>1, <2>2, <2>3, <2>6, <3>1 DEF IsPrefix
  <2>8. ClauseOf(numbers) = << >> => e - 1 = 0
    BY <2>6, EmptySeq
  <2> QED
    BY <1>1, <2>3, <2>5, <2>6, <2>7, <2>8
<1> QED
  BY <1>2, <1>3

(***************************************************************************)
(* The variables of a clause are finitely many positive numbers, and its   *)
(* literals are over them.                                                 *)
(***************************************************************************)
LEMMA VariablesOfClause ==
    ASSUME NEW clause \in Seq(Int \ {0})
    PROVE  /\ VariablesOf(clause) \subseteq Nat \ {0}
           /\ IsFiniteSet(VariablesOf(clause))
           /\ \A i \in DOMAIN clause : clause[i] \in LiteralsOver(VariablesOf(clause))
<1>1. Len(clause) \in Nat /\ clause \in [1..Len(clause) -> Int \ {0}]
  BY LenProperties
<1> DEFINE value == [i \in 1..Len(clause) |-> Value(clause[i])]
<1>2. VariablesOf(clause) = {Value(clause[i]) : i \in 1..Len(clause)}
  BY <1>1 DEF VariablesOf, LitsOf
<1>3. value \in Surjection(1..Len(clause), VariablesOf(clause))
  BY <1>2 DEF Surjection
<1>4. IsFiniteSet(VariablesOf(clause))
  BY <1>1, <1>3, FS_Interval, FS_Surjection
<1>5. \A i \in 1..Len(clause) : Value(clause[i]) \in Nat \ {0} /\ clause[i] \in Int \ {0}
  BY <1>1 DEF Value
<1> QED
  BY <1>1, <1>2, <1>4, <1>5 DEF LiteralsOver

----------------------------------------------------------------------------
(***************************************************************************)
(* The lines of a file, and what the vectors of the reader are to them.    *)
(***************************************************************************)
NumberLine(numbers) == [kind |-> "numbers", numbers |-> numbers]

Lines ==
    {[kind |-> "skipped"]}
        \cup {Problem(cnf, v, c) : cnf \in BOOLEAN, v \in Declared, c \in Declared}
        \cup {NumberLine(numbers) : numbers \in Numbers}

OfKind(f, kind) == {i \in DOMAIN f : f[i].kind = kind}

ClauseAt(f, i) == ClauseOf(f[i].numbers)

\* The clauses `cs' are the non-empty ones of the lines of `f', in their order.
ClausesOfFile(f, cs) ==
    \E line \in [DOMAIN cs -> OfKind(f, "numbers")] :
        /\ \A j, k \in DOMAIN cs : j < k => line[j] < line[k]
        /\ \A j \in DOMAIN cs : cs[j] = ClauseAt(f, line[j]) /\ cs[j] # << >>
        /\ \A i \in OfKind(f, "numbers") :
              ClauseAt(f, i) = << >> \/ \E j \in DOMAIN cs : line[j] = i

VariablesRead(cs, variables) ==
    /\ IsFiniteSet(variables)
    /\ variables = UNION {VariablesOf(cs[k]) : k \in DOMAIN cs}

\* What the capacity of the clauses, which recognises a problem line, says of them.
ProblemFirst(f, capacity) ==
    /\ \A i \in OfKind(f, "problem") : f[i].clauses <= capacity
    /\ capacity = 0 => \A i \in OfKind(f, "problem") : f[i].clauses = 0
    /\ \A i \in OfKind(f, "problem") :
          /\ \A j \in OfKind(f, "problem") : i < j => f[i].clauses = 0
          /\ \A j \in OfKind(f, "numbers") : j < i => ClauseAt(f, j) = << >>

\* The capacity of the variables is the largest number of them declared.
VariablesReserved(f, capacity) ==
    /\ \A i \in OfKind(f, "problem") : f[i].variables <= capacity
    /\ capacity = 0 \/ \E i \in OfKind(f, "problem") : f[i].variables = capacity

(***************************************************************************)
(* The lines of a file that one line was appended to.                      *)
(***************************************************************************)
LEMMA AppendedLine ==
    ASSUME NEW f \in Seq(Lines), NEW l \in Lines
    PROVE  /\ Append(f, l) \in Seq(Lines)
           /\ Len(f) \in Nat /\ DOMAIN f = 1..Len(f)
           /\ DOMAIN Append(f, l) = 1..(Len(f) + 1)
           /\ Len(Append(f, l)) = Len(f) + 1
           /\ \A i \in 1..Len(f) : Append(f, l)[i] = f[i]
           /\ Append(f, l)[Len(f) + 1] = l
           /\ \A i \in 1..(Len(f) + 1) : i \in 1..Len(f) \/ i = Len(f) + 1
<1>1. Append(f, l) \in Seq(Lines) /\ Len(f) \in Nat /\ Len(Append(f, l)) = Len(f) + 1
  BY AppendProperties, LenProperties
<1>2. DOMAIN f = 1..Len(f) /\ DOMAIN Append(f, l) = 1..(Len(f) + 1)
  BY <1>1, LenProperties
<1> QED
  BY <1>1, <1>2, AppendProperties

LEMMA AppendedKind ==
    ASSUME NEW f \in Seq(Lines), NEW l \in Lines, NEW kind
    PROVE  OfKind(Append(f, l), kind) =
               OfKind(f, kind) \cup (IF l.kind = kind THEN {Len(f) + 1} ELSE {})
<1> DEFINE g == Append(f, l)
<1>1. /\ Len(f) \in Nat /\ DOMAIN f = 1..Len(f) /\ DOMAIN g = 1..(Len(f) + 1)
      /\ \A i \in 1..Len(f) : g[i] = f[i]
      /\ g[Len(f) + 1] = l
      /\ \A i \in 1..(Len(f) + 1) : i \in 1..Len(f) \/ i = Len(f) + 1
  BY AppendedLine
<1>2. \A i \in 1..Len(f) : i \in 1..(Len(f) + 1)
  BY <1>1
<1>3. Len(f) + 1 \in 1..(Len(f) + 1) /\ Len(f) + 1 \notin 1..Len(f)
  BY <1>1
<1> HIDE DEF g
<1>4. OfKind(g, kind) = OfKind(f, kind) \cup (IF l.kind = kind THEN {Len(f) + 1} ELSE {})
  BY <1>1, <1>2, <1>3 DEF OfKind
<1> QED
  BY <1>4 DEF g

(***************************************************************************)
(* The clauses of a file after one more line: of a kind that has none, of  *)
(* numbers without a clause, of numbers with one.                          *)
(***************************************************************************)
LEMMA SameClauses ==
    ASSUME NEW f \in Seq(Lines), NEW l \in Lines, NEW cs,
           ClausesOfFile(f, cs),
           l.kind # "numbers" \/ ClauseOf(l.numbers) = << >>
    PROVE  ClausesOfFile(Append(f, l), cs)
<1> DEFINE g == Append(f, l)
<1>1. PICK line \in [DOMAIN cs -> OfKind(f, "numbers")] :
        /\ \A j, k \in DOMAIN cs : j < k => line[j] < line[k]
        /\ \A j \in DOMAIN cs : cs[j] = ClauseAt(f, line[j]) /\ cs[j] # << >>
        /\ \A i \in OfKind(f, "numbers") :
              ClauseAt(f, i) = << >> \/ \E j \in DOMAIN cs : line[j] = i
  BY DEF ClausesOfFile
<1>2. /\ \A i \in OfKind(f, "numbers") : g[i] = f[i]
      /\ g[Len(f) + 1] = l
  BY AppendedLine DEF OfKind
<1>3. OfKind(g, "numbers") =
        OfKind(f, "numbers") \cup (IF l.kind = "numbers" THEN {Len(f) + 1} ELSE {})
  BY AppendedKind
<1> HIDE DEF g
<1>4. line \in [DOMAIN cs -> OfKind(g, "numbers")]
  BY <1>3
<1>5. \A j \in DOMAIN cs : cs[j] = ClauseAt(g, line[j]) /\ cs[j] # << >>
  BY <1>1, <1>2 DEF ClauseAt
<1>6. \A i \in OfKind(g, "numbers") :
        ClauseAt(g, i) = << >> \/ \E j \in DOMAIN cs : line[j] = i
  <2> SUFFICES ASSUME NEW i \in OfKind(g, "numbers")
               PROVE  ClauseAt(g, i) = << >> \/ \E j \in DOMAIN cs : line[j] = i
    OBVIOUS
  <2>1. CASE i \in OfKind(f, "numbers")
    BY <1>1, <1>2, <2>1 DEF ClauseAt
  <2>2. CASE i = Len(f) + 1 /\ l.kind = "numbers"
    BY <1>2, <2>2 DEF ClauseAt
  <2> QED
    BY <1>3, <2>1, <2>2
<1>7. ClausesOfFile(g, cs)
  BY <1>1, <1>4, <1>5, <1>6 DEF ClausesOfFile
<1> QED
  BY <1>7 DEF g

LEMMA OneMoreClause ==
    ASSUME NEW f \in Seq(Lines), NEW l \in Lines, NEW cs \in Seq(Seq(Int \ {0})),
           ClausesOfFile(f, cs),
           l.kind = "numbers", ClauseOf(l.numbers) # << >>,
           ClauseOf(l.numbers) \in Seq(Int \ {0})
    PROVE  ClausesOfFile(Append(f, l), Append(cs, ClauseOf(l.numbers)))
<1> DEFINE g == Append(f, l)
           c == ClauseOf(l.numbers)
           ds == Append(cs, c)
           n == Len(cs)
<1>1. PICK line \in [DOMAIN cs -> OfKind(f, "numbers")] :
        /\ \A j, k \in DOMAIN cs : j < k => line[j] < line[k]
        /\ \A j \in DOMAIN cs : cs[j] = ClauseAt(f, line[j]) /\ cs[j] # << >>
        /\ \A i \in OfKind(f, "numbers") :
              ClauseAt(f, i) = << >> \/ \E j \in DOMAIN cs : line[j] = i
  BY DEF ClausesOfFile
<1>2. /\ \A i \in OfKind(f, "numbers") : g[i] = f[i] /\ i \in Nat /\ i < Len(f) + 1
      /\ g[Len(f) + 1] = l
  BY AppendedLine DEF OfKind
<1>3. OfKind(g, "numbers") = OfKind(f, "numbers") \cup {Len(f) + 1}
  BY AppendedKind
<1>4. /\ n \in Nat /\ DOMAIN cs = 1..n /\ DOMAIN ds = 1..(n + 1)
      /\ \A j \in 1..n : ds[j] = cs[j]
      /\ ds[n + 1] = c
  <2>1. /\ ds \in Seq(Seq(Int \ {0})) /\ Len(ds) = n + 1
        /\ \A j \in 1..n : ds[j] = cs[j]
        /\ ds[n + 1] = c
    BY AppendProperties
  <2> QED
    BY <2>1, LenProperties
<1>5. c # << >> /\ c = ClauseOf(l.numbers)
  OBVIOUS
<1> HIDE DEF g, c, ds, n
<1> DEFINE lines == [j \in 1..(n + 1) |-> IF j = n + 1 THEN Len(f) + 1 ELSE line[j]]
<1>6. \A j \in 1..(n + 1) : j # n + 1 => j \in 1..n
  BY <1>4
<1>7. \A j \in 1..n : lines[j] = line[j] /\ line[j] \in OfKind(f, "numbers")
  BY <1>1, <1>4
<1>8. lines[n + 1] = Len(f) + 1
  BY <1>4
<1>9. lines \in [DOMAIN ds -> OfKind(g, "numbers")]
  BY <1>3, <1>4, <1>6, <1>7
<1> HIDE DEF lines
<1>10. \A j, k \in DOMAIN ds : j < k => lines[j] < lines[k]
  <2> SUFFICES ASSUME NEW j \in 1..(n + 1), NEW k \in 1..(n + 1), j < k
               PROVE  lines[j] < lines[k]
    BY <1>4
  <2>1. j \in 1..n
    BY <1>4
  <2>2. CASE k = n + 1
    BY <1>2, <1>7, <1>8, <2>1, <2>2
  <2>3. CASE k # n + 1
    BY <1>1, <1>4, <1>6, <1>7, <2>1, <2>3
  <2> QED
    BY <2>2, <2>3
<1>11. \A j \in DOMAIN ds : ds[j] = ClauseAt(g, lines[j]) /\ ds[j] # << >>
  <2> SUFFICES ASSUME NEW j \in 1..(n + 1)
               PROVE  ds[j] = ClauseAt(g, lines[j]) /\ ds[j] # << >>
    BY <1>4
  <2>1. CASE j = n + 1
    BY <1>2, <1>4, <1>5, <1>8, <2>1 DEF ClauseAt
  <2>2. CASE j # n + 1
    <3>1. j \in 1..n
      BY <1>6, <2>2
    <3>2. cs[j] = ClauseAt(f, line[j]) /\ cs[j] # << >>
      BY <1>1, <1>4, <3>1
    <3>3. g[lines[j]] = f[line[j]] /\ ds[j] = cs[j]
      BY <1>2, <1>4, <1>7, <3>1
    <3> QED
      BY <3>2, <3>3 DEF ClauseAt
  <2> QED
    BY <2>1, <2>2
<1>12. \A i \in OfKind(g, "numbers") :
         ClauseAt(g, i) = << >> \/ \E j \in DOMAIN ds : lines[j] = i
  <2> SUFFICES ASSUME NEW i \in OfKind(g, "numbers"), ClauseAt(g, i) # << >>
               PROVE  \E j \in 1..(n + 1) : lines[j] = i
    BY <1>4
  <2>1. CASE i = Len(f) + 1
    BY <1>4, <1>8, <2>1
  <2>2. CASE i \in OfKind(f, "numbers")
    <3>1. PICK j \in 1..n : line[j] = i
      BY <1>1, <1>2, <1>4, <2>2 DEF ClauseAt
    <3>2. j \in 1..(n + 1) /\ lines[j] = i
      BY <1>4, <1>7, <3>1
    <3> QED
      BY ONLY <3>2
  <2> QED
    BY <1>3, <2>1, <2>2
<1>13. ClausesOfFile(g, ds)
  BY <1>9, <1>10, <1>11, <1>12 DEF ClausesOfFile
<1> QED
  BY <1>13 DEF g, ds, c

LEMMA NoClauses ==
    ASSUME NEW f \in Seq(Lines), NEW i \in OfKind(f, "numbers"), ClausesOfFile(f, << >>)
    PROVE  ClauseAt(f, i) = << >>
<1>1. DOMAIN << >> = {}
  BY EmptySeq, LenProperties
<1> QED
  BY <1>1 DEF ClausesOfFile

(***************************************************************************)
(* What a line holds.                                                      *)
(***************************************************************************)
LEMMA LineFields ==
    ASSUME NEW f \in Seq(Lines)
    PROVE  /\ \A i \in OfKind(f, "numbers") : f[i].numbers \in Seq(Int)
           /\ \A i \in OfKind(f, "problem") : f[i].variables \in Int /\ f[i].clauses \in Int
<1>1. \A i \in DOMAIN f : f[i] \in Lines
  BY LenProperties, ElementOfSeq
<1>2. Numbers \subseteq Seq(Int) /\ Declared \subseteq Int
  BY LinesAssumption
<1>3. \A l \in Lines : l.kind = "numbers" => l.numbers \in Numbers
  BY DEF Lines, Problem, NumberLine
<1>4. \A l \in Lines : l.kind = "problem" => l.variables \in Declared /\ l.clauses \in Declared
  BY DEF Lines, Problem, NumberLine
<1> QED
  BY <1>1, <1>2, <1>3, <1>4 DEF OfKind

LEMMA ProblemLine ==
    ASSUME NEW cnf \in BOOLEAN, NEW v \in Declared, NEW c \in Declared
    PROVE  /\ Problem(cnf, v, c) \in Lines
           /\ Problem(cnf, v, c).kind = "problem"
           /\ Problem(cnf, v, c).variables = v
           /\ Problem(cnf, v, c).clauses = c
<1>1. Problem(cnf, v, c) \in Lines
  <2>1. Problem(cnf, v, c) \in {Problem(a, w, d) : a \in BOOLEAN, w \in Declared, d \in Declared}
    OBVIOUS
  <2> QED
    BY <2>1 DEF Lines
<1> QED
  BY <1>1 DEF Problem

(***************************************************************************)
(* The capacities after a line that declares nothing, and after a problem  *)
(* line that is accepted.                                                  *)
(***************************************************************************)
LEMMA ProblemsBefore ==
    ASSUME NEW f \in Seq(Lines), NEW l \in Lines, l.kind # "problem",
           NEW cap \in Nat, NEW capNext \in Nat, cap <= capNext
    PROVE  /\ ProblemFirst(f, cap) => ProblemFirst(Append(f, l), capNext)
           /\ VariablesReserved(f, cap) => VariablesReserved(Append(f, l), cap)
<1> DEFINE g == Append(f, l)
<1>1. /\ Len(f) \in Nat
      /\ \A i \in 1..Len(f) : g[i] = f[i]
      /\ OfKind(f, "problem") \subseteq 1..Len(f) /\ OfKind(f, "numbers") \subseteq 1..Len(f)
  BY AppendedLine DEF OfKind
<1>2. OfKind(g, "problem") = OfKind(f, "problem")
  <2>1. OfKind(g, "problem") = OfKind(f, "problem") \cup {}
    BY AppendedKind
  <2> QED
    BY <2>1
<1>3. OfKind(g, "numbers") \subseteq OfKind(f, "numbers") \cup {Len(f) + 1}
  BY AppendedKind
<1> HIDE DEF g
<1>4. ASSUME ProblemFirst(f, cap) PROVE ProblemFirst(g, capNext)
  <2>1. \A i \in OfKind(f, "problem"), j \in OfKind(g, "numbers") :
           j < i => ClauseAt(g, j) = << >>
    <3> SUFFICES ASSUME NEW i \in OfKind(f, "problem"), NEW j \in OfKind(g, "numbers"), j < i
                 PROVE  ClauseAt(g, j) = << >>
      OBVIOUS
    <3>1. j \in OfKind(f, "numbers")
      BY <1>1, <1>3
    <3> QED
      BY <1>1, <1>4, <3>1 DEF ProblemFirst, ClauseAt
  <2>2. \A i \in OfKind(f, "problem") : f[i].clauses <= capNext
    <3> SUFFICES ASSUME NEW i \in OfKind(f, "problem") PROVE f[i].clauses <= capNext
      OBVIOUS
    <3>1. f[i].clauses \in Int /\ f[i].clauses <= cap
      BY <1>4, LineFields DEF ProblemFirst
    <3> QED
      BY <3>1
  <2>3. capNext = 0 => cap = 0
    OBVIOUS
  <2> QED
    BY <1>1, <1>2, <1>4, <2>1, <2>2, <2>3 DEF ProblemFirst
<1>5. ASSUME VariablesReserved(f, cap) PROVE VariablesReserved(g, cap)
  BY <1>1, <1>2, <1>5 DEF VariablesReserved
<1> QED
  BY <1>4, <1>5 DEF g

LEMMA OneMoreProblem ==
    ASSUME NEW f \in Seq(Lines), NEW v \in Declared, NEW c \in Declared, v >= 0, c >= 0,
           \A i \in OfKind(f, "numbers") : ClauseAt(f, i) = << >>,
           ProblemFirst(f, 0)
    PROVE  ProblemFirst(Append(f, Problem(TRUE, v, c)), Reserved(0, c))
<1> DEFINE l == Problem(TRUE, v, c)
<1>1. l \in Lines /\ l.kind = "problem" /\ l.clauses = c
  BY ProblemLine
<1> HIDE DEF l
<1> DEFINE g == Append(f, l)
<1>2. /\ Len(f) \in Nat
      /\ \A i \in 1..Len(f) : g[i] = f[i]
      /\ g[Len(f) + 1] = l
      /\ OfKind(f, "problem") \subseteq 1..Len(f) /\ OfKind(f, "numbers") \subseteq 1..Len(f)
  BY <1>1, AppendedLine DEF OfKind
<1>3. OfKind(g, "problem") = OfKind(f, "problem") \cup {Len(f) + 1}
  BY <1>1, AppendedKind
<1>4. OfKind(g, "numbers") = OfKind(f, "numbers")
  <2>1. OfKind(g, "numbers") = OfKind(f, "numbers") \cup {}
    BY <1>1, AppendedKind
  <2> QED
    BY <2>1
<1>5. c \in Int
  BY LinesAssumption
<1> HIDE DEF g
<1>6. \A i \in OfKind(f, "problem") : g[i].clauses = 0
  BY <1>2 DEF ProblemFirst
<1>7. Reserved(0, c) = 0 => c = 0
  BY <1>5 DEF Reserved
<1>8. \A i, j \in OfKind(g, "problem") : i < j => g[i].clauses = 0
  <2> SUFFICES ASSUME NEW i \in OfKind(g, "problem"), NEW j \in OfKind(g, "problem"), i < j
               PROVE  g[i].clauses = 0
    OBVIOUS
  <2>1. i \in OfKind(f, "problem")
    BY <1>2, <1>3
  <2> QED
    BY <1>6, <2>1
<1>9. \A j \in OfKind(g, "numbers") : ClauseAt(g, j) = << >>
  BY <1>2, <1>4 DEF ClauseAt
<1>10. \A i \in OfKind(g, "problem") : g[i].clauses <= Reserved(0, c)
  <2>1. 0 <= Reserved(0, c) /\ c <= Reserved(0, c)
    BY <1>5 DEF Reserved
  <2> QED
    BY <1>1, <1>2, <1>3, <1>6, <2>1
<1>11. ProblemFirst(g, Reserved(0, c))
  BY <1>1, <1>2, <1>3, <1>6, <1>7, <1>8, <1>9, <1>10 DEF ProblemFirst
<1> QED
  BY <1>11 DEF g, l

LEMMA MoreReserved ==
    ASSUME NEW f \in Seq(Lines), NEW v \in Declared, NEW c \in Declared, v >= 0,
           NEW cap \in Nat, VariablesReserved(f, cap)
    PROVE  VariablesReserved(Append(f, Problem(TRUE, v, c)), Reserved(cap, v))
<1> DEFINE l == Problem(TRUE, v, c)
<1>1. l \in Lines /\ l.kind = "problem" /\ l.variables = v
  BY ProblemLine
<1> HIDE DEF l
<1> DEFINE g == Append(f, l)
<1>2. /\ \A i \in OfKind(f, "problem") : g[i] = f[i]
      /\ g[Len(f) + 1] = l
  BY <1>1, AppendedLine DEF OfKind
<1>3. OfKind(g, "problem") = OfKind(f, "problem") \cup {Len(f) + 1}
  BY <1>1, AppendedKind
<1>4. v \in Int
  BY LinesAssumption
<1>5. \A i \in OfKind(f, "problem") : f[i].variables \in Int
  BY LineFields
<1> HIDE DEF g
<1>6. CASE cap < v
  <2>1. Reserved(cap, v) = v
    BY <1>6 DEF Reserved
  <2>2. \A i \in OfKind(f, "problem") : g[i].variables <= v
    BY <1>2, <1>4, <1>5, <1>6 DEF VariablesReserved
  <2>3. VariablesReserved(g, v)
    BY <1>1, <1>2, <1>3, <1>4, <2>2 DEF VariablesReserved
  <2> QED
    BY <2>1, <2>3 DEF g, l
<1>7. CASE ~(cap < v)
  <2>1. Reserved(cap, v) = cap
    BY <1>7 DEF Reserved
  <2>2. VariablesReserved(g, cap)
    BY <1>1, <1>2, <1>3, <1>4, <1>7 DEF VariablesReserved
  <2> QED
    BY <2>1, <2>2 DEF g, l
<1> QED
  BY <1>6, <1>7

----------------------------------------------------------------------------
(***************************************************************************)
(* The variables of the clauses after one more clause.                     *)
(***************************************************************************)
LEMMA MoreVariables ==
    ASSUME NEW cs \in Seq(Seq(Int \ {0})), NEW c \in Seq(Int \ {0}), NEW V,
           VariablesRead(cs, V)
    PROVE  VariablesRead(Append(cs, c), V \cup VariablesOf(c))
<1> DEFINE ds == Append(cs, c)
<1>1. /\ Len(cs) \in Nat /\ DOMAIN cs = 1..Len(cs) /\ DOMAIN ds = 1..(Len(cs) + 1)
      /\ \A j \in 1..Len(cs) : ds[j] = cs[j]
      /\ ds[Len(cs) + 1] = c
      /\ \A j \in 1..(Len(cs) + 1) : j \in 1..Len(cs) \/ j = Len(cs) + 1
  <2>1. /\ ds \in Seq(Seq(Int \ {0})) /\ Len(ds) = Len(cs) + 1
        /\ \A j \in 1..Len(cs) : ds[j] = cs[j]
        /\ ds[Len(cs) + 1] = c
    BY AppendProperties
  <2>2. Len(cs) \in Nat /\ DOMAIN cs = 1..Len(cs) /\ DOMAIN ds = 1..(Len(cs) + 1)
    BY <2>1, LenProperties
  <2> QED
    BY <2>1, <2>2
<1>2. IsFiniteSet(V \cup VariablesOf(c))
  BY VariablesOfClause, FS_Union DEF VariablesRead
<1> HIDE DEF ds
<1>3. UNION {VariablesOf(ds[k]) : k \in DOMAIN ds} = V \cup VariablesOf(c)
  <2>1. \A x : x \in UNION {VariablesOf(ds[k]) : k \in DOMAIN ds}
                  <=> \E k \in 1..(Len(cs) + 1) : x \in VariablesOf(ds[k])
    BY <1>1
  <2>2. \A x : x \in V <=> \E k \in 1..Len(cs) : x \in VariablesOf(ds[k])
    BY <1>1 DEF VariablesRead
  <2>3. \A j \in 1..Len(cs) : j \in 1..(Len(cs) + 1)
    BY <1>1
  <2>4. Len(cs) + 1 \in 1..(Len(cs) + 1)
    BY <1>1
  <2> QED
    BY <1>1, <2>1, <2>2, <2>3, <2>4
<1>4. VariablesRead(ds, V \cup VariablesOf(c))
  BY <1>2, <1>3 DEF VariablesRead
<1> QED
  BY <1>4 DEF ds

----------------------------------------------------------------------------
(***************************************************************************)
(* The invariant of the reader.                                            *)
(***************************************************************************)
CountsRead == pc # "threw" =>
    /\ ProblemFirst(file, clauses_capacity)
    /\ VariablesReserved(file, literals_capacity)

ModelBuilt == pc = "returned" =>
    /\ model = [literals |-> SortedList(literals_unique), clauses |-> clauses]
    /\ ndebug \/ (LiteralsAsserted /\ ClausesAsserted)

ReaderInv ==
    /\ TypeOK
    /\ file \in Seq(Lines)
    /\ ClausesOfFile(file, clauses)
    /\ VariablesRead(clauses, literals_unique)
    /\ CountsRead
    /\ ModelBuilt

\* The locals of make_model_from_cnf_file before the first line.
NothingRead ==
    /\ pc = "reading"
    /\ file = << >>
    /\ clauses = << >> /\ clauses_capacity = 0
    /\ literals_unique = {} /\ literals_capacity = 0

LEMMA ReaderStarts ==
    ASSUME NothingRead, ndebug \in BOOLEAN
    PROVE  ReaderInv
<1>1. /\ file \in Seq(Lines) /\ Len(file) = 0
      /\ clauses \in Seq(Seq(Int \ {0})) /\ Len(clauses) = 0
      /\ DOMAIN file = {} /\ DOMAIN clauses = {}
  BY EmptySeq, LenProperties DEF NothingRead
<1>2. TypeOK
  BY <1>1, LinesAssumption DEF TypeOK, NothingRead
<1>3. \A kind : OfKind(file, kind) = {}
  BY <1>1 DEF OfKind
<1>4. ClausesOfFile(file, clauses)
  <2>1. [j \in {} |-> 0] \in [DOMAIN clauses -> OfKind(file, "numbers")]
    BY <1>1
  <2> QED
    BY <1>1, <1>3, <2>1 DEF ClausesOfFile
<1>5. VariablesRead(clauses, literals_unique)
  BY <1>1, FS_EmptySet DEF VariablesRead, NothingRead
<1>6. CountsRead
  BY <1>3 DEF CountsRead, ProblemFirst, VariablesReserved, NothingRead
<1>7. ModelBuilt
  BY DEF ModelBuilt, NothingRead
<1> QED
  BY <1>1, <1>2, <1>4, <1>5, <1>6, <1>7 DEF ReaderInv

----------------------------------------------------------------------------
(***************************************************************************)
(* One more line, whatever it is.                                          *)
(***************************************************************************)
LEMMA LineRead ==
    ASSUME ReaderInv, NEW line \in Lines, Read(line)
    PROVE  /\ pc = "reading" /\ file' = Append(file, line) /\ file' \in Seq(Lines)
           /\ Len(file') <= MaxLines
           /\ ndebug' = ndebug /\ ndebug \in BOOLEAN
           /\ (pc' # "returned" => ModelBuilt')
           /\ ProblemFirst(file, clauses_capacity)
           /\ VariablesReserved(file, literals_capacity)
<1>1. file \in Seq(Lines) /\ TypeOK /\ CountsRead
  BY DEF ReaderInv
<1>2. /\ pc = "reading" /\ file' = Append(file, line) /\ Len(file) < MaxLines
      /\ ndebug' = ndebug
  BY DEF Read
<1>3. Len(file) \in Nat /\ Len(Append(file, line)) = Len(file) + 1 /\ Append(file, line) \in Seq(Lines)
  BY <1>1, AppendedLine
<1>4. Len(file') <= MaxLines
  BY <1>2, <1>3, LinesAssumption
<1>5. pc' # "returned" => ModelBuilt'
  BY DEF ModelBuilt
<1> QED
  BY <1>1, <1>2, <1>3, <1>4, <1>5 DEF TypeOK, CountsRead

LEMMA SkipLineStep ==
    ASSUME ReaderInv, SkipLine
    PROVE  ReaderInv'
<1> DEFINE line == [kind |-> "skipped"]
<1>1. line \in Lines /\ line.kind = "skipped"
  BY DEF Lines
<1>2. Read(line) /\ UNCHANGED <<pc, clauses, clauses_capacity, literals_unique, literals_capacity>>
  BY DEF SkipLine
<1> HIDE DEF line
<1>3. /\ pc = "reading" /\ file' = Append(file, line) /\ file' \in Seq(Lines)
      /\ Len(file') <= MaxLines
      /\ ndebug' = ndebug /\ ndebug \in BOOLEAN
      /\ (pc' # "returned" => ModelBuilt')
      /\ ProblemFirst(file, clauses_capacity)
      /\ VariablesReserved(file, literals_capacity)
  BY <1>1, <1>2, LineRead
<1>4. /\ TypeOK /\ file \in Seq(Lines)
      /\ ClausesOfFile(file, clauses) /\ VariablesRead(clauses, literals_unique)
  BY DEF ReaderInv
<1>5. TypeOK'
  BY <1>2, <1>3, <1>4 DEF TypeOK
<1>6. ClausesOfFile(file', clauses')
  BY <1>1, <1>2, <1>3, <1>4, SameClauses
<1>7. CountsRead'
  <2>1. clauses_capacity \in Nat /\ literals_capacity \in Nat
    BY <1>4 DEF TypeOK
  <2>2. ProblemFirst(file', clauses_capacity)
    BY <1>1, <1>3, <1>4, <2>1, ProblemsBefore
  <2>3. VariablesReserved(file', literals_capacity)
    BY <1>1, <1>3, <1>4, <2>1, ProblemsBefore
  <2> QED
    BY <1>2, <2>2, <2>3 DEF CountsRead
<1> QED
  BY <1>2, <1>3, <1>4, <1>5, <1>6, <1>7 DEF ReaderInv

LEMMA ReadProblemStep ==
    ASSUME ReaderInv, ReadProblem
    PROVE  ReaderInv'
<1>1. PICK v \in Declared, c \in Declared :
        /\ Read(Problem(TRUE, v, c))
        /\ v >= 0 /\ c >= 0
        /\ literals_capacity' = Reserved(literals_capacity, v)
        /\ clauses_capacity' = Reserved(clauses_capacity, c)
  BY DEF ReadProblem
<1>2. ~IsSecondProblem /\ UNCHANGED <<pc, clauses, literals_unique>>
  BY DEF ReadProblem
<1> DEFINE line == Problem(TRUE, v, c)
<1>3. line \in Lines /\ line.kind = "problem"
  BY ProblemLine
<1>4. Read(line)
  BY <1>1
<1>5. v \in Int /\ c \in Int
  BY LinesAssumption
<1>6. /\ TypeOK /\ file \in Seq(Lines)
      /\ ClausesOfFile(file, clauses) /\ VariablesRead(clauses, literals_unique)
  BY DEF ReaderInv
<1> HIDE DEF line
<1>7. /\ pc = "reading" /\ file' = Append(file, line) /\ file' \in Seq(Lines)
      /\ Len(file') <= MaxLines
      /\ ndebug' = ndebug /\ ndebug \in BOOLEAN
      /\ (pc' # "returned" => ModelBuilt')
      /\ ProblemFirst(file, clauses_capacity)
      /\ VariablesReserved(file, literals_capacity)
  BY <1>3, <1>4, LineRead
<1>8. clauses_capacity = 0 /\ clauses = << >>
  <2>1. clauses \in Seq(Seq(Int \ {0})) /\ clauses_capacity \in Nat /\ Len(clauses) <= clauses_capacity
    BY <1>6 DEF TypeOK
  <2>2. clauses_capacity = 0
    BY <1>2, <2>1 DEF IsSecondProblem
  <2> QED
    BY <2>1, <2>2, EmptySeq
<1>9. TypeOK'
  <2>1. /\ literals_capacity' \in Nat /\ clauses_capacity' \in Nat
        /\ Len(clauses) <= clauses_capacity'
    BY <1>1, <1>5, <1>6, <1>8 DEF TypeOK, Reserved
  <2> QED
    BY <1>2, <1>6, <1>7, <2>1 DEF TypeOK
<1>10. ClausesOfFile(file', clauses')
  BY <1>2, <1>3, <1>6, <1>7, SameClauses
<1>11. ProblemFirst(file', clauses_capacity')
  <2>1. \A i \in OfKind(file, "numbers") : ClauseAt(file, i) = << >>
    BY <1>6, <1>8, NoClauses
  <2>2. ProblemFirst(file, 0)
    BY <1>7, <1>8
  <2> QED
    BY <1>1, <1>6, <1>7, <1>8, <2>1, <2>2, OneMoreProblem DEF line
<1>12. VariablesReserved(file', literals_capacity')
  <2>1. literals_capacity \in Nat
    BY <1>6 DEF TypeOK
  <2> QED
    BY <1>1, <1>6, <1>7, <2>1, MoreReserved DEF line
<1> QED
  BY <1>2, <1>6, <1>7, <1>9, <1>10, <1>11, <1>12 DEF ReaderInv, CountsRead

LEMMA RejectProblemStep ==
    ASSUME ReaderInv, RejectProblem
    PROVE  ReaderInv'
<1>1. PICK cnf \in BOOLEAN, v \in Declared, c \in Declared : Read(Problem(cnf, v, c))
  BY DEF RejectProblem
<1>2. /\ pc' = "threw"
      /\ UNCHANGED <<clauses, clauses_capacity, literals_unique, literals_capacity>>
  BY DEF RejectProblem
<1> DEFINE line == Problem(cnf, v, c)
<1>3. line \in Lines /\ line.kind = "problem"
  BY ProblemLine
<1>4. Read(line)
  BY <1>1
<1>5. /\ TypeOK /\ file \in Seq(Lines)
      /\ ClausesOfFile(file, clauses) /\ VariablesRead(clauses, literals_unique)
  BY DEF ReaderInv
<1> HIDE DEF line
<1>6. /\ file' = Append(file, line) /\ file' \in Seq(Lines)
      /\ Len(file') <= MaxLines
      /\ ndebug' = ndebug /\ ndebug \in BOOLEAN
      /\ (pc' # "returned" => ModelBuilt')
  BY <1>3, <1>4, LineRead
<1>7. TypeOK'
  BY <1>2, <1>5, <1>6 DEF TypeOK
<1>8. ClausesOfFile(file', clauses')
  BY <1>2, <1>3, <1>5, <1>6, SameClauses
<1> QED
  BY <1>2, <1>5, <1>6, <1>7, <1>8 DEF ReaderInv, CountsRead

LEMMA ReadClauseStep ==
    ASSUME ReaderInv, ReadClause
    PROVE  ReaderInv'
<1>1. PICK numbers \in Numbers :
        /\ Read(NumberLine(numbers))
        /\ clauses' = clauses \o AddedClause(ClauseOf(numbers))
        /\ clauses_capacity' = IF clauses' = clauses THEN clauses_capacity
                               ELSE Grown(Len(clauses), clauses_capacity)
        /\ literals_unique' = literals_unique \cup VariablesOf(ClauseOf(numbers))
  BY DEF ReadClause, NumberLine
<1>2. UNCHANGED <<pc, literals_capacity>>
  BY DEF ReadClause
<1> DEFINE line == NumberLine(numbers)
           c == ClauseOf(numbers)
<1>3. line \in Lines /\ line.kind = "numbers" /\ line.numbers = numbers
  <2>1. line \in {NumberLine(n) : n \in Numbers}
    OBVIOUS
  <2>2. line \in Lines
    BY <2>1 DEF Lines
  <2> QED
    BY <2>2 DEF NumberLine
<1>4. c \in Seq(Int \ {0})
  BY ClauseOfLine, LinesAssumption
<1>5. /\ TypeOK /\ file \in Seq(Lines)
      /\ ClausesOfFile(file, clauses) /\ VariablesRead(clauses, literals_unique)
  BY DEF ReaderInv
<1>6. Read(line)
  BY <1>1
<1>7. /\ clauses' = clauses \o AddedClause(c)
      /\ literals_unique' = literals_unique \cup VariablesOf(c)
      /\ c = ClauseOf(line.numbers)
  BY <1>1, <1>3
<1> HIDE DEF line, c
<1>8. /\ pc = "reading" /\ file' = Append(file, line) /\ file' \in Seq(Lines)
      /\ Len(file') <= MaxLines
      /\ ndebug' = ndebug /\ ndebug \in BOOLEAN
      /\ (pc' # "returned" => ModelBuilt')
      /\ ProblemFirst(file, clauses_capacity)
      /\ VariablesReserved(file, literals_capacity)
  BY <1>3, <1>6, LineRead
<1>9. /\ clauses \in Seq(Seq(Int \ {0})) /\ Len(clauses) \in Nat
      /\ clauses_capacity \in Nat /\ Len(clauses) <= clauses_capacity
  BY <1>5, LenProperties DEF TypeOK
<1>10. /\ ClausesOfFile(file', clauses') /\ VariablesRead(clauses', literals_unique')
       /\ clauses' \in Seq(Seq(Int \ {0}))
       /\ clauses_capacity' \in Nat /\ Len(clauses') <= clauses_capacity'
       /\ clauses_capacity <= clauses_capacity'
  <2>1. CASE c = << >>
    <3>1. clauses' = clauses
      BY <1>7, <1>9, <2>1, ConcatEmptySeq DEF AddedClause
    <3>2. VariablesOf(c) = {}
      BY <2>1 DEF VariablesOf, LitsOf
    <3>3. clauses_capacity' = clauses_capacity
      BY <1>1, <3>1
    <3>4. ClausesOfFile(file', clauses)
      BY <1>3, <1>5, <1>7, <1>8, <2>1, SameClauses
    <3>5. clauses_capacity <= clauses_capacity'
      BY <1>9, <3>3
    <3>6. VariablesRead(clauses', literals_unique')
      BY <1>5, <1>7, <3>1, <3>2
    <3> QED
      BY <1>9, <3>1, <3>3, <3>4, <3>5, <3>6
  <2>2. CASE c # << >>
    <3>1. clauses' = Append(clauses, c)
      BY <1>4, <1>7, <1>9, <2>2, AppendIsConcat DEF AddedClause
    <3>2. clauses' \in Seq(Seq(Int \ {0})) /\ Len(clauses') = Len(clauses) + 1
      BY <1>4, <1>9, <3>1, AppendProperties
    <3>3. clauses_capacity' = Grown(Len(clauses), clauses_capacity)
      <4>1. clauses' # clauses
        BY <1>9, <3>2
      <4> QED
        BY <1>1, <4>1
    <3>4. /\ clauses_capacity' \in Nat /\ Len(clauses) + 1 <= clauses_capacity'
          /\ clauses_capacity <= clauses_capacity'
      BY <1>9, <3>3 DEF Grown
    <3>5. ClausesOfFile(file', clauses')
      BY <1>3, <1>4, <1>5, <1>7, <1>8, <1>9, <2>2, <3>1, OneMoreClause
    <3>6. VariablesRead(clauses', literals_unique')
      BY <1>4, <1>5, <1>7, <1>9, <3>1, MoreVariables
    <3> QED
      BY <3>2, <3>4, <3>5, <3>6
  <2> QED
    BY <2>1, <2>2
<1>11. TypeOK'
  <2>1. literals_unique' \subseteq Nat \ {0}
    BY <1>4, <1>5, <1>7, VariablesOfClause DEF TypeOK
  <2> QED
    BY <1>2, <1>5, <1>8, <1>10, <2>1 DEF TypeOK
<1>12. CountsRead'
  <2>1. ProblemFirst(file', clauses_capacity')
    BY <1>3, <1>5, <1>8, <1>9, <1>10, ProblemsBefore
  <2>2. literals_capacity \in Nat
    BY <1>5 DEF TypeOK
  <2>3. VariablesReserved(file', literals_capacity)
    BY <1>3, <1>5, <1>8, <2>2, ProblemsBefore
  <2> QED
    BY <1>2, <2>1, <2>3 DEF CountsRead
<1> QED
  BY <1>2, <1>8, <1>10, <1>11, <1>12 DEF ReaderInv

LEMMA ReturnModelStep ==
    ASSUME ReaderInv, ReturnModel
    PROVE  ReaderInv'
<1>1. /\ pc = "reading" /\ pc' = "returned"
      /\ ndebug \/ (LiteralsAsserted /\ ClausesAsserted)
      /\ model' = [literals |-> SortedList(literals_unique), clauses |-> clauses]
      /\ ndebug' = ndebug /\ file' = file
      /\ clauses' = clauses /\ clauses_capacity' = clauses_capacity
      /\ literals_unique' = literals_unique /\ literals_capacity' = literals_capacity
  BY DEF ReturnModel
<1>2. TypeOK'
  BY <1>1 DEF ReaderInv, TypeOK
<1>3. ModelBuilt'
  BY <1>1 DEF ModelBuilt, LiteralsAsserted, ClausesAsserted
<1> QED
  BY <1>1, <1>2, <1>3 DEF ReaderInv, CountsRead

LEMMA FailAssertionStep ==
    ASSUME ReaderInv, FailAssertion
    PROVE  ReaderInv'
<1>1. /\ pc' = "threw"
      /\ ndebug' = ndebug /\ file' = file
      /\ clauses' = clauses /\ clauses_capacity' = clauses_capacity
      /\ literals_unique' = literals_unique /\ literals_capacity' = literals_capacity
  BY DEF FailAssertion
<1>2. TypeOK'
  BY <1>1 DEF ReaderInv, TypeOK
<1> QED
  BY <1>1, <1>2 DEF ReaderInv, CountsRead, ModelBuilt

LEMMA ReaderUnchanged ==
    ASSUME ReaderInv, UNCHANGED vars
    PROVE  ReaderInv'
BY DEF ReaderInv, TypeOK, CountsRead, ModelBuilt, LiteralsAsserted, ClausesAsserted, vars

LEMMA ReaderStep ==
    ASSUME ReaderInv, Next
    PROVE  ReaderInv'
<1>1. CASE SkipLine
  BY <1>1, SkipLineStep
<1>2. CASE ReadProblem
  BY <1>2, ReadProblemStep
<1>3. CASE RejectProblem
  BY <1>3, RejectProblemStep
<1>4. CASE ReadClause
  BY <1>4, ReadClauseStep
<1>5. CASE ReturnModel
  BY <1>5, ReturnModelStep
<1>6. CASE FailAssertion
  BY <1>6, FailAssertionStep
<1> QED
  BY <1>1, <1>2, <1>3, <1>4, <1>5, <1>6 DEF Next

----------------------------------------------------------------------------
(***************************************************************************)
(* What the invariant says of a model that is returned.                    *)
(***************************************************************************)
LEMMA ModelRead ==
    ASSUME ReaderInv, pc = "returned"
    PROVE  /\ model.clauses = clauses
           /\ model.literals \in Seq(literals_unique)
           /\ Len(model.literals) = Cardinality(literals_unique)
           /\ \A i, j \in DOMAIN model.literals : model.literals[i] = model.literals[j] => i = j
           /\ VarsOf(model) = literals_unique
           /\ literals_unique = UNION {VariablesOf(clauses[k]) : k \in DOMAIN clauses}
           /\ clauses \in Seq(Seq(Int \ {0}))
           /\ \A k \in DOMAIN clauses : clauses[k] # << >>
<1>1. model.literals = SortedList(literals_unique) /\ model.clauses = clauses
  BY DEF ReaderInv, ModelBuilt
<1>2. /\ literals_unique \subseteq Nat /\ IsFiniteSet(literals_unique)
      /\ literals_unique = UNION {VariablesOf(clauses[k]) : k \in DOMAIN clauses}
      /\ clauses \in Seq(Seq(Int \ {0}))
  BY DEF ReaderInv, TypeOK, VariablesRead
<1> DEFINE n == Cardinality(literals_unique)
           list == SortedList(literals_unique)
<1>3. /\ list \in [1..n -> literals_unique] /\ n \in Nat
      /\ \A i, j \in 1..n : list[i] = list[j] => i = j
      /\ {list[i] : i \in 1..n} = literals_unique
  <2>1. PICK S : S = literals_unique
    OBVIOUS
  <2>2. S \subseteq Nat /\ IsFiniteSet(S)
    BY <1>2, <2>1
  <2>3. {SortedList(S)[i] : i \in 1..Cardinality(S)} = S
    BY <2>2, SortedListOf
  <2>4. /\ SortedList(S) \in [1..Cardinality(S) -> S] /\ Cardinality(S) \in Nat
        /\ \A i, j \in 1..Cardinality(S) : SortedList(S)[i] = SortedList(S)[j] => i = j
    BY <2>2, SortedListOf
  <2> QED
    BY <2>1, <2>3, <2>4
<1> HIDE DEF n, list
<1>4. list \in Seq(literals_unique)
  BY <1>3, SeqDef
<1>5. Len(list) = n /\ DOMAIN list = 1..n
  BY <1>3, <1>4, LenProperties
<1>6. \A k \in DOMAIN clauses : clauses[k] # << >>
  BY DEF ReaderInv, ClausesOfFile
<1>7. VarsOf(model) = {list[i] : i \in 1..n}
  BY <1>1, <1>5 DEF VarsOf, list
<1> QED
  BY <1>1, <1>2, <1>3, <1>4, <1>5, <1>6, <1>7 DEF n, list

LEMMA WellFormedRead ==
    ASSUME ReaderInv, pc = "returned"
    PROVE  WellFormedModel(model)
<1>1. /\ model.clauses = clauses
      /\ model.literals \in Seq(literals_unique)
      /\ \A i, j \in DOMAIN model.literals : model.literals[i] = model.literals[j] => i = j
      /\ VarsOf(model) = literals_unique
      /\ literals_unique = UNION {VariablesOf(clauses[k]) : k \in DOMAIN clauses}
      /\ clauses \in Seq(Seq(Int \ {0}))
      /\ \A k \in DOMAIN clauses : clauses[k] # << >>
  BY ModelRead
<1>2. literals_unique \subseteq Nat \ {0}
  BY DEF ReaderInv, TypeOK
<1>3. model.literals \in Seq(Nat \ {0})
  BY <1>1, <1>2, SeqMonotonic
<1>4. ASSUME NEW k \in DOMAIN clauses PROVE clauses[k] \in Seq(LiteralsOver(literals_unique))
  <2>1. clauses[k] \in Seq(Int \ {0})
    BY <1>1, LenProperties, ElementOfSeq
  <2>2. VariablesOf(clauses[k]) \subseteq literals_unique
    BY <1>1
  <2>3. \A i \in DOMAIN clauses[k] : clauses[k][i] \in LiteralsOver(VariablesOf(clauses[k]))
    BY <2>1, VariablesOfClause
  <2>4. \A i \in DOMAIN clauses[k] : clauses[k][i] \in LiteralsOver(literals_unique)
    BY <2>2, <2>3 DEF LiteralsOver
  <2>5. Len(clauses[k]) \in Nat /\ clauses[k] \in [1..Len(clauses[k]) -> Int \ {0}]
    BY <2>1, LenProperties
  <2>6. clauses[k] \in [1..Len(clauses[k]) -> LiteralsOver(literals_unique)]
    BY <2>4, <2>5
  <2> QED
    BY <2>5, <2>6, SeqDef
<1>5. Len(clauses) \in Nat /\ clauses \in [1..Len(clauses) -> Seq(LiteralsOver(literals_unique))]
  BY <1>1, <1>4, LenProperties
<1>6. clauses \in Seq(Seq(LiteralsOver(literals_unique)))
  BY <1>5, SeqDef
<1> QED
  BY <1>1, <1>3, <1>6 DEF WellFormedModel

LEMMA EveryClauseRead ==
    ASSUME ReaderInv, pc = "returned"
    PROVE  ReadsEveryClause
<1>1. model.clauses = clauses
  BY ModelRead
<1>2. file \in Seq(Lines) /\ ClausesOfFile(file, clauses)
  BY DEF ReaderInv
<1>3. PICK line \in [DOMAIN clauses -> OfKind(file, "numbers")] :
        /\ \A j, k \in DOMAIN clauses : j < k => line[j] < line[k]
        /\ \A j \in DOMAIN clauses : clauses[j] = ClauseAt(file, line[j]) /\ clauses[j] # << >>
        /\ \A i \in OfKind(file, "numbers") :
              ClauseAt(file, i) = << >> \/ \E j \in DOMAIN clauses : line[j] = i
  BY <1>2 DEF ClausesOfFile
<1>4. NumberLines = OfKind(file, "numbers")
  BY DEF NumberLines, OfKind
<1>5. \A i \in NumberLines : file[i].numbers \in Seq(Int)
  BY <1>2, <1>4, LineFields
<1>6. ASSUME NEW j \in DOMAIN clauses
      PROVE  /\ IsPrefix(clauses[j], file[line[j]].numbers)
             /\ 0 \notin LitsOf(clauses[j])
             /\ Len(clauses[j]) < Len(file[line[j]].numbers) =>
                    file[line[j]].numbers[Len(clauses[j]) + 1] = 0
  <2>1. line[j] \in NumberLines /\ clauses[j] = ClauseOf(file[line[j]].numbers)
    BY <1>3, <1>4 DEF ClauseAt
  <2>2. file[line[j]].numbers \in Seq(Int)
    BY <1>5, <2>1
  <2>3. /\ clauses[j] \in Seq(Int \ {0})
        /\ IsPrefix(clauses[j], file[line[j]].numbers)
        /\ Len(clauses[j]) < Len(file[line[j]].numbers) =>
               file[line[j]].numbers[Len(clauses[j]) + 1] = 0
    BY <2>1, <2>2, ClauseOfLine
  <2>4. \A i \in DOMAIN clauses[j] : clauses[j][i] # 0
    BY <2>3, LenProperties, ElementOfSeq
  <2> QED
    BY <2>3, <2>4 DEF LitsOf
<1>7. ASSUME NEW i \in NumberLines \ Range(line)
      PROVE  file[i].numbers = << >> \/ file[i].numbers[1] = 0
  <2>1. ClauseOf(file[i].numbers) = << >>
    BY <1>3, <1>4 DEF ClauseAt, Range
  <2> QED
    BY <1>5, <2>1, ClauseOfLine
<1>8. /\ line \in [DOMAIN model.clauses -> NumberLines]
      /\ \A j, k \in DOMAIN line : j < k => line[j] < line[k]
      /\ DOMAIN line = DOMAIN clauses
  BY <1>1, <1>3, <1>4
<1> QED
  BY <1>1, <1>6, <1>7, <1>8 DEF ReadsEveryClause

LEMMA ReaderPromises ==
    ASSUME ReaderInv
    PROVE  ModelsWellFormed /\ ReadsEveryClause /\ CountsDeclared
<1>1. ModelsWellFormed
  BY WellFormedRead DEF ModelsWellFormed
<1>2. ReadsEveryClause
  <2>1. CASE pc = "returned"
    BY <2>1, EveryClauseRead
  <2> QED
    BY <2>1 DEF ReadsEveryClause
<1>3. ProblemLines = OfKind(file, "problem") /\ NumberLines = OfKind(file, "numbers")
  BY DEF ProblemLines, NumberLines, OfKind
<1>5. ASSUME pc = "returned", ~ndebug
      PROVE  /\ \A i \in ProblemLines : file[i].variables <= Len(model.literals)
             /\ \A i \in ProblemLines : file[i].clauses <= Len(model.clauses)
             /\ \/ model.literals = << >>
                \/ \E i \in ProblemLines : file[i].variables = Len(model.literals)
  <2>1. VariablesReserved(file, literals_capacity) /\ ProblemFirst(file, clauses_capacity)
    BY <1>5 DEF ReaderInv, CountsRead
  <2>2. Cardinality(literals_unique) = literals_capacity
    BY <1>5 DEF ReaderInv, ModelBuilt, LiteralsAsserted
  <2>3. model.literals \in Seq(literals_unique) /\ Len(model.literals) = literals_capacity
    BY <1>5, <2>2, ModelRead
  <2>4. literals_capacity = 0 => model.literals = << >>
    BY <2>3, EmptySeq
  <2>5. model.clauses = clauses /\ Len(clauses) = clauses_capacity
    BY <1>5, ModelRead DEF ReaderInv, ModelBuilt, ClausesAsserted
  <2> QED
    BY <1>3, <2>1, <2>3, <2>4, <2>5 DEF VariablesReserved, ProblemFirst
<1>6. CountsDeclared
  BY <1>5 DEF CountsDeclared
<1> QED
  BY <1>1, <1>2, <1>6

----------------------------------------------------------------------------
(***************************************************************************)
(* The invariant of the command: what each phase of the loop has of the    *)
(* reader, which is called anew for every file, and of the solver.         *)
(***************************************************************************)
Phases ==
    /\ phase = "options" => processed = 0
    /\ phase \in {"file", "solve", "answered"} => processed < files
    /\ phase = "file" => pc = "reading"
    /\ phase \in {"solve", "answered"} => pc = "returned"

IsAnswer(m, answers) ==
    \/ answers = << >> /\ ~Satisfiable(m)
    \/ \E a \in Valuations(m) : SatisfiesModel(a, m) /\ answers = <<SolutionOf(m, a)>>

Answered ==
    /\ phase \in {"options", "next", "file", "solve"} => results = << >>
    /\ phase = "answered" => IsAnswer(model, results)

CommandInv ==
    /\ ReaderInv
    /\ CommandTypeOK
    /\ Phases
    /\ Answered

LEMMA CommandStarts == CommandInit => CommandInv
<1> SUFFICES ASSUME CommandInit PROVE CommandInv
  OBVIOUS
<1>1. ReaderInv
  BY ReaderStarts DEF CommandInit, Init, NothingRead
<1>2. Len(results) = 0 /\ results = << >>
  BY EmptySeq DEF CommandInit
<1>3. CommandTypeOK
  <2>1. files \in 0..MaxFiles /\ processed \in 0..files
    BY FilesAssumption DEF CommandInit
  <2>2. {logger, undefined, busy} \subseteq BOOLEAN
    BY DEF CommandInit
  <2> QED
    BY <1>1, <1>2, <2>1, <2>2 DEF CommandInit, CommandTypeOK, ReaderInv
<1> QED
  BY <1>1, <1>2, <1>3 DEF CommandInit, CommandInv, Phases, Answered

----------------------------------------------------------------------------
(***************************************************************************)
(* The options: neither the reader nor the solver is called.               *)
(***************************************************************************)
LEMMA OptionsStep ==
    ASSUME CommandInv, Options
    PROVE  CommandInv'
<1>1. UNCHANGED vars /\ UNCHANGED solving /\ processed' = processed /\ phase = "options"
  BY DEF Options, AcceptFile, RefuseFile, RefuseCommandLine, InitLogger, Execute,
         ExecuteNothing
<1>2. /\ ReaderInv /\ CommandTypeOK /\ Phases /\ Answered
      /\ files \in Nat /\ processed = 0 /\ results = << >>
  BY <1>1, FilesAssumption DEF CommandInv, CommandTypeOK, Phases, Answered
<1>3. ReaderInv'
  BY <1>1, <1>2, ReaderUnchanged
<1>4. UNCHANGED <<busy, expected, results, error>>
  BY <1>1 DEF solving
<1>5. /\ phase' \in {"options", "ended", "next"}
      /\ files' \in 0..MaxFiles
      /\ logger' \in BOOLEAN /\ undefined' \in BOOLEAN
  <2>1. logger \in BOOLEAN /\ undefined \in BOOLEAN /\ files \in 0..MaxFiles /\ MaxFiles \in Nat
    BY <1>2, FilesAssumption DEF CommandTypeOK
  <2>2. ~undefined
    BY DEF Options
  <2>3. CASE AcceptFile
    BY <2>1, <2>2, <2>3 DEF AcceptFile
  <2>4. CASE RefuseFile
    BY <2>1, <2>2, <2>4 DEF RefuseFile, Logs
  <2>5. CASE RefuseCommandLine
    BY <2>1, <2>2, <2>5 DEF RefuseCommandLine, Logs
  <2>6. CASE InitLogger
    BY <2>1, <2>2, <2>6 DEF InitLogger
  <2>7. CASE Execute
    BY <2>1, <2>2, <2>7 DEF Execute, Logs
  <2>8. CASE ExecuteNothing
    BY <2>1, <2>2, <2>8 DEF ExecuteNothing, Logs
  <2> QED
    BY <2>3, <2>4, <2>5, <2>6, <2>7, <2>8 DEF Options
<1>6. CommandTypeOK'
  <2>1. processed' \in 0..files'
    BY <1>1, <1>2, <1>5, FilesAssumption
  <2> QED
    BY <1>2, <1>3, <1>4, <1>5, <2>1 DEF CommandTypeOK, ReaderInv
<1>7. Phases' /\ Answered'
  BY <1>1, <1>2, <1>4, <1>5 DEF Phases, Answered
<1> QED
  BY <1>3, <1>6, <1>7 DEF CommandInv

(***************************************************************************)
(* The loop over the files, for which the options are fixed.               *)
(***************************************************************************)
LEMMA OpenFileStep ==
    ASSUME CommandInv, ~undefined, OpenFile
    PROVE  CommandInv'
<1>1. /\ phase = "next" /\ phase' = "file" /\ processed < files
      /\ pc' = "reading" /\ file' = << >>
      /\ clauses' = << >> /\ clauses_capacity' = Len(clauses')
      /\ literals_unique' = {} /\ literals_capacity' = 0
      /\ undefined' \in BOOLEAN
      /\ UNCHANGED <<ndebug, logger, files, processed, busy, expected, results, error>>
  BY DEF OpenFile, FreshLocals, Logs, CommandInv, CommandTypeOK, solving
<1>2. ReaderInv /\ CommandTypeOK /\ Answered
  BY DEF CommandInv
<1>3. ReaderInv'
  <2>1. NothingRead'
    BY <1>1, EmptySeq DEF NothingRead
  <2>2. (ndebug \in BOOLEAN)'
    BY <1>1, <1>2 DEF ReaderInv, TypeOK
  <2> QED
    BY <2>1, <2>2, ReaderStarts, PTL
<1>4. CommandTypeOK'
  BY <1>1, <1>2, <1>3 DEF CommandTypeOK, ReaderInv
<1> QED
  BY <1>1, <1>2, <1>3, <1>4 DEF CommandInv, Phases, Answered

LEMMA FileGoneStep ==
    ASSUME CommandInv, ~undefined, FileGone
    PROVE  CommandInv'
<1>1. phase' = "died" /\ UNCHANGED vars /\ undefined' \in BOOLEAN
      /\ UNCHANGED <<logger, files, processed, busy, expected, results, error>>
  BY DEF FileGone, Logs, CommandInv, CommandTypeOK, solving
<1>2. ReaderInv /\ CommandTypeOK
  BY DEF CommandInv
<1>3. ReaderInv'
  BY <1>1, <1>2, ReaderUnchanged
<1>4. CommandTypeOK'
  BY <1>1, <1>2, <1>3 DEF CommandTypeOK, ReaderInv
<1> QED
  BY <1>1, <1>3, <1>4 DEF CommandInv, Phases, Answered

LEMMA ReadFileStep ==
    ASSUME CommandInv, ~undefined, ReadFile
    PROVE  CommandInv'
<1>1. /\ phase = "file" /\ Next
      /\ phase' = CASE pc' = "reading" -> "file" [] pc' = "returned" -> "solve" [] pc' = "threw" -> "died"
      /\ UNCHANGED <<logger, undefined, files, processed, busy, expected, results, error>>
  BY DEF ReadFile, options, solving
<1>2. ReaderInv /\ CommandTypeOK /\ Phases /\ Answered
  BY DEF CommandInv
<1>3. ReaderInv'
  BY <1>1, <1>2, ReaderStep
<1>4. \/ pc' = "reading" /\ phase' = "file"
      \/ pc' = "returned" /\ phase' = "solve"
      \/ phase' = "died"
  BY <1>1, <1>3 DEF ReaderInv, TypeOK
<1>5. CommandTypeOK'
  BY <1>1, <1>2, <1>3, <1>4 DEF CommandTypeOK, ReaderInv
<1> QED
  BY <1>1, <1>2, <1>3, <1>4, <1>5 DEF CommandInv, Phases, Answered

LEMMA CallSolverStep ==
    ASSUME CommandInv, ~undefined, CallSolver
    PROVE  CommandInv'
<1>1. /\ phase = "solve" /\ UNCHANGED vars
      /\ expected' = 1 /\ busy' \in BOOLEAN /\ results' = << >> /\ error' = "none"
      /\ UNCHANGED <<phase, logger, undefined, files, processed>>
  BY DEF CallSolver, Solver!Call, reader, vars, options
<1>2. ReaderInv /\ CommandTypeOK /\ Phases
  BY DEF CommandInv
<1>3. ReaderInv'
  BY <1>1, <1>2, ReaderUnchanged
<1>4. CommandTypeOK'
  <2>1. Len(results') = 0
    BY <1>1, EmptySeq
  <2> QED
    BY <1>1, <1>2, <1>3, <2>1 DEF CommandTypeOK, ReaderInv
<1>5. pc' = pc
  BY <1>1 DEF vars
<1> QED
  BY <1>1, <1>2, <1>3, <1>4, <1>5 DEF CommandInv, Phases, Answered

LEMMA SolverOperators ==
    ASSUME NEW m, NEW a
    PROVE  /\ Solver!Valuations(m) = Valuations(m)
           /\ Solver!SatisfiesModel(a, m) <=> SatisfiesModel(a, m)
           /\ Solver!Satisfiable(m) <=> Satisfiable(m)
           /\ Solver!SolutionOf(m, a) = SolutionOf(m, a)
<1>1. Solver!Valuations(m) = Valuations(m)
  BY DEF Solver!Valuations, Solver!VarsOf, Solver!On, Solver!Off, Valuations, VarsOf, On, Off
<1>2. \A b : Solver!SatisfiesModel(b, m) <=> SatisfiesModel(b, m)
  BY DEF Solver!SatisfiesModel, Solver!IsClauseSatisfied, Solver!LitTrue, Solver!IsOn, Solver!IsOff,
         Solver!Value, Solver!On, Solver!Off,
         SatisfiesModel, IsClauseSatisfied, LitTrue, IsOn, IsOff, Value, On, Off
<1>3. Solver!SolutionOf(m, a) = SolutionOf(m, a)
  BY DEF Solver!SolutionOf, Solver!On, SolutionOf, On
<1> QED
  BY <1>1, <1>2, <1>3 DEF Solver!Satisfiable, Satisfiable

LEMMA SolverAnswersStep ==
    ASSUME CommandInv, ~undefined, SolverAnswers
    PROVE  CommandInv'
<1>1. /\ phase = "solve" /\ phase' = "answered"
      /\ Solver!Answer \/ Solver!Refuse
      /\ UNCHANGED <<ndebug, pc, file, clauses, clauses_capacity, literals_unique, literals_capacity>>
      /\ undefined' \in BOOLEAN
      /\ UNCHANGED <<logger, files, processed>>
  BY DEF SolverAnswers, Logs, CommandInv, CommandTypeOK
<1>2. ReaderInv /\ CommandTypeOK /\ Phases /\ results = << >>
  BY <1>1 DEF CommandInv, Answered
<1>3. /\ model' = model /\ expected' = expected /\ busy' \in BOOLEAN
      /\ error' \in {"none", "unsatisfiable"}
      /\ IsAnswer(model, results')
      /\ Len(results') <= 1
  <2>1. CASE Solver!Answer
    <3>1. PICK a \in Valuations(model) :
            results' = Append(results, SolutionOf(model, a)) /\ SatisfiesModel(a, model)
      BY <2>1, SolverOperators DEF Solver!Answer
    <3>2. results' = <<SolutionOf(model, a)>>
      BY <1>2, <3>1
    <3>3. IsAnswer(model, results') /\ Len(results') = 1
      BY <3>1, <3>2 DEF IsAnswer
    <3>4. model' = model /\ expected' = expected /\ error' = error /\ busy' \in BOOLEAN
      BY <2>1 DEF Solver!Answer
    <3> QED
      BY <1>2, <3>3, <3>4 DEF CommandTypeOK
  <2>2. CASE Solver!Refuse
    <3>1. /\ model' = model /\ expected' = expected /\ results' = results /\ busy' = FALSE
          /\ error' = "unsatisfiable" /\ ~Satisfiable(model)
      BY <2>2, SolverOperators DEF Solver!Refuse
    <3>2. Len(results') <= 1 /\ busy' \in BOOLEAN
      <4>1. Len(results') = 0
        BY <1>2, <3>1, EmptySeq
      <4>2. busy' \in BOOLEAN
        BY <3>1
      <4> QED
        BY <4>1, <4>2
    <3>3. IsAnswer(model, results')
      BY <1>2, <3>1 DEF IsAnswer
    <3> QED
      BY <3>1, <3>2, <3>3
  <2> QED
    BY <1>1, <2>1, <2>2
<1>4. ReaderInv'
  <2>1. UNCHANGED vars
    BY <1>1, <1>3 DEF vars
  <2> QED
    BY <1>2, <2>1, ReaderUnchanged
<1>5. CommandTypeOK'
  BY <1>1, <1>2, <1>3, <1>4 DEF CommandTypeOK, ReaderInv
<1> QED
  BY <1>1, <1>2, <1>3, <1>4, <1>5 DEF CommandInv, Phases, Answered

LEMMA NextFileStep ==
    ASSUME CommandInv, ~undefined, NextFile
    PROVE  CommandInv'
<1>1. /\ phase = "answered" /\ phase' = "next" /\ processed' = processed + 1 /\ UNCHANGED vars
      /\ busy' = FALSE /\ expected' = 0 /\ results' = << >> /\ error' = "none"
      /\ undefined' \in BOOLEAN
      /\ UNCHANGED <<logger, files>>
  BY DEF NextFile, CommandInv, CommandTypeOK
<1>2. /\ ReaderInv /\ CommandTypeOK /\ processed < files
      /\ files \in 0..MaxFiles /\ processed \in 0..files
  BY <1>1 DEF CommandInv, Phases, CommandTypeOK
<1>3. ReaderInv'
  BY <1>1, <1>2, ReaderUnchanged
<1>4. CommandTypeOK'
  <2>1. Len(results') = 0
    BY <1>1, EmptySeq
  <2>2. processed' \in 0..files'
    BY <1>1, <1>2, FilesAssumption
  <2>3. ({logger, undefined, busy} \subseteq BOOLEAN)' /\ files' \in 0..MaxFiles
    BY <1>1, <1>2 DEF CommandTypeOK
  <2> QED
    BY <1>1, <1>3, <2>1, <2>2, <2>3 DEF CommandTypeOK, ReaderInv
<1> QED
  BY <1>1, <1>3, <1>4 DEF CommandInv, Phases, Answered

LEMMA EndCommandStep ==
    ASSUME CommandInv, ~undefined, EndCommand
    PROVE  CommandInv'
<1>1. phase' = "ended" /\ UNCHANGED vars
      /\ UNCHANGED <<logger, undefined, files, processed, busy, expected, results, error>>
  BY DEF EndCommand, options, solving
<1>2. ReaderInv /\ CommandTypeOK
  BY DEF CommandInv
<1>3. ReaderInv'
  BY <1>1, <1>2, ReaderUnchanged
<1>4. CommandTypeOK'
  BY <1>1, <1>2, <1>3 DEF CommandTypeOK, ReaderInv
<1> QED
  BY <1>1, <1>3, <1>4 DEF CommandInv, Phases, Answered

LEMMA CommandUnchanged ==
    ASSUME CommandInv, UNCHANGED commandVars
    PROVE  CommandInv'
<1>1. /\ UNCHANGED vars
      /\ UNCHANGED <<phase, logger, undefined, files, processed, busy, expected, results, error>>
  BY DEF commandVars, options, solving
<1>2. ReaderInv'
  BY <1>1, ReaderUnchanged DEF CommandInv
<1>3. UNCHANGED <<pc, model>>
  BY <1>1 DEF vars
<1> QED
  BY <1>1, <1>2, <1>3
  DEF CommandInv, CommandTypeOK, ReaderInv, Phases, Answered

LEMMA CommandInvariant == CommandSpec => []CommandInv
<1>1. CommandInv /\ [CommandNext]_commandVars => CommandInv'
  <2> SUFFICES ASSUME CommandInv, [CommandNext]_commandVars PROVE CommandInv'
    OBVIOUS
  <2>1. CASE Options
    BY <2>1, OptionsStep
  <2>2. CASE Program
    <3>1. ~undefined
      BY <2>2 DEF Program
    <3>2. CASE OpenFile
      BY <3>1, <3>2, OpenFileStep
    <3>3. CASE FileGone
      BY <3>1, <3>3, FileGoneStep
    <3>4. CASE ReadFile
      BY <3>1, <3>4, ReadFileStep
    <3>5. CASE CallSolver
      BY <3>1, <3>5, CallSolverStep
    <3>6. CASE SolverAnswers
      BY <3>1, <3>6, SolverAnswersStep
    <3>7. CASE NextFile
      BY <3>1, <3>7, NextFileStep
    <3>8. CASE EndCommand
      BY <3>1, <3>8, EndCommandStep
    <3> QED
      BY <2>2, <3>2, <3>3, <3>4, <3>5, <3>6, <3>7, <3>8 DEF Program
  <2>3. CASE UNCHANGED commandVars
    BY <2>3, CommandUnchanged
  <2> QED
    BY <2>1, <2>2, <2>3 DEF CommandNext
<1> QED
  BY <1>1, CommandStarts, PTL DEF CommandSpec

----------------------------------------------------------------------------
(***************************************************************************)
(* A valuation that satisfies a model, given back as a list of literals,   *)
(* hits each of its clauses and does not contradict itself.                *)
(***************************************************************************)
LEMMA SolutionHitsClauses ==
    ASSUME NEW m, WellFormedModel(m), NEW a \in Valuations(m), SatisfiesModel(a, m)
    PROVE  /\ \A k \in DOMAIN m.clauses : LitsOf(m.clauses[k]) \cap LitsOf(SolutionOf(m, a)) # {}
           /\ \A l \in LitsOf(SolutionOf(m, a)) : -l \notin LitsOf(SolutionOf(m, a))
<1> DEFINE s == SolutionOf(m, a)
<1>1. /\ \A i \in DOMAIN m.literals : m.literals[i] \in Nat \ {0}
      /\ DOMAIN s = DOMAIN m.literals
      /\ \A i \in DOMAIN m.literals :
            s[i] = IF a[m.literals[i]] = On THEN m.literals[i] ELSE -m.literals[i]
  BY LenProperties, ElementOfSeq DEF WellFormedModel, SolutionOf
<1>2. \A i \in DOMAIN m.literals : a[m.literals[i]] \in {On, Off}
  BY DEF Valuations, VarsOf
<1> HIDE DEF s
<1>3. ASSUME NEW k \in DOMAIN m.clauses PROVE LitsOf(m.clauses[k]) \cap LitsOf(s) # {}
  <2>1. PICK i \in DOMAIN m.clauses[k] : LitTrue(a, m.clauses[k][i])
    BY DEF SatisfiesModel, IsClauseSatisfied
  <2> DEFINE l == m.clauses[k][i]
  <2>2. l \in LiteralsOver(VarsOf(m))
    <3>1. m.clauses[k] \in Seq(LiteralsOver(VarsOf(m)))
      BY LenProperties, ElementOfSeq DEF WellFormedModel
    <3> QED
      BY <3>1, LenProperties, ElementOfSeq
  <2>3. LitTrue(a, l) /\ l \in LitsOf(m.clauses[k])
    BY <2>1 DEF LitsOf
  <2> HIDE DEF l
  <2>4. PICK j \in DOMAIN m.literals : m.literals[j] = Value(l)
    BY <2>2 DEF LiteralsOver, VarsOf
  <2>5. l \in Int /\ l # 0
    BY <2>2 DEF LiteralsOver
  <2>6. s[j] = l
    BY <1>1, <1>2, <2>3, <2>4, <2>5 DEF LitTrue, IsOn, IsOff, Value, On, Off
  <2>7. l \in LitsOf(s)
    BY <1>1, <2>6 DEF LitsOf
  <2> QED
    BY <2>3, <2>7
<1>4. ASSUME NEW l \in LitsOf(s), -l \in LitsOf(s) PROVE FALSE
  <2>1. PICK i \in DOMAIN m.literals, j \in DOMAIN m.literals : s[i] = l /\ s[j] = -l
    BY <1>1, <1>4 DEF LitsOf
  <2>2. m.literals[i] \in Nat \ {0} /\ m.literals[j] \in Nat \ {0}
    BY <1>1
  <2>3. m.literals[i] = m.literals[j]
    BY <1>1, <2>1, <2>2
  <2>4. s[i] = s[j]
    BY <1>1, <2>3
  <2> QED
    BY <1>1, <2>1, <2>2, <2>4
<1> QED
  BY <1>3, <1>4 DEF s

LEMMA FileAnswered ==
    ASSUME CommandInv
    PROVE  AnswersTheFile
<1> SUFFICES ASSUME phase = "answered" PROVE AnswersTheFile
  BY DEF AnswersTheFile
<1>1. ReaderInv /\ pc = "returned" /\ IsAnswer(model, results)
  BY DEF CommandInv, Phases, Answered
<1>2. /\ model.clauses = clauses /\ VarsOf(model) = literals_unique
      /\ literals_unique = UNION {VariablesOf(clauses[k]) : k \in DOMAIN clauses}
  BY <1>1, ModelRead
<1>3. WellFormedModel(model)
  BY <1>1, WellFormedRead
<1> DEFINE lines == {ClauseOf(file[i].numbers) : i \in NumberLines} \ {<< >>}
           variables == UNION {VariablesOf(c) : c \in lines}
<1>4. lines = {clauses[k] : k \in DOMAIN clauses}
  <2>1. ClausesOfFile(file, clauses) /\ NumberLines = OfKind(file, "numbers")
    BY <1>1 DEF ReaderInv, NumberLines, OfKind
  <2> QED
    BY <2>1 DEF ClausesOfFile, ClauseAt
<1> HIDE DEF lines
<1>5. variables = VarsOf(model)
  BY <1>2, <1>4
<1> HIDE DEF variables
<1>6. CASE results = << >> /\ ~Satisfiable(model)
  <2>1. ASSUME NEW a \in [variables -> {On, Off}]
        PROVE  \E c \in lines : ~IsClauseSatisfied(a, c)
    <3>1. ~SatisfiesModel(a, model)
      BY <1>5, <1>6 DEF Satisfiable, Valuations
    <3> QED
      BY <1>2, <1>4, <3>1 DEF SatisfiesModel
  <2> QED
    BY <1>6, <2>1 DEF AnswersTheFile, lines, variables
<1>7. ASSUME NEW a \in Valuations(model), SatisfiesModel(a, model),
             results = <<SolutionOf(model, a)>>
      PROVE  AnswersTheFile
  <2>1. results # << >> /\ results[1] = SolutionOf(model, a)
    BY <1>7
  <2>2. /\ \A k \in DOMAIN model.clauses :
              LitsOf(model.clauses[k]) \cap LitsOf(SolutionOf(model, a)) # {}
        /\ \A l \in LitsOf(SolutionOf(model, a)) : -l \notin LitsOf(SolutionOf(model, a))
    BY <1>3, <1>7, SolutionHitsClauses
  <2>3. /\ \A c \in lines : LitsOf(c) \cap LitsOf(results[1]) # {}
        /\ \A l \in LitsOf(results[1]) : -l \notin LitsOf(results[1])
    BY <1>2, <1>4, <2>1, <2>2
  <2> QED
    BY <2>1, <2>3 DEF AnswersTheFile, lines, variables
<1> QED
  BY <1>1, <1>6, <1>7 DEF IsAnswer

----------------------------------------------------------------------------
(***************************************************************************)
(* Type correctness of the command, its reader and its solver.             *)
(***************************************************************************)
THEOREM CommandTypeCorrect == CommandSpec => []CommandTypeOK
<1>1. CommandInv => CommandTypeOK
  BY DEF CommandInv
<1> QED
  BY <1>1, CommandInvariant, PTL

(***************************************************************************)
(* Every model that make_model_from_cnf_file returns has the form that     *)
(* solver_context's constructor asserts, whatever the file holds and       *)
(* whether or not the build checks assertions.                             *)
(***************************************************************************)
THEOREM ModelsAreWellFormed == CommandSpec => []ModelsWellFormed
<1>1. CommandInv => ModelsWellFormed
  BY ReaderPromises DEF CommandInv
<1> QED
  BY <1>1, CommandInvariant, PTL

(***************************************************************************)
(* The clauses of the model are the non-empty ones of the file's lines of  *)
(* numbers, up to their first zero, in the order of the file.              *)
(***************************************************************************)
THEOREM EveryClauseIsRead == CommandSpec => []ReadsEveryClause
<1>1. CommandInv => ReadsEveryClause
  BY ReaderPromises DEF CommandInv
<1> QED
  BY <1>1, CommandInvariant, PTL

(***************************************************************************)
(* In a build with assertions, the model has as many variables as the      *)
(* largest number that a problem line declares, and no fewer clauses than  *)
(* one declares.                                                           *)
(***************************************************************************)
THEOREM CountsAreDeclared == CommandSpec => []CountsDeclared
<1>1. CommandInv => CountsDeclared
  BY ReaderPromises DEF CommandInv
<1> QED
  BY <1>1, CommandInvariant, PTL

(***************************************************************************)
(* The answer is about the lines of the file that was just read: it        *)
(* satisfies each of them, or no assignment does.                          *)
(***************************************************************************)
THEOREM AnswersAreForTheFile == CommandSpec => []AnswersTheFile
<1>1. CommandInv => AnswersTheFile
  BY FileAnswered
<1> QED
  BY <1>1, CommandInvariant, PTL
=============================================================================
